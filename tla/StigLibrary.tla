----------------------------- MODULE StigLibrary -----------------------------
(***************************************************************************)
(* The STIG library: StigSourceManager (stig/source_manager.py) caches one *)
(* package per family, StigRepository (stig/stig_repository.py) keeps every *)
(* release in the database with the mappings of local checks to its rules  *)
(* and the reviews recorded on them, and main_window builds starter checks *)
(* into the directory from which all checks are loaded.                    *)
(*                                                                         *)
(* The operator works through the STIG tab, one command at a time: imports *)
(* and downloads packages, compares releases, measures coverage, marks a   *)
(* rule's automation reviewed, builds starters - and edits the check files *)
(* outside the program, which it reads again on a reload or a restart.     *)
(***************************************************************************)
EXTENDS Naturals, FiniteSets, SequencesExt

CONSTANTS Layer2, Management, \* the STIG families, core ones in the order of download
          Packages,    \* packages DISA published: [hint, benchmark, version, revision, rules]
          Edits,       \* contents the operator may give the main check file
          MaxReleases, \* bound: releases stored
          MaxEdits,    \* bound: edits of the check files
          NoHint       \* a package whose names do not tell its family

\* rules maps vulnerabilities to what is fingerprinted of the rule; revision
\* tells packages apart that DISA published under one version and release.
Families == {Layer2, Management}

\* A digest is that of one package, and a fingerprint is never empty; a file
\* with two checks of a rule is refused (CheckLibrary.vuln_ids_must_be_unique).
ASSUME PackagesAssumption ==
  /\ NoHint \notin Families
  /\ \A p \in Packages : p.hint \in Families \cup {NoHint}
  /\ \A p, q \in Packages : p.revision = q.revision => p.rules = q.rules
  /\ \A p \in Packages : \A v \in DOMAIN p.rules : p.rules[v] # ""

ASSUME EditsAssumption ==
  \A checks \in Edits : \A c, d \in checks : c.vuln = d.vuln => c = d

VARIABLES cache,    \* family -> set with its cached package, or none
          lib,      \* releases in the database, by id
          mappings, \* check_mappings rows
          files,    \* check files: main, and generated (a set of check sets)
          loaded,   \* self.checks
          view,     \* number of releases the library tree shows
          shown,    \* the release diff on display, <<previous, current>>
          imported, \* packages the operator was told are imported
          marked,   \* <<release, vulnerability>> the operator marked reviewed
          held,     \* contents the main check file has had
          edited,   \* the check files were edited since they were last loaded
          edits     \* number of edits

libraryVars == <<cache, lib, mappings, files, loaded, view, shown, imported, marked, held, edited, edits>>

NoDiff == <<0, 0>>

\* A check definition: its vulnerability, the vulnerability of the rule whose
\* STIG ID or rule ID it gives (a rule keeps these from release to release),
\* automated or not, and the fingerprint that its file says it was reviewed
\* against, "" if none.
Check(v, named, automated, reviewed) ==
  [vuln |-> v, named |-> named, automated |-> automated, reviewed |-> reviewed]

Starter(v) == Check(v, v, FALSE, "")

\* _check_matches_rule: any of the identifiers.
MatchesRule(c, v) == v \in {c.vuln, c.named}

VulnsOf(checks) == {c.vuln : c \in checks}

Generated(f) == UNION f.generated

OnDisk(f) == f.main \cup Generated(f)

\* _raise_on_duplicate_checks: a rule checked in two files stops the loading.
Loadable(f) == VulnsOf(f.main) \cap VulnsOf(Generated(f)) = {}

LibraryInit ==
  /\ cache = [f \in Families |-> {}]
  /\ lib = <<>> /\ mappings = {}
  /\ files \in [main : Edits, generated : {{}}]
  /\ loaded = files.main
  /\ view = 0 /\ shown = NoDiff
  /\ imported = {} /\ marked = {} /\ held = {files.main} /\ edited = FALSE /\ edits = 0

\* reload_from_disk: on an error the checks that were loaded stay.
Reload(f) ==
  /\ loaded' = IF Loadable(f) THEN OnDisk(f) ELSE loaded
  /\ edited' = (edited /\ ~Loadable(f))
  /\ UNCHANGED edits
-----------------------------------------------------------------------------
(***************************************************************************)
(* Imports.                                                                *)
(***************************************************************************)
\* The releases a release can be compared with.
Compatible(r, s) == r.family = s.family /\ r.benchmark = s.benchmark

\* previous_benchmark: of those imported earlier, the latest.
Previous(releases, i) ==
  LET earlier == {j \in 1..(i - 1) : Compatible(releases[j], releases[i])}
  IN IF earlier = {} THEN 0 ELSE CHOOSE j \in earlier : \A k \in earlier : k <= j

Release(p, f) ==
  [family |-> f, benchmark |-> p.benchmark, version |-> p.version, sha256 |-> p.revision, rules |-> p.rules]

\* A plausible fault: a package published again is taken for the old one.
SameVersion(r, s) == Compatible(r, s) /\ r.version = s.version

\* The row add_benchmark returns instead of storing a second one.
SameRelease(r, s) == Compatible(r, s) /\ r.version = s.version /\ r.sha256 = s.sha256

Stored(releases, r) == IF \E i \in DOMAIN releases : SameRelease(releases[i], r) THEN releases ELSE Append(releases, r)

\* load_stig_benchmarks keeps what belongs to the family that was asked for;
\* the family is told by the names in the package, and else taken as asked.
Belongs(p, f) == p.hint \in {f, NoHint}

\* StigSourceManager.import_source, then StigRepository.import_sources: the
\* cache is written before the library can refuse.
Install(s, p, f) ==
  IF ~s.ok THEN s
  ELSE LET releases == Stored(s.lib, Release(p, f))
           cached   == [s EXCEPT !.cache[f] = {p}]
       IN IF ~Belongs(p, f) THEN [cached EXCEPT !.ok = FALSE]
          ELSE [cached EXCEPT !.lib = releases, !.imported = @ \cup {<<p, f>>}]

Library == [cache |-> cache, lib |-> lib, imported |-> imported, ok |-> TRUE]

\* What is shown is refreshed only when everything went well.
Finish(s) ==
  /\ Len(s.lib) <= MaxReleases
  /\ cache' = s.cache /\ lib' = s.lib /\ imported' = s.imported
  /\ view' = IF s.ok THEN Len(s.lib) ELSE view
  /\ UNCHANGED <<mappings, files, loaded, shown, marked, held, edited, edits>>

\* import_stig_source, download_latest_stig and download_stig_from_url.
ImportStigSource(p, f) == Finish(Install(Library, p, f))

\* download_core_stigs: one family after the other; the second may fail.
DownloadCoreStigs(p, second) ==
  LET one == Install(Library, p, Layer2)
  IN Finish(IF second = {} THEN [one EXCEPT !.ok = FALSE]
            ELSE Install(one, CHOOSE q \in second : TRUE, Management))
-----------------------------------------------------------------------------
(***************************************************************************)
(* Comparisons, coverage and reviews.                                      *)
(***************************************************************************)
CompareToPrevious(i) ==
  /\ i \in 1..view
  /\ shown' = <<Previous(lib, i), i>>
  /\ UNCHANGED <<cache, lib, mappings, files, loaded, view, imported, marked, held, edited, edits>>

\* The tab passes two selected rows in the order of the tree, where the
\* release imported last is on top.
CompareSelected(i, j) ==
  /\ i \in 1..view /\ j \in 1..view /\ i < j /\ Compatible(lib[i], lib[j])
  /\ shown' = <<j, i>>
  /\ UNCHANGED <<cache, lib, mappings, files, loaded, view, imported, marked, held, edited, edits>>

Files == {"main", "generated"}

ChecksIn(f, name) == IF name = "main" THEN f.main ELSE Generated(f)

\* A plausible fault: a mapping is created as reviewed.
MappingTrusted(i, name, c, v) ==
  [release |-> i, rule |-> v, vuln |-> c.vuln, file |-> name, fingerprint |-> lib[i].rules[v]]

\* The row of a check under the rule it is of.
Mapping(i, name, c, v) ==
  [release |-> i, rule |-> v, vuln |-> c.vuln, file |-> name, fingerprint |-> c.reviewed]

SameMapping(m, n) == m.release = n.release /\ m.rule = n.rule /\ m.vuln = n.vuln /\ m.file = n.file

\* The rows for the checks on disk that are of one rule of the release.
RowsOnDisk(i) ==
  {Mapping(i, x[1], x[2], x[3]) :
     x \in {y \in Files \X OnDisk(files) \X DOMAIN lib[i].rules :
             /\ y[2] \in ChecksIn(files, y[1])
             /\ {v \in DOMAIN lib[i].rules : MatchesRule(y[2], v)} = {y[3]}}}

\* A plausible fault: rows that are there already are added once more.
SyncAnew(i) == mappings \cup RowsOnDisk(i)

\* sync_check_mappings adds rows and leaves those that are there alone.
SyncCheckMappings(i) ==
  mappings \cup {n \in RowsOnDisk(i) : \A m \in mappings : ~SameMapping(m, n)}

\* coverage: a rule with one check, which is automated, and a mapping of the
\* rule, by whatever check, on which the review of the very text is recorded.
ReviewedCurrent(i, v, rows) ==
  /\ \E c \in files.main : c.automated /\ {d \in OnDisk(files) : MatchesRule(d, v)} = {c}
  /\ \E m \in rows : m.release = i /\ m.rule = v /\ m.fingerprint = lib[i].rules[v]

Coverage(i) ==
  /\ i \in 1..view
  /\ mappings' = SyncCheckMappings(i)
  /\ UNCHANGED <<cache, lib, files, loaded, view, shown, imported, marked, held, edited, edits>>

\* A rule of the diff on display is marked against the release selected in
\* the tree, which may be another one. Rows are added even if the rule then
\* has not exactly one that a check gives its own vulnerability.
MarkReviewed(i, v) ==
  /\ i \in 1..view /\ shown[1] # 0 /\ v \in DOMAIN lib[shown[2]].rules
  /\ LET rows == SyncCheckMappings(i)
         own  == {m \in rows : m.release = i /\ m.rule = v /\ m.vuln = v}
         done == Cardinality(own) = 1
     IN /\ mappings' = IF done
                       THEN (rows \ own) \cup {[m EXCEPT !.fingerprint = lib[i].rules[v]] : m \in own}
                       ELSE rows
        /\ marked' = IF done THEN marked \cup {<<i, v>>} ELSE marked
  /\ UNCHANGED <<cache, lib, files, loaded, view, shown, imported, held, edited, edits>>
-----------------------------------------------------------------------------
(***************************************************************************)
(* Starter checks, and the check files.                                    *)
(***************************************************************************)
\* A plausible fault: rules that have a check get a starter all the same.
MissingAll(rules, checks) == {Starter(v) : v \in rules}

\* build_manual_starter_library: what no loaded check gives as its vulnerability,
\* even if one gives its STIG ID.
Missing(rules, checks) == {Starter(v) : v \in rules \ VulnsOf(checks)}

Generate(starters) ==
  LET after == [files EXCEPT !.generated = {starters}]
  IN /\ files' = after
     /\ Reload(after)
     /\ UNCHANGED <<cache, lib, mappings, shown, imported, marked, held>>

\* generate_starter_checks_from_stigs: of the cached packages, over the file
\* that is there.
GenerateFromSources ==
  /\ \E f \in Families : cache[f] # {}
  /\ Generate(Missing(UNION {DOMAIN p.rules : p \in UNION {cache[f] : f \in Families}}, loaded))
  /\ view' = Len(lib)

\* generate_installed_stig_starters: of one release, unless the file exists.
GenerateFromRelease(i) ==
  /\ i \in 1..view /\ files.generated = {}
  /\ Generate(Missing(DOMAIN lib[i].rules, loaded))
  /\ UNCHANGED view

EditChecks ==
  \E checks \in Edits, generated \in {files.generated, {}} :
    /\ files' = [main |-> checks, generated |-> generated]
    /\ files' # files
    /\ edits < MaxEdits /\ edits' = edits + 1
    /\ edited' = TRUE /\ held' = held \cup {checks}
    /\ UNCHANGED <<cache, lib, mappings, loaded, view, shown, imported, marked>>

ReloadFromDisk ==
  /\ Reload(files)
  /\ UNCHANGED <<cache, lib, mappings, files, view, shown, imported, marked, held>>

\* A new process has no checks until they load.
Restart ==
  /\ loaded' = IF Loadable(files) THEN OnDisk(files) ELSE {}
  /\ edited' = ~Loadable(files)
  /\ view' = Len(lib) /\ shown' = NoDiff
  /\ UNCHANGED <<cache, lib, mappings, files, imported, marked, held, edits>>

LibraryNext ==
  \/ \E p \in Packages, f \in Families : ImportStigSource(p, f)
  \/ \E p \in Packages, second \in {{}} \cup {{q} : q \in Packages} : DownloadCoreStigs(p, second)
  \/ \E i \in 1..view : CompareToPrevious(i) \/ Coverage(i) \/ GenerateFromRelease(i)
  \/ \E i, j \in 1..view : CompareSelected(i, j)
  \/ \E i \in 1..view, v \in UNION {DOMAIN p.rules : p \in Packages} : MarkReviewed(i, v)
  \/ GenerateFromSources \/ EditChecks \/ ReloadFromDisk \/ Restart

LibrarySpec == LibraryInit /\ [][LibraryNext]_libraryVars
-----------------------------------------------------------------------------
(***************************************************************************)
(* Properties.                                                             *)
(***************************************************************************)
\* Diffs, mappings and the tree speak of releases that are there, no rule of a
\* release is mapped twice in one file, and a family has one package cached.
TypeOK ==
  /\ view \in 0..Len(lib) /\ shown \in (0..view) \X (0..view)
  /\ \A m \in mappings : m.release \in 1..view /\ m.rule \in DOMAIN lib[m.release].rules
  /\ \A m, n \in mappings : SameMapping(m, n) => m = n
  /\ \A f \in Families : Cardinality(cache[f]) <= 1

\* Every package the operator was told is imported stays in the library as
\* it was imported, republished under one version or not, whatever is imported
\* after it (CHANGELOG: versioned library that never overwrites imports).
ImportedIsKept ==
  \A x \in imported : \E i \in DOMAIN lib : lib[i].family = x[2] /\ lib[i].rules = x[1].rules

\* The check file once said that its check of v was reviewed against this text.
Claimed(v, text) == \E checks \in held : \E c \in checks : MatchesRule(c, v) /\ c.reviewed = text

\* Coverage counts automation as reviewed only if the operator marked this
\* rule of this release, or the check file said it was reviewed against the
\* very text (if only when the check in it was still a manual one): reviews do
\* not carry over to the next release of a rule, nor to a rule that an import,
\* a synchronisation or an edit brought in.
ReviewIsEarned ==
  \A i \in 1..view : \A v \in DOMAIN lib[i].rules :
    ReviewedCurrent(i, v, SyncCheckMappings(i)) =>
      <<i, v>> \in marked \/ Claimed(v, lib[i].rules[v])

\* Building starters never makes the check directory unloadable, in any order
\* of imports, builds and restarts, unless the operator edited the check files
\* and did not reload them; then all checks on disk are those in use.
GeneratedLoads == ~edited => Loadable(files) /\ loaded = OnDisk(files)

\* The update guide says of starters for missing rules: "Never overwrite an
\* existing mapping." Only an edit takes a starter out of the generated file.
StartersKept == [][EditChecks \/ Generated(files) \subseteq Generated(files')]_libraryVars

\* The difference guide says "ADDED: only in the new release": the release a
\* diff compares with was imported before.
ComparedForward == shown[1] <= shown[2]
=============================================================================
