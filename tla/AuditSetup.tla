----------------------------- MODULE AuditSetup -----------------------------
(***************************************************************************)
(* What is scanned, with which profile and under which license: the offline *)
(* license manager, the target table of the Audit Run tab with the widgets  *)
(* that hold its rows, the active site profile, and the commands that start *)
(* an audit.  Everything but the clock and the license file changes on Tk's *)
(* main thread, one handler at a time.                                      *)
(***************************************************************************)
EXTENDS Integers, FiniteSets, SequencesExt

CONSTANTS MaxTargets,  \* bound: rows of the table
          MaxClock,    \* bound: the clock is in 0..MaxClock
          MaxScans     \* bound: audits that start, but for retries; the table is
                       \* edited before the last one

\* Tables that are loaded or retried have up to two rows.
ASSUME SetupAssumption == {MaxTargets, MaxClock, MaxScans} \subseteq Nat /\ MaxTargets >= 2

VARIABLES clock, file,            \* the time, and the installed license file
          licence,                \* LicenseManager: status and trusted values
          targets, rows,          \* the table's records, and its widgets
          selected,               \* selected_index, 0 for None
          profiles, active, profile,  \* files, profile_name, and the loaded one
          busy,                   \* _scan_in_progress
          scan, scans,            \* the audit that started last, and how many
          wanted, disturbed       \* history: the rows as the operator set them

table       == <<targets, rows, selected, wanted, disturbed>>
profileVars == <<profiles, active, profile>>
audits      == <<busy, scan, scans>>
vars        == <<clock, file, licence, table, profileVars, audits>>
-----------------------------------------------------------------------------
(***************************************************************************)
(* LicenseManager.                                                         *)
(***************************************************************************)
Features == {"l2", "ndm", "multi"}
Families == {"l2", "ndm"}

\* License files: whether the signature verifies, when it was issued and expires,
\* and what it grants.
NoFile   == [kind |-> "none", issued |-> 0, expires |-> 0, max |-> 0, features |-> {}]
Licenses == {[kind |-> "signed", issued |-> 0, expires |-> 0, max |-> 2, features |-> Features],
             [kind |-> "signed", issued |-> 1, expires |-> 2, max |-> 1, features |-> {"l2", "multi"}],
             [kind |-> "forged", issued |-> 0, expires |-> 2, max |-> 2, features |-> Features]}

Untrusted == [status |-> "FREE", max |-> 1, features |-> {}]

Sound(f, now) == f.kind = "signed" /\ f.issued <= now /\ f.issued <= f.expires /\ f.max > 0

Load(f, now) ==
  IF f.kind = "none"         THEN [Untrusted EXCEPT !.status = "MISSING"]
  ELSE IF ~Sound(f, now)     THEN [Untrusted EXCEPT !.status = "INVALID"]
  ELSE [status |-> IF now > f.expires THEN "EXPIRED" ELSE "VALID", max |-> f.max, features |-> f.features]

Enabled(l, feature) == l.status = "VALID" /\ feature \in l.features
MaxDevices(l)       == IF l.status = "VALID" THEN l.max ELSE 1

\* Fault: the state of the last load is good enough for a scan.
Cached == licence

Reloaded == Load(file, clock)

\* Fault: a license that has expired can still be installed.
SignedStatuses == {"VALID", "EXPIRED"}

Installable == {"VALID"}

ImportLicense ==
  /\ \E source \in Licenses, copied \in BOOLEAN :
       /\ file' = IF Load(source, clock).status \in Installable /\ copied THEN source ELSE file
       /\ licence' = Load(file', clock)
  /\ UNCHANGED <<clock, table, profileVars, audits>>

RefreshLicense ==
  /\ licence' = Reloaded
  /\ UNCHANGED <<clock, file, table, profileVars, audits>>

\* A managed deployment copies or removes the file, and time passes.
Environment ==
  /\ \/ clock < MaxClock /\ clock' = clock + 1 /\ UNCHANGED file
     \/ file' \in Licenses \cup {NoFile} /\ UNCHANGED clock
  /\ UNCHANGED <<licence, table, profileVars, audits>>
-----------------------------------------------------------------------------
(***************************************************************************)
(* The target table.  "" is the default profile, no override.              *)
(***************************************************************************)
\* Addresses as they are written; "B" is another spelling of "b".
Addresses   == {"a", "b", "B"}
Normal(ip)  == IF ip = "B" THEN "b" ELSE ip

Profiles == {"base", "site"}

Row(t) == [checked |-> t.checked, profile |-> t.profile]

Default(ip) == [ip |-> ip, checked |-> TRUE, profile |-> ""]

\* _sync_row_state: the record at an index takes what the widget there shows.
Sync(ts, rs) ==
  [k \in DOMAIN ts |-> IF k \in DOMAIN rs
                       THEN [ip |-> ts[k].ip, checked |-> rs[k].checked, profile |-> rs[k].profile]
                       ELSE ts[k]]

Shows(ts) == [k \in DOMAIN ts |-> Row(ts[k])]

\* _render_rows, after which the widgets show the records.
Render(ts, sync) ==
  LET shown == IF sync THEN Sync(ts, rows) ELSE ts
  IN  targets' = shown /\ rows' = Shows(shown)

\* Fault: set_targets renders like the others do.
RenderNewSynced(ts) == Render(ts, TRUE)

RenderNew(ts) == Render(ts, FALSE)

Replaced(ts) ==
  /\ RenderNew(ts) /\ wanted' = ts /\ disturbed' = FALSE
  /\ selected' = IF ts = <<>> THEN 0 ELSE 1

\* _add_targets_from_text and import_targets: addresses that are new.
AddTarget ==
  /\ \E ip \in {"a", "b"} :
       /\ Len(targets) < MaxTargets /\ \A t \in Range(targets) : t.ip # ip
       /\ Render(Append(targets, Default(ip)), TRUE)
       /\ wanted' = Append(wanted, Default(ip))
  /\ selected' = IF selected = 0 THEN 1 ELSE selected
  /\ UNCHANGED <<clock, file, licence, profileVars, audits, disturbed>>

\* The box has a command that synchronises, the profile list has none.
ToggleRow ==
  /\ \E k \in DOMAIN rows :
       LET toggled == [rows EXCEPT ![k].checked = ~@] IN
       /\ rows' = toggled /\ targets' = Sync(targets, toggled)
       /\ wanted' = [wanted EXCEPT ![k].checked = toggled[k].checked]
  /\ UNCHANGED <<clock, file, licence, profileVars, audits, selected, disturbed>>

PickProfile ==
  /\ \E k \in DOMAIN rows, p \in {"", "site"} \cap (profiles \cup {""}) :
       rows' = [rows EXCEPT ![k].profile = p] /\ wanted' = [wanted EXCEPT ![k].profile = p]
  /\ UNCHANGED <<clock, file, licence, profileVars, audits, targets, selected, disturbed>>

\* check_all and uncheck_all rebuild the widgets from the records: a profile
\* that was picked since the last synchronisation is dropped.
CheckAll ==
  /\ \E on \in BOOLEAN :
       /\ Render([k \in DOMAIN targets |-> [targets[k] EXCEPT !.checked = on]], FALSE)
       /\ wanted' = [k \in DOMAIN wanted |-> [wanted[k] EXCEPT !.checked = on]]
  /\ disturbed' = (disturbed \/ Sync(targets, rows) # targets)
  /\ UNCHANGED <<clock, file, licence, profileVars, audits, selected>>

SelectRow ==
  /\ \E k \in DOMAIN targets : selected' = k /\ Render(targets, TRUE)
  /\ UNCHANGED <<clock, file, licence, profileVars, audits, wanted, disturbed>>

\* Fault: the selection stays where it was.
SelectedStays(k) == selected

SelectedAfter(k) ==
  IF Len(targets) = 1 THEN 0 ELSE IF k < Len(targets) THEN k ELSE Len(targets) - 1

\* _remove_row and remove_selected: the rows are rendered from the widgets of
\* before, so a row that moves up takes the box and profile of its predecessor.
RemoveRow ==
  /\ \E k \in DOMAIN targets, sync \in BOOLEAN :
       /\ sync \/ k = selected
       /\ Render(RemoveAt(IF sync THEN Sync(targets, rows) ELSE targets, k), TRUE)
       /\ wanted' = RemoveAt(wanted, k)
       /\ selected' = SelectedAfter(k)
       /\ disturbed' = (disturbed \/ k < Len(targets))
  /\ UNCHANGED <<clock, file, licence, profileVars, audits>>

ClearTargets ==
  /\ targets # <<>> /\ Replaced(<<>>)
  /\ UNCHANGED <<clock, file, licence, profileVars, audits>>
-----------------------------------------------------------------------------
(***************************************************************************)
(* Profiles, device groups and presets.                                    *)
(***************************************************************************)
\* _set_active_profile takes the name before it reads the file.
Activate(name) ==
  active' = name /\ profile' = IF name \in profiles THEN name ELSE profile

SelectProfile ==
  /\ \E name \in Profiles : Activate(name)
  /\ UNCHANGED <<clock, file, licence, table, profiles, audits>>

\* create_profile; a file that is there is an error.
CreateProfile ==
  /\ "site" \notin profiles
  /\ profiles' = profiles \cup {"site"} /\ active' = "site" /\ profile' = "site"
  /\ UNCHANGED <<clock, file, licence, table, audits>>

\* delete_profile: rows whose profile is no longer listed fall back to none.
DeleteProfile ==
  /\ "site" \in profiles /\ profiles' = profiles \ {"site"}
  /\ active' = (IF active = "site" THEN "base" ELSE active)
  /\ profile' = active'
  /\ LET fall(r) == IF r.profile = "site" THEN [r EXCEPT !.profile = ""] ELSE r
         shown   == [k \in DOMAIN rows |-> fall(rows[k])]
     IN  /\ rows' = shown /\ targets' = Sync(targets, shown)
         /\ wanted' = [k \in DOMAIN wanted |-> fall(wanted[k])]
  /\ UNCHANGED <<clock, file, licence, audits, selected, disturbed>>

\* Tables that groups were saved from, in this session or before.
Saved == {<<Default("B"), Default("b")>>, <<Default("b"), [Default("a") EXCEPT !.profile = "site"]>>,
          <<[Default("a") EXCEPT !.checked = FALSE]>>}

\* load_device_group: a profile that is not there ends it.
LoadGroup ==
  /\ \E ts \in Saved, name \in Profiles \cup {""} :
       IF name \in profiles \cup {""}
       THEN /\ Replaced(ts)
            /\ IF name = "" THEN UNCHANGED <<active, profile>> ELSE Activate(name)
       ELSE Activate(name) /\ UNCHANGED table
  /\ UNCHANGED <<clock, file, licence, profiles, audits>>

\* load_scan_preset with addresses goes on where its profile is not there.
LoadPreset ==
  /\ \E ips \in {{"a"}, {"a", "b"}}, name \in Profiles :
       /\ Activate(name)
       /\ Replaced([k \in 1..Cardinality(ips) |-> Default(SetToSeq(ips)[k])])
  /\ UNCHANGED <<clock, file, licence, profiles, audits>>

\* save_device_group: the license is loaded and the rows are synchronised.
SaveGroup ==
  /\ targets' = Sync(targets, rows) /\ licence' = Reloaded
  /\ UNCHANGED <<clock, file, rows, selected, wanted, disturbed, profileVars, audits>>
-----------------------------------------------------------------------------
(***************************************************************************)
(* Starting an audit.                                                      *)
(***************************************************************************)
\* Fault: the records are read without what the widgets show.
ReadRecords == targets

ReadTable == Sync(targets, rows)

\* The numbers of the rows in a scope.
InScope(ts, scope) ==
  {k \in DOMAIN ts : /\ scope = "checked"  => ts[k].checked
                     /\ scope = "selected" => k = selected}

\* _licensed_targets: one per normalised address, as the first of the rows has it.
Unique(ts, ks) ==
  LET first(ip) == CHOOSE k \in ks : Normal(ts[k].ip) = ip /\ \A j \in ks : j < k => Normal(ts[j].ip) # ip
  IN  [ip \in {Normal(ts[k].ip) : k \in ks} |-> ts[first(ip)].profile]

PermitsDevices(l, n) == (n > 1 => Enabled(l, "multi")) /\ n <= MaxDevices(l)

Started(kind, devices, families, live) ==
  /\ scans' = scans + 1
  /\ scan' = [kind |-> kind, targets |-> devices, families |-> families, profile |-> profile, failed |-> {}]
  /\ busy' = live

\* run_target_scope: a live run takes credentials and a free session, a sample
\* run neither.
RunScope ==
  /\ scans < MaxScans /\ targets' = ReadTable
  /\ \E scope \in {"checked", "selected", "all"}, live, credentials \in BOOLEAN :
       LET devices  == Unique(ReadTable, InScope(ReadTable, scope))
           l        == Reloaded
           families == {f \in Families : Enabled(l, f)}
       IN  IF DOMAIN devices = {} THEN UNCHANGED <<licence, audits>>
           ELSE /\ licence' = l
                /\ IF /\ PermitsDevices(l, Cardinality(DOMAIN devices)) /\ families # {}
                      /\ live => credentials /\ ~busy
                   THEN Started(scope, devices, families, live \/ busy)
                   ELSE UNCHANGED audits
  /\ UNCHANGED <<clock, file, rows, selected, wanted, disturbed, profileVars>>

\* PreflightService.validate, as far as the table goes.
Ready(ts, ks) == ks # {} /\ \A j, k \in ks : ts[j].ip = ts[k].ip => j = k

\* run_configured_checklist_audit: every family asked for must be enabled.  The
\* readiness checks, which look at more than the table, come first.
RunChecklist ==
  /\ scans < MaxScans /\ targets' = ReadTable
  /\ \E families \in (SUBSET Families) \ {{}}, ready, credentials \in BOOLEAN :
       LET checked == InScope(ReadTable, "checked")
           devices == Unique(ReadTable, checked)
           l       == Reloaded
       IN  IF ~ready \/ ~Ready(ReadTable, checked) THEN UNCHANGED <<licence, audits>>
           ELSE /\ licence' = l
                /\ IF /\ \A f \in families : Enabled(l, f)
                      /\ PermitsDevices(l, Cardinality(DOMAIN devices))
                      /\ credentials /\ ~busy
                   THEN Started("checklist", devices, families, TRUE)
                   ELSE UNCHANGED audits
  /\ UNCHANGED <<clock, file, rows, selected, wanted, disturbed, profileVars>>

\* Some devices failed; the session's credentials are cleared.
ScanEnds ==
  /\ busy /\ busy' = FALSE
  /\ \E failed \in SUBSET DOMAIN scan.targets : scan' = [scan EXCEPT !.failed = failed]
  /\ UNCHANGED <<clock, file, licence, table, profileVars, scans>>

\* retry_failed_devices replaces the table, and starts all checks as it is if
\* there are credentials.
Retry ==
  /\ scan.failed # {} /\ scans <= MaxScans
  /\ LET ts == [k \in 1..Cardinality(scan.failed) |-> Default(SetToSeq(scan.failed)[k])] IN
     /\ Replaced(ts)
     /\ \E credentials \in BOOLEAN :
          IF busy \/ ~credentials THEN UNCHANGED audits
          ELSE Started("retry", Unique(ts, DOMAIN ts), Families, TRUE)
  /\ UNCHANGED <<clock, file, licence, profileVars>>
-----------------------------------------------------------------------------
Init ==
  /\ clock = 0 /\ file \in Licenses \cup {NoFile} /\ licence = Load(file, 0)
  /\ targets = <<>> /\ rows = <<>> /\ selected = 0 /\ wanted = <<>> /\ disturbed = FALSE
  /\ profiles = Profiles /\ active = "base" /\ profile = "base"
  /\ busy = FALSE /\ scans = 0
  /\ scan = [kind |-> "none", targets |-> <<>>, families |-> {}, profile |-> "base", failed |-> {}]

License == ImportLicense \/ RefreshLicense
Table   == AddTarget \/ ToggleRow \/ PickProfile \/ CheckAll \/ SelectRow \/ RemoveRow \/ ClearTargets
Files   == SelectProfile \/ CreateProfile \/ DeleteProfile \/ LoadGroup \/ LoadPreset \/ SaveGroup
Audits  == RunScope \/ RunChecklist \/ ScanEnds \/ Retry

Next ==
  \/ scans < MaxScans /\ (Environment \/ License \/ Table \/ Files)
  \/ Audits

Spec == Init /\ [][Next]_vars
-----------------------------------------------------------------------------
(***************************************************************************)
(* Properties.                                                             *)
(***************************************************************************)
\* The widgets always stand for the records they are read into, a selection is
\* always of a row, and what the manager trusts was signed.
TypeOK ==
  /\ Len(rows) = Len(targets) /\ Len(wanted) = Len(targets) /\ Len(targets) <= MaxTargets
  /\ selected \in 0..Len(targets) /\ (targets # <<>> => selected > 0)
  /\ licence.status \in {"FREE", "MISSING", "INVALID"} => licence = [Untrusted EXCEPT !.status = licence.status]

\* The table that an audit would read is the one the operator set up, whatever
\* adding, selecting, loading and deleting profiles came between; rows that were
\* removed or all (un)checked since excepted.
RowsAsSet == ~disturbed => Sync(targets, rows) = wanted

\* An audit the operator starts is covered by the license file as it is at that
\* moment, not by what was loaded before it expired, was replaced or removed.
Covers(f, now, s) ==
  /\ f.kind = "signed" /\ f.issued <= now /\ now <= f.expires
  /\ s.families \subseteq f.features
  /\ Cardinality(DOMAIN s.targets) <= f.max
  /\ Cardinality(DOMAIN s.targets) > 1 => "multi" \in f.features

AuditsCovered == [][scans' # scans /\ scan'.kind # "retry" => Covers(file, clock, scan')]_vars

\* An audit of the checked rows has each checked device, once, with the profile
\* of one of its rows, and no other device.
AuditsAsAsked ==
  [][scans' # scans /\ scan'.kind \in {"checked", "checklist"} /\ ~disturbed =>
       /\ DOMAIN scan'.targets = {Normal(w.ip) : w \in {x \in Range(wanted) : x.checked}}
       /\ \A ip \in DOMAIN scan'.targets : \E w \in Range(wanted) :
            w.checked /\ Normal(w.ip) = ip /\ w.profile = scan'.targets[ip]]_vars

\* Choosing another license file never costs one that is valid.
ImportKeepsValid ==
  [][ImportLicense /\ Load(file, clock).status = "VALID" => Load(file', clock').status = "VALID"]_vars

\* An audit that starts is one that the license allows and the operator asked for,
\* and the license that allows it is not lost to a bad file.
AuditsRightly == AuditsCovered /\ AuditsAsAsked /\ ImportKeepsValid

\* "Check every target that should be audited." (TESTER_GETTING_STARTED.md): a
\* row's box and profile are its own, and stay when another row is removed.
RowsKeepTheirOwn == Sync(targets, rows) = wanted

\* "The application reloads the license ... before every scan"
\* (OFFLINE_LICENSING.md): every audit is covered, a retry like any other.
EveryAuditCovered == [][scans' # scans => Covers(file, clock, scan')]_vars
=============================================================================
