---------------------------- MODULE StigMatching ----------------------------
(***************************************************************************)
(* What the program says about two releases, two audit runs and a          *)
(* checklist: stig_diff and stig_comparator pair the rules of two releases *)
(* and tell which local checks to review, run_comparison classifies the    *)
(* results of two runs, ckl_writer and cklb_writer fill checklists, and    *)
(* the reports count.                                                      *)
(*                                                                         *)
(* A rule is [vuln_id, rule_id, stig_id, group_id, title, severity,        *)
(* check_text, fix_text, blanks]: values are held normalised, "" is a      *)
(* missing one, and blanks is a difference of the raw text that            *)
(* normalising removes.                                                    *)
(***************************************************************************)
EXTENDS Integers, SequencesExt

MatchFields == <<"vuln_id", "rule_id", "stig_id">>

ComparatorFields == <<"stig_id", "vuln_id", "title">>

FingerprintFields ==
  {"vuln_id", "rule_id", "stig_id", "group_id", "title", "severity", "check_text", "fix_text"}

Holding(rules, among, f, v) == {i \in among : rules[i][f] = v}

\* A plausible fault: only the previous release is looked at for duplicates.
SettlesByOld(before, after) == Cardinality(before) = 1

\* A value settles a pair when each side has it once.
Settles(before, after) == Cardinality(before) = 1 /\ Cardinality(after) = 1

\* One pass of _match_rules: m.old and m.new are the rules not matched yet.
PairUp(old, new, m, f) ==
  LET shared  == ({old[i][f] : i \in m.old} \cap {new[j][f] : j \in m.new}) \ {""}
      settled == {v \in shared : Settles(Holding(old, m.old, f, v), Holding(new, m.new, f, v))}
      vague   == shared \ settled
      pairs   == {p \in m.old \X m.new : old[p[1]][f] \in settled /\ new[p[2]][f] = old[p[1]][f]}
  IN [pairs  |-> m.pairs \cup {[old |-> p[1], new |-> p[2], basis |-> f] : p \in pairs},
      old    |-> m.old \ {p[1] : p \in pairs},
      new    |-> m.new \ {p[2] : p \in pairs},
      doubts |-> m.doubts \cup ({"old"} \X {i \in m.old : old[i][f] \in vague})
                          \cup ({"new"} \X {j \in m.new : new[j][f] \in vague})]

\* The three fields in turn.
Matching(old, new, fields) ==
  LET pass(m, k) == PairUp(old, new, m, fields[k])
      before     == [pairs |-> {}, old |-> DOMAIN old, new |-> DOMAIN new, doubts |-> {}]
  IN  pass(pass(pass(before, 1), 2), 3)

FieldDiffs(a, b) == {f \in FingerprintFields : a[f] # b[f]}

\* compare: the items of a release diff; 0 stands for no rule.
ReleaseDiff(old, new) ==
  LET m == Matching(old, new, MatchFields)
  IN {[change |-> IF FieldDiffs(old[p.old], new[p.new]) = {} THEN "UNCHANGED" ELSE "CHANGED",
       old |-> p.old, new |-> p.new, ambiguous |-> FALSE] : p \in m.pairs}
     \cup {[change |-> "REMOVED", old |-> i, new |-> 0, ambiguous |-> <<"old", i>> \in m.doubts] : i \in m.old}
     \cup {[change |-> "ADDED", old |-> 0, new |-> j, ambiguous |-> <<"new", j>> \in m.doubts] : j \in m.new}

\* No previous release is a baseline, not a release in which all rules are added.
DiffOf(previous, new) == IF previous = "NO_PREVIOUS_RELEASE" THEN {} ELSE ReleaseDiff(previous, new)
-----------------------------------------------------------------------------
(***************************************************************************)
(* The local checks: [vuln_id, rule_id, stig_id, manual].                  *)
(***************************************************************************)
RulesOf(item, old, new) ==
  (IF item.new = 0 THEN {} ELSE {new[item.new]}) \cup (IF item.old = 0 THEN {} ELSE {old[item.old]})

\* The first identifier under which any check is found decides.
MatchMappings(rules, checks) ==
  LET under(f) == {c \in checks : c[f] \in {r[f] : r \in rules} \ {""}}
  IN IF under("vuln_id") # {} THEN under("vuln_id")
     ELSE IF under("rule_id") # {} THEN under("rule_id") ELSE under("stig_id")

ChangedFields(item, old, new) ==
  IF item.old = 0 \/ item.new = 0 THEN {} ELSE FieldDiffs(old[item.old], new[item.new])

ReviewAsked(manual) == IF manual THEN "MANUAL_RULE_REVIEW" ELSE "AUTOMATION_REVIEW_REQUIRED"

\* What a change of a rule asks of the one check that is mapped to it.
ImpactOnCheck(change, changed, manual) ==
  CASE change = "ADDED" -> ReviewAsked(manual)
    [] change = "REMOVED" -> "RETIRE_CHECK_REVIEW"
    [] change = "UNCHANGED" -> "NO_ACTION_REQUIRED"
    [] change = "CHANGED" ->
         IF "check_text" \in changed THEN ReviewAsked(manual)
         ELSE IF "fix_text" \in changed THEN "FIX_GUIDANCE_CHANGED" ELSE "METADATA_UPDATE"

Impact(item, old, new, checks) ==
  LET matched == MatchMappings(RulesOf(item, old, new), checks)
  IN IF item.ambiguous \/ Cardinality(matched) > 1 THEN "AMBIGUOUS_MAPPING"
     ELSE IF matched = {}
          THEN IF item.change = "ADDED" THEN "NEW_CHECK_REQUIRED" ELSE "NO_LOCAL_CHECK"
          ELSE ImpactOnCheck(item.change, ChangedFields(item, old, new), (CHOOSE c \in matched : TRUE).manual)

\* analyze_yaml_impact: an item and the checks it concerns.
Impacts(old, new, checks) ==
  {[item |-> item, impact |-> Impact(item, old, new, checks),
    checks |-> MatchMappings(RulesOf(item, old, new), checks)] : item \in ReleaseDiff(old, new)}

\* The rows of an export join items and impacts on the identifiers shown.
ShownAs(item, old, new) ==
  LET r == IF item.new = 0 THEN old[item.old] ELSE new[item.new]
  IN <<r.vuln_id, IF item.old = 0 THEN "" ELSE old[item.old].rule_id,
       IF item.new = 0 THEN "" ELSE new[item.new].rule_id>>

ExportRows(old, new, checks) ==
  {row \in ReleaseDiff(old, new) \X Impacts(old, new, checks) :
     ShownAs(row[1], old, new) = ShownAs(row[2].item, old, new)}
-----------------------------------------------------------------------------
(***************************************************************************)
(* compare_stig_metadata: the older tool, which compares the raw texts and *)
(* names the first check found by STIG id, or else by vulnerability.       *)
(***************************************************************************)
ChangesBetween(old, new) ==
  LET m == Matching(old, new, ComparatorFields)
  IN {[kind |-> "Changed", old |-> p.old, new |-> p.new] : p \in {q \in m.pairs : old[q.old] # new[q.new]}}
     \cup {[kind |-> "Added", old |-> 0, new |-> j] : j \in m.new}
     \cup {[kind |-> "Removed", old |-> i, new |-> 0] : i \in m.old}

UnchangedCount(old, new) ==
  Cardinality({q \in Matching(old, new, ComparatorFields).pairs : old[q.old] = new[q.new]})

FindMatchingCheck(checks, rules) ==
  LET under(f) == SelectSeq(checks, LAMBDA c : c[f] \in {r[f] : r \in rules} \ {""})
      found    == under("stig_id") \o under("vuln_id")
  IN IF found = <<>> THEN {} ELSE {Head(found)}
-----------------------------------------------------------------------------
(***************************************************************************)
(* compare_runs: a result is [device, vuln, status]; fingerprints map a    *)
(* vulnerability to the rule it was checked against.                       *)
(***************************************************************************)
Failed(status) == status \in {"Error", "Skipped"}

\* A later result with the same device and vulnerability replaces it.
ByKey(results) ==
  LET at(k) == {i \in DOMAIN results : <<results[i].device, results[i].vuln>> = k}
  IN [k \in {<<r.device, r.vuln>> : r \in ToSet(results)} |-> results[Max(at(k))].status]

StatusIn(run, k) == IF k \in DOMAIN run THEN run[k] ELSE "absent"

\* A plausible fault: a failed evaluation is only looked for at the end.
StatusChangeLate(old, new) ==
  CASE new = "Open" -> IF old = "Open" THEN "PERSISTENT_FINDING" ELSE "NEW_FINDING"
    [] old = "Open" /\ new # "Open" -> "RESOLVED"
    [] old # "Open" /\ new # "Open" -> "UNCHANGED_PASS"

StatusChange(old, new) ==
  CASE Failed(old) \/ Failed(new) -> "NOT_COMPARABLE"
    [] ~Failed(old) /\ new = "Open" -> IF old = "Open" THEN "PERSISTENT_FINDING" ELSE "NEW_FINDING"
    [] old = "Open" /\ new = "NotAFinding" -> "RESOLVED"
    [] old = "NotAFinding" /\ new = "NotAFinding" -> "UNCHANGED_PASS"
    [] old = "Not_Applicable" /\ new \in {"NotAFinding", "Not_Reviewed"} -> "NEWLY_APPLICABLE"
    [] ~Failed(old) /\ old # "Not_Applicable" /\ new = "Not_Applicable" -> "NO_LONGER_APPLICABLE"
    [] OTHER -> "STATUS_CHANGED"

Classify(before, after, ruleChanged) ==
  CASE ruleChanged -> "NOT_COMPARABLE"
    [] ~ruleChanged /\ before = "absent" -> "NEWLY_APPLICABLE"
    [] ~ruleChanged /\ before # "absent" /\ after = "absent" -> "NO_LONGER_APPLICABLE"
    [] OTHER -> StatusChange(before, after)

RuleChanged(v, oldRules, newRules) ==
  v \in DOMAIN oldRules /\ v \in DOMAIN newRules /\ oldRules[v] # newRules[v]

CompareRuns(previous, current, oldRules, newRules) ==
  LET old == ByKey(previous)
      new == ByKey(current)
  IN {[key |-> k, before |-> StatusIn(old, k), after |-> StatusIn(new, k),
       change |-> Classify(StatusIn(old, k), StatusIn(new, k), RuleChanged(k[2], oldRules, newRules))]
      : k \in DOMAIN old \cup DOMAIN new}

Counted(items, changes) == Cardinality({i \in items : i.change \in changes})

RunSummary(items) ==
  [previous_open |-> Cardinality({i \in items : i.before = "Open"}),
   current_open  |-> Cardinality({i \in items : i.after = "Open"}),
   new           |-> Counted(items, {"NEW_FINDING"}),
   resolved      |-> Counted(items, {"RESOLVED"}),
   persistent    |-> Counted(items, {"PERSISTENT_FINDING"}),
   errors        |-> Cardinality({i \in items : Failed(i.before) \/ Failed(i.after)})]

\* compare_historical_runs: the earlier of the selected runs is the previous
\* one, and no fingerprints are given. A run is [started, results].
CompareHistorical(first, second) ==
  IF second.started < first.started
  THEN CompareRuns(second.results, first.results, <<>>, <<>>)
  ELSE CompareRuns(first.results, second.results, <<>>, <<>>)
-----------------------------------------------------------------------------
(***************************************************************************)
(* Checklists. A template maps the vulnerabilities it lists to a status;   *)
(* results map vulnerabilities to a status, by family.                     *)
(***************************************************************************)
BothFamilies == {"IOSXE_L2", "IOSXE_NDM"}

\* A plausible fault: a check that could not be evaluated is written as passed over.
ChecklistStatusLoose(status) == IF Failed(status) THEN "Not_Applicable" ELSE status

\* CKL_STATUS_MAP, and CKLB_STATUS_MAP up to spelling.
ChecklistStatus(status) == IF Failed(status) THEN "Not_Reviewed" ELSE status

\* write_completed_ckl and populate_cklb.
Completed(template, results) ==
  [items     |-> [v \in DOMAIN template |->
                    IF v \in DOMAIN results THEN ChecklistStatus(results[v]) ELSE template[v]],
   updated   |-> DOMAIN results \cap DOMAIN template,
   unmatched |-> DOMAIN results \ DOMAIN template]

\* create_cklb_template, and import_cklb_results.
BlankCklb(vulns) == [v \in vulns |-> "Not_Reviewed"]

ImportedResults(checklist) == [v \in DOMAIN checklist |-> checklist[v]]

\* _validate_checklist_template: templates maps the kinds that were chosen to
\* the vulnerabilities listed, and vulns the families to those of their checks.
Fits(kind, families, templates, vulns) ==
  kind \in DOMAIN templates /\ \A f \in families : templates[kind] \cap vulns[f] # {}

\* _build_checklist_template_jobs; no jobs stands for the error that is shown.
TemplateJobs(selected, templates, vulns) ==
  LET job(kind, families) == [template |-> kind, families |-> families]
      separate == {job(f, {f}) : f \in selected}
      fit      == {j \in separate \cup {job("COMBINED", BothFamilies)} :
                     Fits(j.template, j.families, templates, vulns)}
  IN IF selected = BothFamilies /\ job("COMBINED", BothFamilies) \in fit THEN {job("COMBINED", BothFamilies)}
     ELSE IF separate \subseteq fit THEN separate ELSE {}

\* The files of one device: each job takes the results of its families, if any.
ChecklistFiles(jobs, contents, results) ==
  LET taken(j) == UNION {DOMAIN results[f] : f \in j.families}
      given(j) == [v \in taken(j) |-> results[CHOOSE f \in j.families : v \in DOMAIN results[f]][v]]
  IN {[job |-> j, file |-> Completed(contents[j.template], given(j))] : j \in {k \in jobs : taken(k) # {}}}
-----------------------------------------------------------------------------
(***************************************************************************)
(* Reports: results are counted by status, in all and for every device.    *)
(***************************************************************************)
ReportStatuses == {"NotAFinding", "Open", "Error", "Skipped", "Not_Applicable", "Not_Reviewed"}

CountsAmong(results, among) == [s \in ReportStatuses |-> Cardinality({k \in among : results[k].status = s})]

StatusCounts(results) == CountsAmong(results, DOMAIN results)

DeviceCounts(results) ==
  [d \in {r.device : r \in ToSet(results)} |-> CountsAmong(results, {k \in DOMAIN results : results[k].device = d})]

\* round(100 * a / b): to the even number when halfway.
Percent(a, b) ==
  LET whole == (100 * a) \div b
      twice == 2 * ((100 * a) % b)
  IN IF twice > b \/ (twice = b /\ whole % 2 = 1) THEN whole + 1 ELSE whole

Scorable(counts) == counts["NotAFinding"] + counts["Open"] + counts["Error"]

Compliance(counts) == IF Scorable(counts) = 0 THEN 0 ELSE Percent(counts["NotAFinding"], Scorable(counts))
=============================================================================
