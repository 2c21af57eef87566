---------------------------- MODULE ReleaseCases ----------------------------
(***************************************************************************)
(* StigMatching against what its comparisons, checklists and reports       *)
(* claim: a step compares two releases or two runs, fills the checklists   *)
(* of one device, or counts results, picked from small sets.               *)
(***************************************************************************)
EXTENDS StigMatching, ParserCases

RulesAmong(vulns, titles, checks) ==
  [vuln_id : vulns, rule_id : {"", "r"}, stig_id : {"", "s"}, group_id : {"g"}, title : titles,
   severity : {"medium"}, check_text : checks, fix_text : {"f"}, blanks : {0}]

\* Rules that every field may tell from those of the other release.
RulesReworded ==
  [vuln_id : {"v", "w"}, rule_id : {"r", "q"}, stig_id : {"s"}, group_id : {"g", "h"}, title : {"t", "u"},
   severity : {"medium", "high"}, check_text : {"a", "b"}, fix_text : {"f", "g"}, blanks : {0, 1}]

OldReleases == UpTo(2, RulesAmong({"v", "w"}, {"t"}, {"a"})) \ {<<>>}

NewReleases ==
  UpTo(2, RulesAmong({"v", "w"}, {"t"}, {"a"}))
  \cup UpTo(1, RulesAmong({"v"}, {"t", "u"}, {"a", "b"}) \cup RulesReworded)

LocalChecks(manual) ==
  {{}, {[vuln_id |-> "v", rule_id |-> "", stig_id |-> "", manual |-> manual]},
   {[vuln_id |-> "x", rule_id |-> "r", stig_id |-> "s", manual |-> manual]},
   {[vuln_id |-> "v", rule_id |-> "", stig_id |-> "s", manual |-> manual],
    [vuln_id |-> "w", rule_id |-> "r", stig_id |-> "", manual |-> manual]}}

CompareReleases ==
  \E old \in OldReleases, new \in NewReleases, manual \in BOOLEAN : \E checks \in LocalChecks(manual) :
    /\ manual => Len(new) = 1
    /\ Parsed("releases", [old |-> old, new |-> new, checks |-> checks],
              [impacts |-> Impacts(old, new, checks), rows |-> ExportRows(old, new, checks),
               changes |-> ChangesBetween(old, new), unchanged |-> UnchangedCount(old, new),
               baseline |-> DiffOf("NO_PREVIOUS_RELEASE", new)])

ComparatorCheck ==
  \E old \in OldReleases, new \in NewReleases, manual \in BOOLEAN : \E checks \in LocalChecks(manual) :
    \E order \in {SetToSeq(checks), Reverse(SetToSeq(checks))} :
      /\ Len(old) = 1 /\ Len(new) = 1
      /\ Parsed("comparator", [rules |-> {old[1], new[1]}, checks |-> order],
                FindMatchingCheck(order, {old[1], new[1]}))

RunResults == UpTo(2, [device : {"d"}, vuln : {"v"}, status : ReportStatuses])

RuleMaps == {<<>>} \cup [{"v"} -> {"f", "g"}]

CompareAuditRuns ==
  \E previous, current \in RunResults, oldRules, newRules \in RuleMaps :
    LET items == CompareRuns(previous, current, oldRules, newRules)
    IN Parsed("runs", [previous |-> previous, current |-> current, oldRules |-> oldRules,
                       newRules |-> newRules],
              [items |-> items, summary |-> RunSummary(items)])

CompareHistoricalRuns ==
  \E first, second \in RunResults, t, u \in {1, 2} :
    LET run(s, r) == [started |-> s, results |-> r]
    IN Parsed("history", [first |-> run(t, first), second |-> run(u, second)],
              CompareHistorical(run(t, first), run(u, second)))

Vulns == [IOSXE_L2 |-> {1}, IOSXE_NDM |-> {2, 3}]

Statuses(S) == {<<>>} \cup [S -> ReportStatuses]

Templates ==
  UNION {[chosen -> SUBSET {1, 2}] : chosen \in SUBSET {"IOSXE_L2", "IOSXE_NDM", "COMBINED"}}

WriteChecklists ==
  \E selected \in (SUBSET BothFamilies) \ {{}}, templates \in Templates, preset \in {"Not_Reviewed", "NotAFinding"},
     l2 \in Statuses({1}), ndm \in Statuses({2, 3}) :
    LET results  == [f \in selected |-> IF f = "IOSXE_L2" THEN l2 ELSE ndm]
        contents == [k \in DOMAIN templates |-> [v \in templates[k] |-> preset]]
        jobs     == TemplateJobs(selected, templates, Vulns)
    IN /\ l2 = <<>> \/ ndm \in {<<>>, [v \in {2, 3} |-> "Open"]} \/ templates = [k \in {"COMBINED"} |-> {1, 2}]
       /\ Parsed("checklists", [selected |-> selected, templates |-> templates, results |-> results,
                                preset |-> preset],
                 [jobs |-> jobs, files |-> ChecklistFiles(jobs, contents, results)])

RoundTripCklb ==
  \E results \in Statuses({1, 2}), vulns \in SUBSET {1, 2} :
    Parsed("cklb", [results |-> results, vulns |-> vulns],
           ImportedResults(Completed(BlankCklb(vulns), results).items))

CountResults ==
  \E results \in UpTo(3, [device : {"d", "e"}, status : ReportStatuses]) :
    Parsed("report", results, [all |-> StatusCounts(results), devices |-> DeviceCounts(results)])

CountCompliance ==
  \E passed \in {0, 1, 2, 99, 199, 200}, open, failed \in 0..3 :
    LET counts == [s \in ReportStatuses |-> CASE s = "NotAFinding" -> passed [] s = "Open" -> open
                                               [] s = "Error" -> failed [] OTHER -> 1]
    IN Parsed("compliance", counts, Compliance(counts))

Compare ==
  \/ CompareReleases \/ ComparatorCheck \/ CompareAuditRuns \/ CompareHistoricalRuns
  \/ WriteChecklists \/ RoundTripCklb \/ CountResults \/ CountCompliance
-----------------------------------------------------------------------------
(***************************************************************************)
(* Releases.                                                               *)
(***************************************************************************)
\* The items have every rule of both releases once.
Partitioned(items, old, new) ==
  /\ \A i \in DOMAIN old : Cardinality({x \in items : x.old = i}) = 1
  /\ \A j \in DOMAIN new : Cardinality({x \in items : x.new = j}) = 1

Mirrored(change) == CASE change = "ADDED" -> "REMOVED" [] change = "REMOVED" -> "ADDED" [] OTHER -> change

Shared(a, b) == \E f \in ToSet(MatchFields) : a[f] = b[f] /\ a[f] # ""

\* A release comparison accounts for every rule of both releases exactly
\* once in either tool; comparing in the other direction gives the mirrored
\* changes; a rule is said to be added or removed, and not ambiguous, only
\* when no rule on the other side that is left shares an identifier with it;
\* and an automated check that is mapped to a rule by vulnerability is never
\* left unreviewed when the rule's check text changed or the rule is new.
DiffsComplete ==
  type = "releases" =>
    LET old   == input.old
        new   == input.new
        items == {i.item : i \in outcome.value.impacts}
        left(side) == {x \in items : x[side] = 0}
    IN /\ Partitioned(items, old, new) /\ Partitioned({r[1] : r \in outcome.value.rows}, old, new)
       /\ ReleaseDiff(new, old) = {[change |-> Mirrored(x.change), old |-> x.new, new |-> x.old,
                                    ambiguous |-> x.ambiguous] : x \in items}
       /\ \A x \in left("old"), y \in left("new") :
            Shared(new[x.new], old[y.old]) => x.ambiguous /\ y.ambiguous
       /\ \A i \in outcome.value.impacts, c \in input.checks :
            /\ i.item.new # 0 /\ new[i.item.new].vuln_id = c.vuln_id
            /\ i.item.old # 0 => old[i.item.old].check_text # new[i.item.new].check_text
            => i.impact \in {"AMBIGUOUS_MAPPING", ReviewAsked(c.manual)}
       /\ outcome.value.unchanged + Cardinality({c \in outcome.value.changes : c.old # 0}) = Len(old)
       /\ outcome.value.unchanged + Cardinality({c \in outcome.value.changes : c.new # 0}) = Len(new)
       /\ outcome.value.baseline = {}
-----------------------------------------------------------------------------
(***************************************************************************)
(* Runs.                                                                   *)
(***************************************************************************)
LastStatus(results) == IF results = <<>> THEN "absent" ELSE Last(results).status

\* What the summary has to be, read off the two runs alone: an evaluation counts
\* when it was made in both, of one rule, and failed in neither.
SummaryDue(run) ==
  LET was    == LastStatus(run.previous)
      now    == LastStatus(run.current)
      judged == /\ "absent" \notin {was, now} /\ ~Failed(was) /\ ~Failed(now)
                /\ run.oldRules = run.newRules \/ <<>> \in {run.oldRules, run.newRules}
  IN [previous_open |-> IF was = "Open" THEN 1 ELSE 0,
      current_open  |-> IF now = "Open" THEN 1 ELSE 0,
      new           |-> IF judged /\ was # "Open" /\ now = "Open" THEN 1 ELSE 0,
      resolved      |-> IF judged /\ was = "Open" /\ now = "NotAFinding" THEN 1 ELSE 0,
      persistent    |-> IF judged /\ was = "Open" /\ now = "Open" THEN 1 ELSE 0,
      errors        |-> IF Failed(was) \/ Failed(now) THEN 1 ELSE 0]

\* The comparison of two runs hides no open finding and credits none that
\* was not evaluated: a finding open in the current run is new, persistent,
\* newly applicable or not comparable; resolved and unchanged passes were
\* evaluated in both runs under one rule, by the last result of each; what is
\* resolved is new when the runs are compared the other way round; the summary
\* counts exactly the findings that are open, new, resolved or persistent and
\* the failed evaluations, as the runs alone tell; and the order in which two runs of the
\* history are selected does not matter unless they started at once.
RunsComparedFairly ==
  /\ type = "runs" =>
       \A i \in outcome.value.items :
         /\ i.after = "Open" => i.change \in {"NEW_FINDING", "PERSISTENT_FINDING", "NEWLY_APPLICABLE",
                                              "NOT_COMPARABLE"}
         /\ i.change \in {"RESOLVED", "UNCHANGED_PASS"} =>
              /\ Last(input.current).status = "NotAFinding"
              /\ Last(input.previous).status \in {"Open", "NotAFinding"}
              /\ input.oldRules = input.newRules \/ <<>> \in {input.oldRules, input.newRules}
         /\ i.change = "RESOLVED" =>
              \A j \in CompareRuns(input.current, input.previous, input.newRules, input.oldRules) :
                j.change = "NEW_FINDING"
         /\ i.before = "Open" /\ i.after # "Open" => i.change # "UNCHANGED_PASS"
  /\ type = "runs" =>
       /\ Cardinality(outcome.value.items) = (IF input.previous \o input.current = <<>> THEN 0 ELSE 1)
       /\ outcome.value.summary = SummaryDue(input)
  /\ type = "history" /\ input.first.started # input.second.started =>
       outcome.value = CompareHistorical(input.second, input.first)
-----------------------------------------------------------------------------
(***************************************************************************)
(* Checklists and reports.                                                 *)
(***************************************************************************)
ChecklistsWritten(run, written) ==
  /\ \A f \in DOMAIN run.results, v \in {1, 2, 3} :
       v \in DOMAIN run.results[f] /\ written.jobs # {} =>
         LET status == run.results[f][v]
             homes  == {x \in written.files : f \in x.job.families}
         IN /\ Cardinality(homes) = 1
            /\ \A x \in homes :
                 IF v \in DOMAIN x.file.items
                 THEN /\ x.file.items[v] = "NotAFinding" <=> status = "NotAFinding"
                      /\ x.file.items[v] = "Open" <=> status = "Open"
                      /\ Failed(status) => x.file.items[v] = "Not_Reviewed"
                      /\ v \in x.file.updated
                 ELSE v \in x.file.unmatched
  /\ \A x \in written.files, v \in {1, 2, 3} :
       v \in DOMAIN x.file.items \ x.file.updated => x.file.items[v] = run.preset
  /\ written.jobs # {} => UNION {j.families : j \in written.jobs} = run.selected

ChecklistsAgree ==
  /\ type = "checklists" => ChecklistsWritten(input, outcome.value)
  /\ type = "cklb" =>
       \A v \in input.vulns :
         outcome.value[v] = (IF v \in DOMAIN input.results /\ ~Failed(input.results[v])
                             THEN input.results[v] ELSE "Not_Reviewed")

Total(counts) ==
  counts["NotAFinding"] + counts["Open"] + counts["Error"] + counts["Skipped"]
    + counts["Not_Applicable"] + counts["Not_Reviewed"]

CountOf(devices, d, s) == IF d \in DOMAIN devices THEN devices[d][s] ELSE 0

ReportsAddUp ==
  /\ type = "report" =>
       LET devices == outcome.value.devices
           counts  == outcome.value.all
       IN /\ Total(counts) = Len(input)
          /\ \A s \in ReportStatuses : counts[s] = CountOf(devices, "d", s) + CountOf(devices, "e", s)
  /\ type = "compliance" =>
       /\ outcome.value \in 0..100
       /\ outcome.value = 100 /\ input["Open"] > 0 => Scorable(input) >= 200

\* What is written of a run agrees with its results. Every result of a
\* selected family is written to one checklist or reported as unmatched there;
\* an item passes only when the check passed on this device or the template
\* said so and no check answered for it; a failed evaluation is not reviewed; a
\* CKLB reads back as the statuses that were written. In the reports the counts
\* of the devices sum to those of the whole and these to the number of checks,
\* and with a finding open the compliance shown is 100% only when at least 200
\* checks were scored.
RecordsAgree == ChecklistsAgree /\ ReportsAddUp
=============================================================================
