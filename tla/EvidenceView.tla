---------------------------- MODULE EvidenceView ----------------------------
(***************************************************************************)
(* The Evidence page: EvidenceTab (gui/evidence_tab.py) shows the raw      *)
(* output that is selected in its table, which a thread of its own reads   *)
(* for every selection (load_evidence_text_async).  Readers finish in any  *)
(* order and post what they read; a generation number tells the answer to  *)
(* the latest question from those to earlier ones.                         *)
(*                                                                         *)
(* Handlers run on Tk's thread, one at a time.  Tk reports a selection     *)
(* after the handler that made it is over, several of them once.           *)
(***************************************************************************)
EXTENDS Naturals, Sequences, SequencesExt

CONSTANTS Contexts,    \* lists of artifacts the page is opened with: a run's, a result's
          MaxCommands  \* bound: commands of the operator

ASSUME ViewAssumption ==
  /\ MaxCommands \in Nat /\ <<>> \in Contexts
  /\ \A c \in Contexts : c \in Seq(Range(c))

VARIABLES artifacts,   \* self.artifacts, the rows of the table
          viewed,      \* its selected row, 0 if none
          raw,         \* what the text box says
          loaded,      \* _loaded_text, which Copy and Find Next work on
          generation,  \* _evidence_load_generation
          readers,     \* threads that read: their generation and artifact
          posted,      \* callbacks they posted, in order
          changed,     \* has Tk a selection to report?
          files,       \* artifacts whose file is there
          commands     \* number of commands so far

tabVars  == <<artifacts, viewed, raw, loaded, changed>>
loadVars == <<generation, readers, posted>>
pageVars == <<tabVars, loadVars, files, commands>>

Artifacts == UNION {Range(c) : c \in Contexts}

Text(a)     == [is |-> "text", of |-> a]
Failure(a)  == [is |-> "failure", of |-> a]
Message(m)  == [is |-> "message", of |-> m]
Unselected  == Message("No evidence selected.")
NoEvidence  == Message("No linked evidence is available for this selection.")
Loading     == Message("Loading evidence...")
Nothing     == Message("")

PageInit ==
  /\ artifacts = <<>> /\ viewed = 0 /\ raw = Unselected /\ loaded = Nothing
  /\ generation = 0 /\ readers = {} /\ posted = <<>>
  /\ changed = FALSE /\ files = Artifacts /\ commands = 0

Commanded == commands < MaxCommands /\ commands' = commands + 1

\* Fault: the number is taken before it is counted up.
Earlier == generation

\* The number that a load keeps to compare with.
Own == generation + 1

\* load_evidence_text_async
LoadText(a) ==
  /\ raw' = Loading
  /\ generation' = generation + 1
  /\ readers' = readers \cup {[generation |-> Own, of |-> a]}
  /\ UNCHANGED posted

\* show_context: the first row is selected and loaded at once, and reported by
\* Tk later.  A reader of the context before goes on.
Show(context) ==
  /\ artifacts' = context /\ loaded' = Nothing
  /\ IF context = <<>>
     THEN viewed' = 0 /\ raw' = NoEvidence /\ UNCHANGED <<loadVars, changed>>
     ELSE viewed' = 1 /\ LoadText(context[1]) /\ changed' = TRUE

\* show_result_evidence and open_historical_run
Open == Commanded /\ \E c \in Contexts : Show(c) /\ UNCHANGED files

Select ==
  /\ Commanded
  /\ \E k \in DOMAIN artifacts \ {viewed} : viewed' = k
  /\ changed' = TRUE
  /\ UNCHANGED <<artifacts, raw, loaded, loadVars, files>>

\* _selection_changed
SelectionChanged ==
  /\ changed /\ changed' = FALSE
  /\ IF viewed = 0 THEN UNCHANGED <<raw, loadVars>> ELSE LoadText(artifacts[viewed])
  /\ UNCHANGED <<artifacts, viewed, loaded, files, commands>>

\* Purging takes files away; deleting the run that is open empties the page, too,
\* and what is opened after it is another run's that was purged.
Purge == Commanded /\ files' = {} /\ UNCHANGED <<tabVars, loadVars>>

DeleteRun == Commanded /\ files' = {} /\ Show(<<>>)

\* The reader's thread: what it read, or why it could not.
Read(r) ==
  /\ readers' = readers \ {r}
  /\ posted' = Append(posted, [generation |-> r.generation,
                               text |-> IF r.of \in files THEN Text(r.of) ELSE Failure(r.of)])
  /\ UNCHANGED <<tabVars, generation, files, commands>>

ReadFor(g) == \E r \in readers : r.generation = g /\ Read(r)

\* Fault: whatever comes is shown.
AnyAnswer(answer) == TRUE

Wanted(answer) == answer.generation = generation

\* _poll_ui_callbacks runs deliver, and that _evidence_loaded.
Deliver ==
  /\ posted # <<>> /\ posted' = Tail(posted)
  /\ IF Wanted(Head(posted))
     THEN raw' = Head(posted).text /\ loaded' = Head(posted).text
     ELSE UNCHANGED <<raw, loaded>>
  /\ UNCHANGED <<artifacts, viewed, changed, generation, readers, files, commands>>

Generations == 0..(2 * MaxCommands)

PageNext ==
  \/ Open \/ Select \/ Purge \/ DeleteRun
  \/ SelectionChanged \/ Deliver
  \/ \E g \in Generations : ReadFor(g)

PageSpec == PageInit /\ [][PageNext]_pageVars

\* Tk's loop reports selections and runs callbacks again and again; reading a file ends.
FairSpec ==
  /\ PageSpec
  /\ WF_pageVars(SelectionChanged) /\ WF_pageVars(Deliver)
  /\ \A g \in Generations : WF_pageVars(ReadFor(g))
-----------------------------------------------------------------------------
(***************************************************************************)
(* Properties.                                                             *)
(***************************************************************************)
\* Output that is shown beside a table of artifacts is the selected one's,
\* however selections, readers and their callbacks overtake each other; a
\* selection that Tk did not report yet excepted. What can be copied then is
\* the same output, or there is an answer to come.
ShownIsSelected ==
  artifacts # <<>> /\ ~changed =>
    /\ raw.is # "message" => raw.of = artifacts[viewed] /\ loaded = raw
    /\ raw = Loading => \/ \E r \in readers : r.generation = generation /\ r.of = artifacts[viewed]
                        \/ \E k \in DOMAIN posted : Wanted(posted[k])

\* What stays selected is shown in the end, or why it cannot be read: no answer
\* is dropped for an older one.
SelectedIsShown ==
  \A c \in Contexts \ {<<>>} : \A k \in DOMAIN c :
    artifacts = c /\ viewed = k ~>
      artifacts # c \/ viewed # k \/ raw \in {Text(c[k]), Failure(c[k])}

\* "No linked evidence is available for this selection." (EvidenceTab): a result
\* without evidence, and a page that was emptied, show none. The code does not keep it:
\* show_context leaves the generation alone then, and an earlier answer is shown.
NoneShownForNone == artifacts = <<>> => raw.is = "message"
=============================================================================
