----------------------------- MODULE StigProofs ------------------------------
(***************************************************************************)
(* Proofs about checks, and about what the program makes of STIG releases  *)
(* and of results:                                                         *)
(*                                                                         *)
(*   - what each evaluator of a check promises, for any profile and any    *)
(*     configuration, and from that PassIsEarned and OpenIsTrue of         *)
(*     CheckSoundness, one action at a time;                               *)
(*   - what comparisons of releases and of runs, checklists and reports    *)
(*     promise, for any releases, runs and results, and from that          *)
(*     DiffsComplete, RunsComparedFairly and RecordsAgree of CheckSoundness;*)
(*   - the inductive invariant of the library of releases (StigLibrary), for*)
(*     any packages and check files and any number of releases.            *)
(***************************************************************************)
EXTENDS StigLibrary, CheckSoundness, FiniteSetTheorems, WellFoundedInduction, TLAPS

------------------------------------------------------------------------------
(***************************************************************************)
(* What outcomes are made of.                                              *)
(***************************************************************************)
\* Kinds are told apart, and nothing is named of an empty set.
LEMMA NamedEmpty ==
  ASSUME NEW kind, NEW S
  PROVE  Named(kind, S) = {} <=> S = {}
  BY DEF Named

\* A flagged item is absent exactly when the condition fails.
LEMMA FlagEmpty ==
  ASSUME NEW kind, NEW holds
  PROVE  Flag(kind, holds) = {} <=> ~holds
  BY DEF Flag

\* Objects of different kinds, or of sets that share nothing, are different.
LEMMA NamedApart ==
  ASSUME NEW k, NEW l, NEW S, NEW T, k # l \/ S \cap T = {}
  PROVE  Named(k, S) \cap Named(l, T) = {}
  BY DEF Named

\* Flags of different kinds, or of a condition and its negation, never meet.
LEMMA FlagApart ==
  ASSUME NEW k, NEW l, NEW S, NEW h, k # l
  PROVE  Named(k, S) \cap Flag(l, h) = {} /\ Flag(l, h) \cap Named(k, S) = {} /\ Flag(k, h) \cap Flag(k, ~h) = {}
  BY DEF Named, Flag

\* Verdict: Open when something failed.
LEMMA VerdictStatus ==
  ASSUME NEW failed, NEW passed
  PROVE  /\ Verdict(failed, passed).status = "pass" <=> failed = {}
         /\ Verdict(failed, passed).status = "fail" <=> failed # {}
  BY DEF Verdict, Of

\* A verdict is "pass" exactly when nothing failed.
LEMMA VerdictIs ==
  ASSUME NEW failed, NEW passed
  PROVE  Verdict(failed, passed).status = IF failed = {} THEN "pass" ELSE "fail"
  BY DEF Verdict, Of

\* A verdict keeps the two lists it was given.
LEMMA VerdictLists ==
  ASSUME NEW failed, NEW passed
  PROVE  Verdict(failed, passed).failed = failed /\ Verdict(failed, passed).passed = passed
  BY DEF Verdict, Of

\* The fields of an outcome.
LEMMA OfIs ==
  ASSUME NEW status, NEW failed, NEW passed
  PROVE  Of(status, failed, passed).status = status /\ Of(status, failed, passed).failed = failed
         /\ Of(status, failed, passed).passed = passed
  BY DEF Of

\* Judge: what is bad failed, the rest passed.
LEMMA Judging ==
  ASSUME NEW S, NEW bad, bad \subseteq S
  PROVE  /\ Judge(S, bad).status \in {"pass", "fail"}
         /\ Judge(S, bad).status = "pass" <=> bad = {}
         /\ Judge(S, bad).failed \cap Judge(S, bad).passed = {}
         /\ Judge(S, bad).failed = bad
  BY DEF Judge, Verdict, Of

\* Review and error are neither Open nor a pass.
LEMMA OtherStatus ==
  /\ Review.status = "review" /\ Raised.status = "error"
  /\ Review.failed = {} /\ Review.passed = {} /\ Raised.failed = {} /\ Raised.passed = {}
  BY DEF Review, Raised, Of

------------------------------------------------------------------------------
(***************************************************************************)
(* Root guard and RADIUS.                                                  *)
(***************************************************************************)
\* A host is known by its short name, too, and by no name of another host.
LEMMA VariantsOf ==
  ASSUME NEW h
  PROVE  <<h[1], "">> \in Variants(h) /\ \A v \in Variants(h) : v[1] = h[1]
<1>1. <<h[1], "">>[1] = h[1]
  OBVIOUS
<1> QED BY <1>1 DEF Variants

\* Root guard: when the check passes every interface to a switch that is no upstream
\* switch has it, and when it is Open one has it not, for any neighbors, names and port
\* channels (_root_guard_neighbor_policy).
THEOREM RootGuardIsTrue ==
  ASSUME NEW upstreams, NEW neighbors, NEW config, NEW channels,
         NEW found, found = RootGuardNeighborPolicy(upstreams, neighbors, config, channels),
         NEW device, device = [upstreams |-> upstreams, neighbors |-> neighbors, config |-> config,
                               channels |-> channels]
  PROVE  /\ found.status = "pass" => Guarded(device)
         /\ found.status = "fail" => ~Guarded(device)
<1> DEFINE exemptNames == UNION {Variants(u) : u \in upstreams}
           switches    == {n \in neighbors : n.switch}
           exempt      == {n \in switches : Variants(n.host) \cap exemptNames # {}}
           unresolved  == {n \in switches \ exempt : n.port = 0}
           targets     == switches \ (exempt \cup unresolved)
           safe(n)     == n.port \in DOMAIN config /\ (config[n.port].guard \/ config[n.port].channel \in channels)
           failed      == {n \in targets : ~safe(n)}
<1>1. found = IF NothingToCompare(upstreams, neighbors) THEN Review
              ELSE IF failed # {} THEN Of("fail", failed, exempt \cup (targets \ failed))
              ELSE IF unresolved # {} THEN Of("review", unresolved, exempt \cup targets)
              ELSE Of("pass", {}, exempt \cup targets)
  BY DEF RootGuardNeighborPolicy
<1>2. \A n \in switches : n \in exempt <=> \E u \in upstreams : u[1] = n.host[1]
  <2>1. ASSUME NEW n \in switches, NEW u \in upstreams, u[1] = n.host[1]
        PROVE  n \in exempt
    <3>1. <<u[1], "">> \in Variants(n.host) \cap exemptNames
      <4>1. <<u[1], "">> \in Variants(u) /\ <<n.host[1], "">> \in Variants(n.host)
        BY VariantsOf
      <4> QED BY <2>1, <4>1
    <3> QED BY <3>1
  <2>2. ASSUME NEW n \in exempt
        PROVE  \E u \in upstreams : u[1] = n.host[1]
    <3>1. PICK v \in Variants(n.host), u \in upstreams : v \in Variants(u)
      BY <2>2
    <3>2. v[1] = n.host[1] /\ v[1] = u[1]
      BY <3>1, VariantsOf
    <3> QED BY <3>2
  <2> QED BY <2>1, <2>2
<1>3. Guarded(device) <=> \A n \in switches \ exempt : safe(n)
  <2>1. Guarded(device) <=>
          \A n \in neighbors : n.switch /\ ~(\E u \in upstreams : u[1] = n.host[1]) => safe(n)
    BY DEF Guarded
  <2> HIDE DEF exempt, safe
  <2> QED BY <1>2, <2>1
<1>4. found.status = "pass" => failed = {} /\ unresolved = {}
  <2> HIDE DEF failed, unresolved, exempt, targets
  <2> QED BY <1>1 DEF Of, Review
<1>5. found.status = "fail" => failed # {}
  <2> HIDE DEF failed, unresolved, exempt, targets
  <2> QED BY <1>1 DEF Of, Review
<1> HIDE DEF exempt, safe
<1> QED
  BY <1>3, <1>4, <1>5

\* With nothing to compare root guard is reviewed; an Open one names unguarded ports only.
LEMMA RootGuardParts ==
  ASSUME NEW upstreams, NEW neighbors, NEW config, NEW channels,
         NEW found, found = RootGuardNeighborPolicy(upstreams, neighbors, config, channels)
  PROVE  /\ upstreams = {} \/ neighbors = {} => found.status = "review"
         /\ found.status = "fail" => found.failed # {} /\ found.failed \cap found.passed = {}
<1> DEFINE exemptNames == UNION {Variants(u) : u \in upstreams}
           switches    == {n \in neighbors : n.switch}
           exempt      == {n \in switches : Variants(n.host) \cap exemptNames # {}}
           unresolved  == {n \in switches \ exempt : n.port = 0}
           targets     == switches \ (exempt \cup unresolved)
           safe(n)     == n.port \in DOMAIN config /\ (config[n.port].guard \/ config[n.port].channel \in channels)
           failed      == {n \in targets : ~safe(n)}
<1>1. found = IF NothingToCompare(upstreams, neighbors) THEN Review
              ELSE IF failed # {} THEN Of("fail", failed, exempt \cup (targets \ failed))
              ELSE IF unresolved # {} THEN Of("review", unresolved, exempt \cup targets)
              ELSE Of("pass", {}, exempt \cup targets)
  BY DEF RootGuardNeighborPolicy
<1>2. failed \cap (exempt \cup (targets \ failed)) = {}
  <2> HIDE DEF exempt, switches, unresolved
  <2> QED OBVIOUS
<1> HIDE DEF failed, unresolved, exempt, targets
<1>3. upstreams = {} \/ neighbors = {} => found = Review
  BY <1>1 DEF NothingToCompare
<1>4. found.status = "fail" => found = Of("fail", failed, exempt \cup (targets \ failed)) /\ failed # {}
  BY <1>1, OfIs, OtherStatus
<1> QED BY <1>2, <1>3, <1>4, OfIs, OtherStatus

\* RADIUS: when the check passes there are two servers that differ, each in the group
\* and defined with the address and ports of the profile and with a key, for any
\* profile and configuration (_radius_server_policy).
THEOREM RadiusIsTrue ==
  ASSUME NEW profile, NEW config, IsFiniteSet(profile.servers), NEW A, NEW P,
         \A n \in DOMAIN config.section : config.section[n] \in [address : A, ports : P, key : BOOLEAN],
         RadiusServerPolicy(profile, config).status = "pass"
  PROVE  TwoServersOfGroup([profile |-> profile, config |-> config])
<1> DEFINE names    == profile.servers
           fails(n) == \/ Fold(n) \notin DOMAIN config.section
                       \/ config.section[Fold(n)].address # profile.address[Fold(n)]
                       \/ config.section[Fold(n)].ports # profile.ports
                       \/ ~config.section[Fold(n)].key
           bad      == {n \in names : fails(n)}
           group    == ~(Folded(names) \subseteq config.members)
           raises   == \/ Cardinality(Folded(names)) < 2 \/ Cardinality(Folded(names)) # Cardinality(names)
                       \/ ~(Folded(names) \subseteq DOMAIN profile.address)
                       \/ ~({profile.ports[1], profile.ports[2]} \subseteq Ports)
           wrong    == Named("server", bad) \cup Flag("group", group)
           right    == Named("server", names \ bad) \cup Flag("group", ~group)
<1>1. RadiusServerPolicy(profile, config) = IF raises THEN Raised ELSE Verdict(wrong, right)
  BY DEF RadiusServerPolicy, Flag
<1>2. ~raises /\ wrong = {}
  <2> HIDE DEF raises, wrong, right
  <2> QED BY <1>1, OtherStatus, VerdictStatus
<1>3. bad = {} /\ Folded(names) \subseteq config.members
  <2>1. bad = {} /\ ~group
    <3> HIDE DEF bad, group
    <3>1. Named("server", bad) = {} /\ (IF group THEN {<<"group", 1>>} ELSE {}) = {}
      BY <1>2 DEF Flag
    <3> QED BY <3>1, NamedEmpty
  <2> QED BY <2>1
<1>4. PICK a, b \in Folded(names) : a # b
  <2>1. Cardinality(names) \in Nat /\ Cardinality(Folded(names)) = Cardinality(names)
    <3>1. Cardinality(names) \in Nat
      BY FS_CardinalityType
    <3> QED BY <1>2, <3>1 DEF Flag
  <2>2. Cardinality(Folded(names)) \in Nat /\ ~(Cardinality(Folded(names)) < 2)
    BY <1>2, <2>1 DEF Flag
  <2>3. ASSUME \A a, b \in Folded(names) : a = b PROVE FALSE
    <3>1. Folded(names) = {} \/ \E a : Folded(names) = {a}
      BY <2>3
    <3>2. Cardinality({}) = 0 /\ \A a : Cardinality({a}) = 1
      BY FS_EmptySet, FS_Singleton
    <3> HIDE DEF names
    <3> QED BY <2>2, <3>1, <3>2
  <2> QED BY <2>3
<1>5. PICK x \in names, y \in names : Fold(x) = a /\ Fold(y) = b
  BY <1>4 DEF Folded
<1>6. \A n \in names : /\ Fold(n) \in config.members /\ Fold(n) \in DOMAIN config.section
                       /\ config.section[Fold(n)] = [address |-> profile.address[Fold(n)],
                                                     ports |-> profile.ports, key |-> TRUE]
  <2> TAKE n \in names
  <2>1. ~fails(n) /\ Fold(n) \in config.members
    BY <1>3 DEF Folded
  <2>2. config.section[Fold(n)] \in [address : A, ports : P, key : BOOLEAN]
    BY <2>1
  <2> QED BY <2>1, <2>2
<1>7. \A n \in {x, y} : n \in names
  BY <1>5
<1> DEFINE i == [profile |-> profile, config |-> config]
<1>8. i.profile = profile /\ i.config = config
  OBVIOUS
<1> HIDE DEF names, i
<1>9. \A n \in {x, y} : /\ Fold(n) \in i.config.members /\ Fold(n) \in DOMAIN i.config.section
                        /\ i.config.section[Fold(n)] = [address |-> i.profile.address[Fold(n)],
                                                        ports |-> i.profile.ports, key |-> TRUE]
  BY <1>6, <1>7, <1>8
<1> QED
  BY <1>4, <1>5, <1>8, <1>9 DEF TwoServersOfGroup, i, names

\* With two servers an Open RADIUS check is right: it is not the case that both are set up.
LEMMA RadiusFails ==
  ASSUME NEW profile, NEW config, NEW x, NEW y, profile.servers = {x, y},
         RadiusServerPolicy(profile, config).status = "fail"
  PROVE  ~TwoServersOfGroup([profile |-> profile, config |-> config])
<1> DEFINE names    == profile.servers
           fails(n) == \/ Fold(n) \notin DOMAIN config.section
                       \/ config.section[Fold(n)].address # profile.address[Fold(n)]
                       \/ config.section[Fold(n)].ports # profile.ports
                       \/ ~config.section[Fold(n)].key
           bad      == {n \in names : fails(n)}
           group    == ~(Folded(names) \subseteq config.members)
           raises   == \/ Cardinality(Folded(names)) < 2 \/ Cardinality(Folded(names)) # Cardinality(names)
                       \/ ~(Folded(names) \subseteq DOMAIN profile.address)
                       \/ ~({profile.ports[1], profile.ports[2]} \subseteq Ports)
           wrong    == Named("server", bad) \cup Flag("group", group)
           right    == Named("server", names \ bad) \cup Flag("group", ~group)
           i        == [profile |-> profile, config |-> config]
<1>1. RadiusServerPolicy(profile, config) = IF raises THEN Raised ELSE Verdict(wrong, right)
  BY DEF RadiusServerPolicy, Flag
<1>2. wrong # {}
  <2> HIDE DEF raises, wrong, right
  <2> QED BY <1>1, OtherStatus, VerdictStatus
<1>3. bad # {} \/ group
  <2> HIDE DEF bad, group
  <2> QED BY <1>2, NamedEmpty, FlagEmpty
<1> SUFFICES ASSUME TwoServersOfGroup(i) PROVE FALSE
  OBVIOUS
<1>4. i.profile = profile /\ i.config = config
  OBVIOUS
<1> HIDE DEF i
<1>5. PICK a, b \in i.profile.servers :
        Fold(a) # Fold(b) /\ \A n \in {a, b} :
          /\ Fold(n) \in i.config.members
          /\ Fold(n) \in DOMAIN i.config.section
          /\ i.config.section[Fold(n)] = [address |-> i.profile.address[Fold(n)],
                                          ports |-> i.profile.ports, key |-> TRUE]
  BY Zenon DEF TwoServersOfGroup
<1>6. names = {a, b}
  BY <1>4, <1>5
<1>7. \A n \in names : Fold(n) \in config.members /\ ~fails(n)
  BY <1>4, <1>5, <1>6
<1> QED BY <1>3, <1>7 DEF Folded

\* An Open RADIUS check names what is wrong, and nothing of that passed.
LEMMA RadiusParts ==
  ASSUME NEW profile, NEW config, RadiusServerPolicy(profile, config).status = "fail"
  PROVE  LET found == RadiusServerPolicy(profile, config)
         IN  found.failed # {} /\ found.failed \cap found.passed = {}
<1> DEFINE names    == profile.servers
           fails(n) == \/ Fold(n) \notin DOMAIN config.section
                       \/ config.section[Fold(n)].address # profile.address[Fold(n)]
                       \/ config.section[Fold(n)].ports # profile.ports
                       \/ ~config.section[Fold(n)].key
           bad      == {n \in names : fails(n)}
           group    == ~(Folded(names) \subseteq config.members)
           raises   == \/ Cardinality(Folded(names)) < 2 \/ Cardinality(Folded(names)) # Cardinality(names)
                       \/ ~(Folded(names) \subseteq DOMAIN profile.address)
                       \/ ~({profile.ports[1], profile.ports[2]} \subseteq Ports)
           wrong    == Named("server", bad) \cup Flag("group", group)
           right    == Named("server", names \ bad) \cup Flag("group", ~group)
           found    == RadiusServerPolicy(profile, config)
<1>1. found = IF raises THEN Raised ELSE Verdict(wrong, right)
  BY DEF RadiusServerPolicy, Flag
<1>2. wrong \cap right = {}
  <2>1. bad \cap (names \ bad) = {}
    OBVIOUS
  <2> HIDE DEF bad, group
  <2>2. Named("server", bad) \cap Named("server", names \ bad) = {}
    BY <2>1, NamedApart
  <2>3. /\ Named("server", bad) \cap Flag("group", ~group) = {}
        /\ Flag("group", group) \cap Named("server", names \ bad) = {}
    BY FlagApart
  <2>4. Flag("group", group) \cap Flag("group", ~group) = {}
    BY DEF Flag
  <2> QED BY <2>2, <2>3, <2>4
<1>3. found.status = "fail"
  OBVIOUS
<1> HIDE DEF found, raises, wrong, right
<1>4. found.failed # {} /\ found.failed \cap found.passed = {}
  BY <1>1, <1>2, <1>3, VerdictIs, VerdictLists, OtherStatus
<1> QED BY <1>4 DEF found

------------------------------------------------------------------------------
(***************************************************************************)
(* VTY sessions, NTP and the login banner.                                 *)
(***************************************************************************)
\* VTY sessions: a pass means that no line has a limit above the maximum, or that
\* without limits there are no more lines than that; a failure, where limits are set
\* everywhere or nowhere, that neither is so, for any sections
\* (_vty_session_limit_policy).
THEOREM VtyIsTrue ==
  ASSUME NEW maximum \in Int, NEW sections, IsFiniteSet(sections),
         \A s \in sections : s.first \in Int /\ s.last \in Int /\ s.limits \subseteq Int,
         NEW found, found = VtySessionLimitPolicy(maximum, sections),
         NEW device, device = [maximum |-> maximum, sections |-> sections]
  PROVE  /\ found.status = "pass" => Limited(device)
         /\ found.status = "fail" /\ (\A s, t \in sections : s.limits = {} => t.limits = {}) => ~Limited(device)
<1> DEFINE backwards == {b \in sections : b.last < b.first}
           blocks    == sections \ backwards
           mode      == \E b \in blocks : b.limits # {}
           bad       == {b \in blocks : b.limits = {} \/ \E l \in b.limits : l < 0 \/ l > maximum}
           lines     == UNION {b.first..b.last : b \in blocks}
           all       == UNION {b.first..b.last : b \in sections}
           exceeds   == Cardinality(lines) > maximum
<1>1. found.status = IF maximum < 1 THEN "error"
                     ELSE IF mode THEN IF backwards \cup bad = {} THEN "pass" ELSE "fail"
                     ELSE IF backwards = {} /\ ~exceeds THEN "pass" ELSE "fail"
  <2>1. found = IF maximum < 1 THEN Raised
                ELSE IF mode THEN Verdict(Named("section", backwards \cup bad), Named("section", blocks \ bad))
                ELSE Verdict(Named("section", backwards) \cup (IF exceeds THEN {<<"capacity", 1>>} ELSE {}),
                             IF ~exceeds THEN {<<"capacity", 1>>} ELSE {})
    BY DEF VtySessionLimitPolicy, Flag
  <2> HIDE DEF backwards, blocks, bad, mode, exceeds
  <2>2. Named("section", backwards) = {} <=> backwards = {}
    BY NamedEmpty
  <2>3. Named("section", backwards \cup bad) = {} <=> backwards \cup bad = {}
    BY NamedEmpty
  <2>4. CASE maximum < 1
    BY <2>1, <2>4, OtherStatus
  <2>5. ASSUME ~(maximum < 1), mode
        PROVE  found.status = IF backwards \cup bad = {} THEN "pass" ELSE "fail"
    <3>1. found = Verdict(Named("section", backwards \cup bad), Named("section", blocks \ bad))
      BY <2>1, <2>5
    <3> QED BY <2>3, <3>1, VerdictIs
  <2>6. ASSUME ~(maximum < 1), ~mode
        PROVE  found.status = IF backwards = {} /\ ~exceeds THEN "pass" ELSE "fail"
    <3>1. ASSUME exceeds PROVE found.status = "fail"
      <4>1. found = Verdict(Named("section", backwards) \cup {<<"capacity", 1>>}, {})
        BY <2>1, <2>6, <3>1
      <4> QED BY <4>1, VerdictIs
    <3>2. ASSUME ~exceeds PROVE found.status = IF backwards = {} THEN "pass" ELSE "fail"
      <4>1. found = Verdict(Named("section", backwards) \cup {}, {<<"capacity", 1>>})
        BY <2>1, <2>6, <3>2
      <4> QED BY <2>2, <4>1, VerdictIs
    <3> QED BY <3>1, <3>2
  <2> QED BY <2>4, <2>5, <2>6
<1>2. Limited(device) <=>
        \/ \A s \in sections : s.first <= s.last /\ s.limits # {} /\ s.limits \subseteq 0..maximum
        \/ /\ \A s \in sections : s.first <= s.last /\ s.limits = {}
           /\ Cardinality(all) <= maximum
  BY DEF Limited
<1>3. backwards = {} <=> \A s \in sections : s.first <= s.last
  OBVIOUS
<1>4. backwards = {} => blocks = sections /\ lines = all
  OBVIOUS
<1>5. ASSUME NEW s \in sections, s.first <= s.last
      PROVE  s \in bad <=> ~(s.limits # {} /\ s.limits \subseteq 0..maximum)
  <2>1. s \in blocks
    BY <1>5
  <2>2. \A l \in s.limits : l \in Int
    OBVIOUS
  <2>3. (\E l \in s.limits : l < 0 \/ l > maximum) <=> ~(s.limits \subseteq 0..maximum)
    BY <2>2
  <2> QED BY <2>1, <2>3
<1>6. ASSUME backwards = {} PROVE mode <=> \E s \in sections : s.limits # {}
  BY <1>4, <1>6
<1>7. bad \subseteq sections
  OBVIOUS
<1>8. Cardinality(all) \in Nat
  <2> DEFINE range == [b \in sections |-> b.first..b.last]
             ranges == {b.first..b.last : b \in sections}
  <2>1. range \in Surjection(sections, ranges)
    BY DEF Surjection
  <2>2. IsFiniteSet(ranges)
    BY <2>1, FS_Surjection
  <2>3. \A r \in ranges : IsFiniteSet(r)
    BY FS_Interval
  <2> HIDE DEF ranges
  <2>4. IsFiniteSet(UNION ranges)
    BY <2>2, <2>3, FS_UNION
  <2> QED BY <2>4, FS_CardinalityType DEF ranges
<1>9. ASSUME backwards = {} PROVE exceeds <=> ~(Cardinality(all) <= maximum)
  <2>1. lines = all
    BY <1>4, <1>9
  <2> HIDE DEF lines, all
  <2> QED BY <1>8, <2>1
<1>10. ASSUME sections = {}, maximum >= 1 PROVE ~exceeds
  <2>1. lines = {}
    BY <1>10
  <2> HIDE DEF lines
  <2> QED BY <1>10, <2>1, FS_EmptySet
<1> HIDE DEF backwards, blocks, lines, all
<1>11. ASSUME backwards # {} PROVE found.status # "pass" /\ ~Limited(device)
  <2>1. ~Limited(device)
    BY <1>2, <1>3, <1>11
  <2>2. backwards \cup bad # {}
    BY <1>11
  <2> HIDE DEF bad, mode, exceeds
  <2> QED BY <1>1, <1>11, <2>1, <2>2
<1>12. ASSUME backwards = {}, mode
       PROVE  /\ found.status = "pass" => Limited(device)
              /\ found.status = "fail" /\ (\A s, t \in sections : s.limits = {} => t.limits = {}) => ~Limited(device)
  <2>1. \A s \in sections : s \in bad <=> ~(s.limits # {} /\ s.limits \subseteq 0..maximum)
    BY <1>3, <1>5, <1>12
  <2>2. \E s \in sections : s.limits # {}
    BY <1>6, <1>12
  <2> HIDE DEF bad, mode, exceeds
  <2>3. ASSUME found.status = "pass" PROVE Limited(device)
    <3>1. bad = {}
      BY <1>1, <1>12, <2>3
    <3> QED BY <1>2, <1>3, <1>12, <2>1, <3>1
  <2>4. ASSUME found.status = "fail", \A s, t \in sections : s.limits = {} => t.limits = {}
        PROVE  ~Limited(device)
    <3>1. bad # {}
      BY <1>1, <1>12, <2>4
    <3>2. PICK s \in sections : ~(s.limits # {} /\ s.limits \subseteq 0..maximum)
      BY <1>7, <2>1, <3>1
    <3> QED BY <1>2, <2>2, <2>4, <3>2
  <2> QED BY <2>3, <2>4
<1>13. ASSUME backwards = {}, ~mode
       PROVE  /\ found.status = "pass" => Limited(device)
              /\ found.status = "fail" => ~Limited(device)
  <2>1. \A s \in sections : s.limits = {}
    BY <1>6, <1>13
  <2>2. found.status = IF maximum < 1 THEN "error" ELSE IF ~exceeds THEN "pass" ELSE "fail"
    <3> HIDE DEF mode, exceeds, bad
    <3> QED BY <1>1, <1>13
  <2>3. exceeds <=> ~(Cardinality(all) <= maximum)
    BY <1>9, <1>13
  <2>4. sections = {} => maximum < 1 \/ ~exceeds
    BY <1>10
  <2> HIDE DEF mode, exceeds, bad
  <2>5. ASSUME found.status = "pass" PROVE Limited(device)
    BY <1>2, <1>3, <1>13, <2>1, <2>2, <2>3, <2>5
  <2>6. ASSUME found.status = "fail" PROVE ~Limited(device)
    BY <1>2, <2>1, <2>2, <2>3, <2>4, <2>6
  <2> QED BY <2>5, <2>6
<1> HIDE DEF mode
<1> QED
  BY <1>11, <1>12, <1>13

\* An Open session-limit check names what is wrong, and nothing of that passed.
LEMMA VtyParts ==
  ASSUME NEW maximum \in Int, NEW sections, VtySessionLimitPolicy(maximum, sections).status = "fail"
  PROVE  LET found == VtySessionLimitPolicy(maximum, sections)
         IN  found.failed # {} /\ found.failed \cap found.passed = {}
<1> DEFINE found     == VtySessionLimitPolicy(maximum, sections)
           backwards == {b \in sections : b.last < b.first}
           blocks    == sections \ backwards
           mode      == \E b \in blocks : b.limits # {}
           bad       == {b \in blocks : b.limits = {} \/ \E l \in b.limits : l < 0 \/ l > maximum}
           lines     == UNION {b.first..b.last : b \in blocks}
           exceeds   == Cardinality(lines) > maximum
           f1 == Named("section", backwards \cup bad)
           p1 == Named("section", blocks \ bad)
           f2 == Named("section", backwards) \cup Flag("capacity", exceeds)
           p2 == Flag("capacity", ~exceeds)
<1>1. found = IF maximum < 1 THEN Raised ELSE IF mode THEN Verdict(f1, p1) ELSE Verdict(f2, p2)
  BY DEF VtySessionLimitPolicy
<1>2. f1 \cap p1 = {}
  <2>1. (backwards \cup bad) \cap (blocks \ bad) = {}
    OBVIOUS
  <2> QED BY <2>1, NamedApart
<1>3. f2 \cap p2 = {}
  <2>1. Named("section", backwards) \cap Flag("capacity", ~exceeds) = {}
    BY FlagApart
  <2>2. Flag("capacity", exceeds) \cap Flag("capacity", ~exceeds) = {}
    <3> HIDE DEF exceeds
    <3> QED BY DEF Flag
  <2> HIDE DEF exceeds, backwards
  <2> QED BY <2>1, <2>2
<1> HIDE DEF f1, f2, p1, p2, mode
<1>4. \/ found = Raised \/ found = Verdict(f1, p1) \/ found = Verdict(f2, p2)
  BY <1>1
<1>5. found.status = "fail"
  OBVIOUS
<1> HIDE DEF found
<1>6. found.failed # {} /\ found.failed \cap found.passed = {}
  BY <1>2, <1>3, <1>4, <1>5, VerdictIs, VerdictLists, OtherStatus
<1> QED BY <1>6 DEF found

\* The least of some lines is one of them.
LEMMA LeastOf ==
  ASSUME NEW S, S \subseteq Nat, S # {}
  PROVE  Min(S) \in S /\ \A m \in S : Min(S) <= m
<1> DEFINE R == {ss \in Nat \X Nat : ss[1] < ss[2]}
<1>1. IsWellFoundedOn(R, Nat)
  BY NatLessThanWellFounded DEF OpToRel
<1>2. \A a, b \in Nat : a < b => <<a, b>> \in R
  OBVIOUS
<1> HIDE DEF R
<1>3. PICK n \in S : \A m \in S : ~(<<m, n>> \in R)
  BY <1>1, WFMin
<1>4. \A m \in S : n <= m
  <2> SUFFICES ASSUME NEW m \in S, ~(n <= m) PROVE FALSE
    OBVIOUS
  <2>1. m \in Nat /\ n \in Nat /\ m < n
    OBVIOUS
  <2>2. <<m, n>> \in R
    BY <1>2, <2>1
  <2> QED BY <1>3, <2>2
<1> QED BY <1>4 DEF Min

\* NTP: when the check passes every server has a key that is trusted and of an
\* approved algorithm; when it does not and no server has more than one line, one
\* has none or authentication is off, for any profile and configuration
\* (_ntp_authentication_policy).
THEOREM NtpIsTrue ==
  ASSUME NEW profile, NEW config,
         \A s \in profile.servers : config.lines[Fold(s)] \in Seq(Nat),
         \A r \in config.trusted : r[1] \in Nat /\ r[2] \in Nat,
         NEW found, found = NtpAuthenticationPolicy(profile, config),
         NEW device, device = [profile |-> profile, config |-> config]
  PROVE  /\ found.status = "pass" => SyncsAuthenticated(device)
         /\ found.status = "fail" /\ (\A s \in profile.servers : Len(config.lines[Fold(s)]) <= 1) =>
              ~SyncsAuthenticated(device)
         /\ found.status = "fail" => found.failed # {} /\ found.failed \cap found.passed = {}
<1> DEFINE lines(s) == config.lines[Fold(s)]
           keyed(s) == {i \in DOMAIN lines(s) : lines(s)[i] # 0}
           right(k) == Authenticated(config, profile.approved, k)
           bad == {s \in profile.servers : ServerFails(config, profile.approved, Fold(s))}
           wrong == Named("server", bad) \cup Flag("global", ~config.authenticate)
           well == Named("server", profile.servers \ bad) \cup Flag("global", config.authenticate)
           raises == Cardinality(Folded(profile.servers)) < profile.minimum \/ profile.approved = {}
<1>1. found = IF raises THEN Raised ELSE Verdict(wrong, well)
  BY DEF NtpAuthenticationPolicy
<1>2. \A s \in profile.servers : s \in bad <=> keyed(s) = {} \/ ~right(lines(s)[Min(keyed(s))])
  BY Zenon DEF ServerFails
<1>3. \A k \in Nat : right(k) <=> k \in Nat /\ config.algorithm[k] \in profile.approved
                                  /\ \E r \in config.trusted : r[1] <= k /\ k <= r[2]
  <2> TAKE k \in Nat
  <2>1. k \in TrustedKeys(config) <=> \E r \in config.trusted : k \in r[1]..r[2]
    BY DEF TrustedKeys
  <2>2. \A r \in config.trusted : k \in r[1]..r[2] <=> r[1] <= k /\ k <= r[2]
    OBVIOUS
  <2> QED BY <2>1, <2>2 DEF Authenticated
<1>4. \A s \in profile.servers : keyed(s) # {} => Min(keyed(s)) \in keyed(s)
  <2> TAKE s \in profile.servers
  <2>1. keyed(s) \subseteq Nat
    OBVIOUS
  <2> HIDE DEF keyed
  <2> QED BY <2>1, LeastOf
<1>5. \A s \in profile.servers : \A i \in keyed(s) : lines(s)[i] \in Nat /\ i \in DOMAIN lines(s) /\ lines(s)[i] # 0
  OBVIOUS
<1>6. SyncsAuthenticated(device) <=>
        /\ config.authenticate
        /\ \A s \in profile.servers : \E k \in keyed(s) : right(lines(s)[k])
  <2>1. device.profile = profile /\ device.config = config
    OBVIOUS
  <2>2. SyncsAuthenticated(device) <=>
          /\ config.authenticate
          /\ \A s \in profile.servers : \E k \in DOMAIN lines(s) :
               /\ lines(s)[k] # 0 /\ config.algorithm[lines(s)[k]] \in profile.approved
               /\ \E r \in config.trusted : r[1] <= lines(s)[k] /\ lines(s)[k] <= r[2]
    BY <2>1 DEF SyncsAuthenticated
  <2>3. \A s \in profile.servers : \A k \in DOMAIN lines(s) : lines(s)[k] \in Nat
    OBVIOUS
  <2> HIDE DEF right, lines
  <2> QED BY <1>3, <2>2, <2>3
<1>7. wrong = {} <=> bad = {} /\ config.authenticate
  <2> HIDE DEF bad
  <2>1. Named("server", bad) = {} <=> bad = {}
    BY NamedEmpty
  <2>2. Flag("global", ~config.authenticate) = {} <=> config.authenticate
    BY DEF Flag
  <2> QED BY <2>1, <2>2
<1>8. wrong \cap well = {}
  <2>1. bad \cap (profile.servers \ bad) = {}
    OBVIOUS
  <2> HIDE DEF bad
  <2>2. Named("server", bad) \cap Named("server", profile.servers \ bad) = {}
    BY <2>1, NamedApart
  <2>3. /\ Named("server", bad) \cap Flag("global", config.authenticate) = {}
        /\ Flag("global", ~config.authenticate) \cap Named("server", profile.servers \ bad) = {}
    BY FlagApart
  <2>4. Flag("global", ~config.authenticate) \cap Flag("global", config.authenticate) = {}
    BY DEF Flag
  <2> QED BY <2>2, <2>3, <2>4
<1>9. \A s \in bad : s \in profile.servers
  OBVIOUS
<1> HIDE DEF raises, wrong, well, bad, right
<1>10. found.status = "pass" => wrong = {}
  BY <1>1, VerdictIs, OtherStatus
<1>11. found.status = "fail" => wrong # {} /\ found.failed = wrong /\ found.passed = well
  BY <1>1, VerdictIs, VerdictLists, OtherStatus
<1>12. ASSUME found.status = "pass" PROVE SyncsAuthenticated(device)
  <2>1. bad = {} /\ config.authenticate
    BY <1>7, <1>10, <1>12
  <2> HIDE DEF keyed, lines
  <2> QED BY <1>2, <1>4, <1>6, <2>1
<1>13. ASSUME found.status = "fail", \A s \in profile.servers : Len(config.lines[Fold(s)]) <= 1,
              SyncsAuthenticated(device)
       PROVE  FALSE
  <2>1. PICK s \in profile.servers : s \in bad
    BY <1>6, <1>7, <1>9, <1>11, <1>13
  <2>2. PICK k \in keyed(s) : right(lines(s)[k])
    BY <1>6, <1>13
  <2>3. \A i, j \in keyed(s) : i = j
    BY <1>13
  <2> HIDE DEF keyed, lines
  <2> QED BY <1>2, <1>4, <2>1, <2>2, <2>3
<1> QED BY <1>8, <1>11, <1>12, <1>13

\* Banner: where the check passes some banner stands from its header to its delimiter
\* with every clause, for any configuration (_dod_banner_policy).
THEOREM BannerIsTrue ==
  ASSUME NEW L, NEW lines \in Seq(L), DodBannerPolicy(lines, {1, 2}).status = "pass"
  PROVE  Consents([lines |-> lines])
<1> DEFINE n == Len(lines)
           ends(i)  == {j \in (i + 1)..n : EndsBody(lines[j])}
           ended(i) == lines[i].header /\ (lines[i].delimits \/ ends(i) # {})
           last(i)  == IF lines[i].delimits THEN i ELSE Min(ends(i))
           body(i)  == lines[i].clauses \cup
                       UNION {lines[k].clauses : k \in {k \in (i + 1)..last(i) : ~lines[k].header}}
<1>1. \A b \in BannersFrom(lines) : \E i \in 1..n : ended(i) /\ b = body(i)
  BY DEF BannersFrom
<1>2. PICK b \in BannersFrom(lines) : {1, 2} \subseteq b
  BY OfIs DEF DodBannerPolicy
<1>3. PICK i \in 1..n : ended(i) /\ b = body(i)
  BY <1>1
<1> DEFINE z == last(i)
<1>4. /\ z \in i..n /\ EndsBody(lines[z])
      /\ \A k \in (i + 1)..(z - 1) : ~EndsBody(lines[k])
  <2>1. CASE lines[i].delimits
    BY <2>1 DEF EndsBody
  <2>2. CASE ~lines[i].delimits
    <3> DEFINE E == ends(i)
    <3>1. E # {} /\ z = Min(E) /\ E \subseteq Nat
      BY <1>3, <2>2
    <3>2. \A j : j \in E <=> j \in (i + 1)..n /\ EndsBody(lines[j])
      OBVIOUS
    <3> HIDE DEF E, z
    <3>3. z \in E /\ \A j \in E : z <= j
      BY <3>1, LeastOf
    <3>4. z \in (i + 1)..n /\ EndsBody(lines[z])
      BY <3>2, <3>3
    <3>5. \A k \in (i + 1)..(z - 1) : k \in (i + 1)..n /\ ~(z <= k)
      BY <3>4
    <3> QED BY <3>2, <3>3, <3>4, <3>5
  <2> QED BY <2>1, <2>2
<1>5. {1, 2} \subseteq UNION {lines[k].clauses : k \in i..z}
  <2>1. \A k \in (i + 1)..z : k \in i..z
    BY <1>4
  <2>2. i \in i..z
    BY <1>4
  <2>3. body(i) \subseteq UNION {lines[k].clauses : k \in i..z}
    <3>1. body(i) = lines[i].clauses \cup
                    UNION {lines[k].clauses : k \in {k \in (i + 1)..z : ~lines[k].header}}
      OBVIOUS
    <3> HIDE DEF z, body
    <3> QED BY <2>1, <2>2, <3>1
  <2> QED BY <1>2, <1>3, <2>3
<1>6. i \in DOMAIN lines /\ lines[i].header
  BY <1>3
<1> DEFINE device == [lines |-> lines]
<1>7. device.lines = lines
  OBVIOUS
<1> HIDE DEF z, device
<1>8. /\ i \in DOMAIN device.lines /\ z \in i..Len(device.lines)
      /\ device.lines[i].header /\ EndsBody(device.lines[z])
      /\ \A k \in (i + 1)..(z - 1) : ~EndsBody(device.lines[k])
      /\ {1, 2} \subseteq UNION {device.lines[k].clauses : k \in i..z}
  BY <1>4, <1>5, <1>6, <1>7
<1>9. Consents(device)
  BY <1>8, Zenon DEF Consents
<1> QED BY <1>9 DEF device

------------------------------------------------------------------------------
(***************************************************************************)
(* Management access.                                                      *)
(***************************************************************************)
\* Management: where the check passes every VTY line is under the list and the list
\* lets no address in that is in none of the profile's networks, whatever order its
\* statements come in, for any profile and lists (_management_access_policy).
THEOREM ManagementIsTrue ==
  ASSUME NEW profile, NEW vty, NEW acls,
         \A k \in DOMAIN acls : acls[k].type \in {"standard", "extended", "ipv6"},
         ManagementAccessPolicy(profile, vty, acls).status = "pass",
         NEW device, device = [profile |-> profile, acls |-> acls, vty |-> vty]
  PROVE  OnlyApprovedManage(device)
<1> DEFINE expected == {<<n.address, Hostmask(n)>> : n \in profile.networks}
           permits  == {s \in {acls[k] : k \in DOMAIN acls} :
                          Fold(s.acl) = Fold(profile.acl) /\ s.action = "permit"
                          /\ s.type \in {"standard", "extended"}}
           open     == {v \in vty : Fold(v.accessClass) # Fold(profile.acl)}
           wrong    == {s \in permits : PermitSource(s) \notin expected}
           missing  == expected \ {PermitSource(s) : s \in permits}
           raises   == profile.networks = {} \/ \E n \in profile.networks : ~Strict(n)
           f1 == Named("vty", open) \cup Named("acl", {1})
           p1 == Named("vty", vty \ open)
           f2 == Named("vty", open) \cup Named("statement", wrong) \cup Named("network", missing)
           p2 == Named("vty", vty \ open) \cup Named("statement", permits \ wrong)
           found == ManagementAccessPolicy(profile, vty, acls)
<1>1. found = IF raises THEN Raised ELSE IF vty = {} THEN Raised
              ELSE IF permits = {} THEN Of("fail", f1, p1) ELSE Verdict(f2, p2)
  BY DEF ManagementAccessPolicy
<1>2. found.status = "pass"
  OBVIOUS
<1>3. ~raises /\ f2 = {}
  <2> HIDE DEF found, raises, permits, f1, f2, p1, p2
  <2> QED BY <1>1, <1>2, OtherStatus, OfIs, VerdictIs
<1>4. open = {} /\ wrong = {}
  <2> HIDE DEF open, wrong, missing
  <2>1. Named("vty", open) = {} /\ Named("statement", wrong) = {}
    BY <1>3
  <2> QED BY <2>1, NamedEmpty
<1>5. \A v \in vty : Fold(v.accessClass) = Fold(profile.acl)
  BY <1>4
<1>6. \A n \in profile.networks : n.mask \subseteq Positions /\ n.address \subseteq n.mask
  <2> TAKE n \in profile.networks
  <2>1. n.mask \in Masks /\ n.address \subseteq n.mask
    BY <1>3 DEF Strict
  <2> QED BY <2>1, BitsAssumption DEF Masks, Positions
<1>7. -1 \notin Positions /\ -2 \notin Positions
  BY BitsAssumption DEF Positions
<1>8. ASSUME NEW x \in SUBSET Positions, Admits(acls, profile.acl, x)
      PROVE  \E n \in profile.networks : In(x, n)
  <2>1. PICK k \in DOMAIN acls : /\ Fold(acls[k].acl) = Fold(profile.acl) /\ acls[k].type # "ipv6"
                                 /\ SpeaksOf(acls[k], x) /\ acls[k].action = "permit"
    BY <1>8 DEF Admits
  <2> DEFINE s == acls[k]
  <2>2. s \in permits
    BY <2>1
  <2>3. PermitSource(s) \in expected
    BY <1>4, <2>2
  <2>4. PICK n \in profile.networks : PermitSource(s) = <<n.address, Hostmask(n)>>
    BY <2>3
  <2>5. n.mask \subseteq Positions /\ n.address \subseteq n.mask
    BY <1>6
  <2>6. PermitSource(s) # AnySource /\ PermitSource(s) # Unknown
    BY <1>7, <2>4, <2>5 DEF AnySource, Unknown
  <2>7. SpeaksOf(s, x)
    BY <2>1
  <2> HIDE DEF s, expected, permits
  <2>8. CASE s.form \in {"wildcard", "wildcard bits"}
    <3>1. PermitSource(s) = <<s.address, s.wildcard>>
      BY <2>8 DEF PermitSource
    <3>2. s.address = n.address /\ s.wildcard = Positions \ n.mask
      BY <2>4, <3>1 DEF Hostmask
    <3>3. x \ s.wildcard = s.address \ s.wildcard
      BY <2>7, <2>8 DEF SpeaksOf
    <3>4. x \cap n.mask = n.address \cap n.mask
      BY <2>5, <3>2, <3>3
    <3> QED BY <3>4 DEF In
  <2>9. CASE s.form \notin {"wildcard", "wildcard bits"}
    <3>1. PermitSource(s) = <<s.address, {}>>
      BY <2>6, <2>9 DEF PermitSource
    <3>2. s.form # "any"
      BY <2>6 DEF PermitSource
    <3>3. s.address = n.address
      BY <2>4, <3>1
    <3>4. x = s.address
      BY <2>7, <2>9, <3>2 DEF SpeaksOf
    <3> QED BY <3>3, <3>4 DEF In
  <2> QED BY <2>8, <2>9
<1>9. device.profile = profile /\ device.acls = acls /\ device.vty = vty
  OBVIOUS
<1> QED BY <1>5, <1>8, <1>9 DEF OnlyApprovedManage

\* Without VTY lines or networks the management check is an error; an Open one names what is wrong.
LEMMA ManagementParts ==
  ASSUME NEW profile, NEW vty, NEW acls,
         NEW found, found = ManagementAccessPolicy(profile, vty, acls)
  PROVE  /\ found.status \in {"error", "pass", "fail"}
         /\ vty = {} \/ profile.networks = {} => found.status = "error"
         /\ found.status = "fail" => found.failed # {} /\ found.failed \cap found.passed = {}
<1> DEFINE expected == {<<n.address, Hostmask(n)>> : n \in profile.networks}
           permits  == {s \in {acls[k] : k \in DOMAIN acls} :
                          Fold(s.acl) = Fold(profile.acl) /\ s.action = "permit"
                          /\ s.type \in {"standard", "extended"}}
           open     == {v \in vty : Fold(v.accessClass) # Fold(profile.acl)}
           wrong    == {s \in permits : PermitSource(s) \notin expected}
           missing  == expected \ {PermitSource(s) : s \in permits}
           raises   == profile.networks = {} \/ \E n \in profile.networks : ~Strict(n)
           f1 == Named("vty", open) \cup Named("acl", {1})
           p1 == Named("vty", vty \ open)
           f2 == Named("vty", open) \cup Named("statement", wrong) \cup Named("network", missing)
           p2 == Named("vty", vty \ open) \cup Named("statement", permits \ wrong)
<1>1. found = IF raises THEN Raised ELSE IF vty = {} THEN Raised
              ELSE IF permits = {} THEN Of("fail", f1, p1) ELSE Verdict(f2, p2)
  BY DEF ManagementAccessPolicy
<1>2. profile.networks = {} => raises
  OBVIOUS
<1>3. open \cap (vty \ open) = {} /\ wrong \cap (permits \ wrong) = {}
  OBVIOUS
<1> HIDE DEF raises, open, wrong, missing, permits
<1>4. Named("vty", open) \cap Named("vty", vty \ open) = {}
  BY <1>3, NamedApart
<1>5. Named("acl", {1}) \cap Named("vty", vty \ open) = {}
  BY NamedApart
<1>6. Named("vty", open) \cap Named("statement", permits \ wrong) = {}
  BY NamedApart
<1>7. Named("statement", wrong) \cap Named("vty", vty \ open) = {}
  BY NamedApart
<1>8. Named("statement", wrong) \cap Named("statement", permits \ wrong) = {}
  BY <1>3, NamedApart
<1>9. Named("network", missing) \cap Named("vty", vty \ open) = {}
  BY NamedApart
<1>10. Named("network", missing) \cap Named("statement", permits \ wrong) = {}
  BY NamedApart
<1>11. f1 \cap p1 = {} /\ f2 \cap p2 = {}
  BY <1>4, <1>5, <1>6, <1>7, <1>8, <1>9, <1>10
<1>12. f1 # {}
  <2>1. Named("acl", {1}) # {}
    BY NamedEmpty
  <2> QED BY <2>1
<1> HIDE DEF f1, f2, p1, p2
<1>13. \/ found = Raised
       \/ ~raises /\ vty # {} /\ (found = Of("fail", f1, p1) \/ found = Verdict(f2, p2))
  BY <1>1
<1> QED BY <1>2, <1>11, <1>12, <1>13, OtherStatus, OfIs, VerdictIs, VerdictLists

------------------------------------------------------------------------------
(***************************************************************************)
(* Exceptions and plans.                                                   *)
(***************************************************************************)
\* Where output that a check needs is lacking the result is an error, unless an
\* exception excuses the whole check on the device (evaluate, apply_exceptions).
THEOREM ErrorsSurvive ==
  ASSUME NEW commands, NEW collected, NEW before, NEW host, NEW R, NEW rules \in Seq(R),
         ~(commands \subseteq collected)
  PROVE  \/ Evaluate(commands, collected, before, rules, host).status = "error"
         \/ \E k \in DOMAIN rules : /\ rules[k].host \in {"*", host}
                                    /\ rules[k].type = "*" /\ rules[k].object = "*"
<1> DEFINE applying == {k \in DOMAIN rules : RuleApplies(rules[k], host, Raised)}
<1>1. Evaluate(commands, collected, before, rules, host) = ApplyExceptions(rules, host, Raised)
  BY DEF Evaluate
<1>2. CASE applying = {}
  <2>1. ApplyExceptions(rules, host, Raised) = Raised
    BY <1>2 DEF ApplyExceptions
  <2> QED BY <1>1, <2>1, OtherStatus
<1>3. CASE applying # {}
  <2>1. PICK k \in DOMAIN rules : RuleApplies(rules[k], host, Raised)
    BY <1>3
  <2> QED BY <2>1, OtherStatus DEF RuleApplies, Like
<1> QED BY <1>2, <1>3

\* A plan has every command of the checks it is for, as the registry spells them, and
\* none that the registry lacks (plan_commands, CommandPolicy.validate).
THEOREM PlansSuffice ==
  ASSUME NEW registry, NEW pagination \in registry, NEW checks, NEW all \in BOOLEAN
  PROVE  LET planned == PlanCommands(registry, pagination, registry, checks, all)
         IN  planned \subseteq registry /\ \A c \in checks : Loaded(registry, c).commands \subseteq planned
<1>1. \A c : Loaded(registry, c).commands \subseteq registry
  BY DEF Loaded, Canonical
<1> QED
  BY <1>1 DEF PlanCommands

------------------------------------------------------------------------------
(***************************************************************************)
(* The properties of the model, taken apart by the type of the check.      *)
(***************************************************************************)
\* What Holds and NothingSeenNothingPassed say of each type.
LEMMA HoldsFor ==
  /\ type' = "management" => (Holds' <=> OnlyApprovedManage(input'))
  /\ type' = "ntp" => (Holds' <=> SyncsAuthenticated(input'))
  /\ type' = "radius" => (Holds' <=> TwoServersOfGroup(input'))
  /\ type' = "vty" => (Holds' <=> Limited(input'))
  /\ type' = "root guard" => (Holds' <=> Guarded(input'))
  /\ type' = "banner" => (Holds' <=> Consents(input'))
  /\ type' = "trunk" => (Holds' <=> TrunksPruned(input'))
  /\ type' = "snooping" => (Holds' <=> VlansServed(input'))
  /\ type' = "acl logging" => (Holds' <=> LogsDenies(input'))
  /\ type' \notin {"management", "ntp", "radius", "vty", "root guard", "banner", "trunk", "snooping", "acl logging"} => Holds'
  BY DEF Holds

\* What NothingSeenNothingPassed asks of each type of check.
LEMMA NothingFor ==
  /\ type' \notin {"root guard", "pattern", "section", "manual", "management", "interface config", "banner"} =>
       NothingSeenNothingPassed'
  /\ type' = "root guard" =>
       (NothingSeenNothingPassed' <=> (input'.upstreams = {} \/ input'.neighbors = {} => outcome'.status = "review"))
  /\ type' = "pattern" =>
       (NothingSeenNothingPassed' <=> (input'.needed \cup input'.alternatives \cup input'.forbidden = {} =>
                                          outcome'.status = "review"))
  /\ type' = "section" => (NothingSeenNothingPassed' <=> (input'.needle = {} => outcome'.status = "error"))
  /\ type' = "manual" => (NothingSeenNothingPassed' <=> outcome'.status = "fail")
  /\ type' = "management" =>
       (NothingSeenNothingPassed' <=> (input'.vty = {} \/ input'.profile.networks = {} => outcome'.status = "error"))
  BY DEF NothingSeenNothingPassed

\* What is left to show of a case for each of the two properties.
LEMMA PassFor ==
  ASSUME outcome'.status = "pass" => Holds', NothingSeenNothingPassed', type' # "plan", type' # "exception"
  PROVE  PassIsEarned'
  BY DEF PassIsEarned, PassIsSound, PlanSuffices, ErrorSurvives

\* What is enough for OpenIsTrue.
LEMMA OpenFor ==
  ASSUME outcome'.status = "fail" => outcome'.failed \cap outcome'.passed = {},
         outcome'.status = "fail" /\ type' \in Specified => ~Holds' /\ outcome'.failed # {},
         outcome'.status = "fail" /\ type' \in {"interface", "management", "banner"} => outcome'.failed # {}
  PROVE  OpenIsTrue'
<1>1. OpenIsReal'
  BY DEF OpenIsReal
<1>2. OpenIsExplained'
  BY DEF OpenIsExplained
<1> QED BY <1>1, <1>2, Zenon DEF OpenIsTrue

\* Neither "pass" nor "fail": both properties ask nothing more.
LEMMA OtherFor ==
  ASSUME outcome'.status \notin {"pass", "fail"}, NothingSeenNothingPassed', type' # "plan", type' # "exception"
  PROVE  PassIsEarned' /\ OpenIsTrue'
  BY PassFor, OpenFor

\* A stuttering step keeps both.
LEMMA Unchanged ==
  ASSUME UNCHANGED vars, PassIsEarned, OpenIsTrue
  PROVE  PassIsEarned' /\ OpenIsTrue'
<1>1. type' = type /\ input' = input /\ outcome' = outcome
  BY Zenon DEF vars
<1>2. Holds' <=> Holds
  BY <1>1, Zenon DEF Holds
<1>3. NothingSeenNothingPassed' <=> NothingSeenNothingPassed
  BY <1>1, Zenon DEF NothingSeenNothingPassed
<1>4. PlanSuffices' <=> PlanSuffices
  BY <1>1, Zenon DEF PlanSuffices
<1>5. ErrorSurvives' <=> ErrorSurvives
  BY <1>1, Zenon DEF ErrorSurvives
<1>6. OpenIsReal' <=> OpenIsReal
  BY <1>1, <1>2, Zenon DEF OpenIsReal
<1>7. OpenIsExplained' <=> OpenIsExplained
  BY <1>1, Zenon DEF OpenIsExplained
<1>8. PassIsEarned'
  BY <1>1, <1>2, <1>3, <1>4, <1>5 DEF PassIsEarned, PassIsSound
<1> QED BY <1>6, <1>7, <1>8 DEF OpenIsTrue

\* The inputs are finite sets and sequences.
LEMMA FewAreFinite ==
  ASSUME NEW S, NEW T \in AtMostTwo(S)
  PROVE  IsFiniteSet(T) /\ T \subseteq S /\ (T = {} \/ \E a, b \in S : T = {a, b})
<1>1. T = {} \/ \E a, b \in S : T = {a, b}
  BY DEF AtMostTwo
<1>3. ASSUME NEW a, NEW b PROVE IsFiniteSet({a, b})
  <2>1. {a} \cup {b} = {a, b}
    OBVIOUS
  <2>2. IsFiniteSet({a} \cup {b})
    BY FS_Singleton, FS_Union
  <2> QED BY <2>1, <2>2, Zenon
<1>4. IsFiniteSet(T)
  <2>1. CASE T = {}
    BY <2>1, FS_EmptySet
  <2>2. ASSUME NEW a \in S, NEW b \in S, T = {a, b} PROVE IsFiniteSet(T)
    BY <1>3, <2>2, Zenon
  <2> QED BY <1>1, <2>1, <2>2
<1> QED BY <1>1, <1>4

\* The bounded sequences are sequences.
LEMMA SmallIsSeq ==
  ASSUME NEW n \in Nat, NEW S, NEW s \in Small(n, S)
  PROVE  s \in Seq(S) /\ Len(s) <= n
<1>1. CASE s = <<>>
  BY <1>1
<1>2. CASE \E k \in 1..n : s \in [1..k -> S]
  BY <1>2
<1> QED BY <1>1, <1>2 DEF Small

------------------------------------------------------------------------------
(***************************************************************************)
(* The cases of the model, one lemma for each action.                      *)
(***************************************************************************)
\* The cases of each type: trunks pass when every VLAN condition holds of them
\* (_trunk_vlan_policy).
LEMMA TrunksJudged ==
  ASSUME TrunkPolicy
  PROVE  PassIsEarned' /\ OpenIsTrue'
<1>1. PICK trunks \in AtMostTwo([allowed_vlans : SUBSET {1, 2}, native_vlan : {{1}, {2}}]),
           op \in {"includes_profile_list", "excludes_profile_list", "excludes"},
           vlans \in SUBSET {1, 2}, native \in {{}, {1}} :
        LET conditions == {[field |-> "allowed_vlans", op |-> op, expected |-> vlans],
                           [field |-> "native_vlan", op |-> "equals_profile_value", expected |-> native],
                           [field |-> "native_vlan", op |-> "not_equals", expected |-> {2}]}
        IN Evaluated("trunk", [trunks |-> trunks, op |-> op, vlans |-> vlans, native |-> native],
                     TrunkVlanPolicy(trunks, conditions))
  BY Zenon DEF TrunkPolicy
<1> DEFINE first == [field |-> "allowed_vlans", op |-> op, expected |-> vlans]
           second == [field |-> "native_vlan", op |-> "equals_profile_value", expected |-> native]
           third == [field |-> "native_vlan", op |-> "not_equals", expected |-> {2}]
           conditions == {first, second, third}
           bad == {t \in trunks : ~ConditionsPass(t, conditions)}
<1>2. /\ type' = "trunk" /\ outcome' = Judge(trunks, bad)
      /\ input'.trunks = trunks /\ input'.op = op /\ input'.vlans = vlans /\ input'.native = native
  BY <1>1 DEF Evaluated, TrunkVlanPolicy
<1>3. \A t \in trunks : t.allowed_vlans \in SUBSET {1, 2} /\ t.native_vlan \in {{1}, {2}}
  BY DEF AtMostTwo
<1>4. ASSUME NEW t \in trunks
      PROVE  ConditionsPass(t, conditions) <=>
               /\ t.native_vlan = native /\ 2 \notin t.native_vlan
               /\ \A v \in vlans : (op = "includes_profile_list") <=> v \in t.allowed_vlans
  <2>1. ConditionsPass(t, conditions) <=> /\ ConditionPasses(op, t.allowed_vlans, vlans)
                                          /\ ConditionPasses("equals_profile_value", t.native_vlan, native)
                                          /\ ConditionPasses("not_equals", t.native_vlan, {2})
    <3>1. /\ first.field = "allowed_vlans" /\ first.op = op /\ first.expected = vlans
          /\ second.field = "native_vlan" /\ second.op = "equals_profile_value" /\ second.expected = native
          /\ third.field = "native_vlan" /\ third.op = "not_equals" /\ third.expected = {2}
      OBVIOUS
    <3>2. t["allowed_vlans"] = t.allowed_vlans /\ t["native_vlan"] = t.native_vlan
      OBVIOUS
    <3> HIDE DEF first, second, third
    <3> QED BY <3>1, <3>2 DEF ConditionsPass
  <2>2. ConditionPasses(op, t.allowed_vlans, vlans) <=>
          \A v \in vlans : (op = "includes_profile_list") <=> v \in t.allowed_vlans
    BY <1>3 DEF ConditionPasses
  <2>3. ConditionPasses("equals_profile_value", t.native_vlan, native) <=> t.native_vlan = native
    BY DEF ConditionPasses
  <2>4. ConditionPasses("not_equals", t.native_vlan, {2}) <=> 2 \notin t.native_vlan
    BY <1>3 DEF ConditionPasses
  <2> QED BY <2>1, <2>2, <2>3, <2>4
<1> HIDE DEF conditions
<1>5. TrunksPruned(input') <=> bad = {}
  BY <1>2, <1>4 DEF TrunksPruned
<1> HIDE DEF bad
<1>6. bad \subseteq trunks
  BY DEF bad
<1>7. /\ outcome'.status \in {"pass", "fail"} /\ (outcome'.status = "pass" <=> bad = {})
      /\ outcome'.failed \cap outcome'.passed = {} /\ outcome'.failed = bad
  BY <1>2, <1>6, Judging
<1>8. Holds' <=> bad = {}
  BY <1>2, <1>5, HoldsFor
<1> QED BY <1>2, <1>7, <1>8, PassFor, OpenFor, NothingFor

\* DHCP snooping and ARP inspection: the VLANs are there, and the service is on where it
\* is asked for (_dhcp_snooping_policy, _arp_inspection_policy).
LEMMA SnoopingJudged ==
  ASSUME SnoopingPolicy
  PROVE  PassIsEarned' /\ OpenIsTrue'
<1>1. PICK vlans, required, asked \in SUBSET {1, 2}, enabled, dhcp \in BOOLEAN :
        Evaluated("snooping",
                  [vlans |-> vlans, required |-> required, asked |-> asked, enabled |-> enabled, dhcp |-> dhcp],
                  VlanServicePolicy([vlans |-> vlans, enabled |-> enabled],
                                    {[field |-> "vlans", op |-> "includes", expected |-> asked]},
                                    required, dhcp))
  BY Zenon DEF SnoopingPolicy
<1> DEFINE device == [vlans |-> vlans, enabled |-> enabled]
           condition == [field |-> "vlans", op |-> "includes", expected |-> asked]
           failed == Flag("global", dhcp /\ ~enabled) \cup Named("vlan", required \ vlans)
           ok == ConditionsPass([vlans |-> vlans], {condition})
<1>2. /\ type' = "snooping" /\ outcome' = VlanServicePolicy(device, {condition}, required, dhcp)
      /\ input'.vlans = vlans /\ input'.required = required /\ input'.asked = asked
      /\ input'.enabled = enabled /\ input'.dhcp = dhcp
  BY <1>1 DEF Evaluated
<1>3. outcome' = IF ok THEN Verdict(failed, Flag("all", failed = {})) ELSE Of("fail", failed, {})
  <2>1. device.vlans = vlans /\ device.enabled = enabled
    OBVIOUS
  <2> HIDE DEF device
  <2> QED BY <1>2, <2>1 DEF VlanServicePolicy
<1>4. ok <=> asked \subseteq vlans
  BY DEF ConditionsPass, ConditionPasses
<1>5. failed = {} <=> required \subseteq vlans /\ (dhcp => enabled)
  <2>1. Flag("global", dhcp /\ ~enabled) = {} <=> ~(dhcp /\ ~enabled)
    BY DEF Flag
  <2>2. Named("vlan", required \ vlans) = {} <=> required \ vlans = {}
    BY NamedEmpty
  <2> QED BY <2>1, <2>2
<1> HIDE DEF failed, ok
<1>6. VlansServed(input') <=> ok /\ failed = {}
  BY <1>2, <1>4, <1>5 DEF VlansServed
<1>7. failed # {} => Flag("all", failed = {}) = {}
  BY DEF Flag
<1>8. /\ outcome'.status \in {"pass", "fail"} /\ (outcome'.status = "pass" <=> ok /\ failed = {})
      /\ outcome'.failed = failed /\ (outcome'.status = "fail" => outcome'.passed = {})
  <2>1. CASE ok
    <3>1. outcome' = Verdict(failed, Flag("all", failed = {}))
      BY <1>3, <2>1
    <3> QED BY <1>7, <2>1, <3>1, VerdictIs, VerdictLists
  <2>2. CASE ~ok
    <3>1. outcome' = Of("fail", failed, {})
      BY <1>3, <2>2
    <3> QED BY <2>2, <3>1, OfIs
  <2> QED BY <2>1, <2>2
<1>9. Holds' <=> ok /\ failed = {}
  BY <1>2, <1>6, HoldsFor
<1>10. PassIsEarned'
  BY <1>2, <1>8, <1>9, PassFor, NothingFor
<1>11. OpenIsReal'
  BY <1>8, <1>9 DEF OpenIsReal
<1>12. OpenIsExplained'
  BY <1>2, <1>4, <1>8 DEF OpenIsExplained, Specified
<1> QED BY <1>10, <1>11, <1>12 DEF OpenIsTrue

\* Patterns: without any the check is reviewed, and an Open one lists nothing as passed
\* (_command_pattern_policy, _command_contains, _section_contains).
LEMMA PatternsJudged ==
  ASSUME PatternPolicy
  PROVE  PassIsEarned' /\ OpenIsTrue'
<1>1. PICK text, required, alternatives, forbidden \in SUBSET {<<"a", 0>>, Blank}, values \in SUBSET {1, 2},
           present \in SUBSET {1, 2} :
        LET needed == Expanded(required, "vlan", values)
            all    == text \cup {<<"vlan", v>> : v \in present}
        IN Evaluated("pattern",
                     [text |-> all, needed |-> needed, alternatives |-> alternatives, forbidden |-> forbidden],
                     CommandPatternPolicy(all, needed, alternatives, forbidden))
  BY Zenon DEF PatternPolicy
<1> DEFINE needed == Expanded(required, "vlan", values)
           all    == text \cup {<<"vlan", v>> : v \in present}
<1> HIDE DEF needed, all
<1>2. /\ type' = "pattern" /\ outcome' = CommandPatternPolicy(all, needed, alternatives, forbidden)
      /\ input'.needed = needed /\ input'.alternatives = alternatives /\ input'.forbidden = forbidden
  BY <1>1 DEF Evaluated, needed, all
<1>3. /\ needed \cup alternatives \cup forbidden = {} => outcome'.status = "review"
      /\ outcome'.passed = {}
  <2>1. \/ outcome' = Review
        \/ needed \cup alternatives \cup forbidden # {} /\ \E s, f : outcome' = Of(s, f, {})
    BY <1>2 DEF CommandPatternPolicy
  <2> QED BY <2>1, OtherStatus, OfIs
<1>4. Holds' /\ NothingSeenNothingPassed'
  BY <1>2, <1>3, HoldsFor, NothingFor
<1> QED BY <1>2, <1>3, <1>4, PassFor, OpenFor DEF Specified

\* A section policy lists no item: its status is whether the text contains it,
\* or that the check does not say what.
LEMMA SectionsJudged ==
  ASSUME SectionPolicy
  PROVE  PassIsEarned' /\ OpenIsTrue'
<1>1. PICK text \in SUBSET {"a", "b"}, needle \in {{}, {"a"}}, expected \in BOOLEAN :
        Evaluated("section", [text |-> text, needle |-> needle, expected |-> expected],
                  ContainsPolicy(text, needle, expected))
  BY Zenon DEF SectionPolicy
<1>2. type' = "section" /\ input'.needle = needle /\ outcome' = ContainsPolicy(text, needle, expected)
  BY <1>1 DEF Evaluated
<1>3. outcome'.passed = {} /\ (needle = {} => outcome'.status = "error")
  BY <1>2, OfIs, OtherStatus DEF ContainsPolicy, Raised
<1>4. Holds' /\ NothingSeenNothingPassed'
  BY <1>2, <1>3, HoldsFor, NothingFor
<1> QED BY <1>2, <1>3, <1>4, PassFor, OpenFor DEF Specified

\* A manual check is never passed by the program.
LEMMA ManualsJudged ==
  ASSUME ManualCheck
  PROVE  PassIsEarned' /\ OpenIsTrue'
<1>1. type' = "manual" /\ outcome'.passed = {} /\ outcome'.status = "fail"
  BY OfIs DEF ManualCheck, Evaluated, ManualReview
<1>2. Holds' /\ NothingSeenNothingPassed'
  BY <1>1, HoldsFor, NothingFor
<1> QED BY <1>1, <1>2, PassFor, OpenFor DEF Specified

\* Interfaces: what fails a condition failed, the other candidates passed
\* (_interface_policy).
LEMMA InterfacesJudged ==
  ASSUME InterfaceCheck
  PROVE  PassIsEarned' /\ OpenIsTrue'
<1>1. \E S, bad : type' = "interface" /\ bad \subseteq S /\ outcome' = Judge(S, bad)
  <2>1. PICK i \in Interfaces, rule \in Rules, native \in {{}, {1}} :
          Evaluated("interface", [interface |-> i, rule |-> rule, native |-> native],
                    InterfacePolicy({i}, {rule},
                      {[field |-> "access_vlan", op |-> "equals_profile_value", expected |-> native]}))
    BY Zenon DEF InterfaceCheck
  <2> DEFINE conditions == {[field |-> "access_vlan", op |-> "equals_profile_value", expected |-> native]}
             fields(x) == [access_vlan |-> AccessVlan(x), switchport_mode |-> Mode(x)]
             S == Candidates({i}, {rule})
             bad == {x \in S : ~ConditionsPass(fields(x), conditions)}
  <2>2. type' = "interface" /\ outcome' = Judge(S, bad)
    BY <2>1 DEF Evaluated, InterfacePolicy
  <2>3. bad \subseteq S
    OBVIOUS
  <2> QED BY <2>2, <2>3
<1>2. PICK S, bad : type' = "interface" /\ bad \subseteq S /\ outcome' = Judge(S, bad)
  BY <1>1
<1>3. /\ outcome'.status \in {"pass", "fail"} /\ (outcome'.status = "pass" <=> bad = {})
      /\ outcome'.failed \cap outcome'.passed = {} /\ outcome'.failed = bad
  BY <1>2, Judging
<1>4. Holds' /\ NothingSeenNothingPassed'
  BY <1>2, HoldsFor, NothingFor
<1> QED BY <1>2, <1>3, <1>4, PassFor, OpenFor DEF Specified

\* Interface configuration: without candidates it does not pass where they are required
\* (_interface_config_policy).
LEMMA InterfaceConfigsJudged ==
  ASSUME InterfaceConfigCheck
  PROVE  PassIsEarned' /\ OpenIsTrue'
<1>1. PICK i \in [physical : BOOLEAN, status : {"connected"}, configVlan : {{}, {1}}, statusVlan : {{}},
                  configMode : {{}}, lines : SUBSET {"p", "q"}],
           running \in {{}, {"g"}}, policy \in Policies, there \in BOOLEAN :
        LET interfaces == IF there THEN {i} ELSE {}
            rules == {[physical |-> TRUE, status |-> {}, mode |-> {}, vlan |-> {}]}
        IN Evaluated("interface config", [interfaces |-> interfaces, running |-> running, policy |-> policy],
                     InterfaceConfigPolicy(running, interfaces, rules, policy))
  BY Zenon DEF InterfaceConfigCheck
<1> DEFINE interfaces == IF there THEN {i} ELSE {}
           rules == {[physical |-> TRUE, status |-> {}, mode |-> {}, vlan |-> {}]}
           candidates == Candidates(interfaces, rules)
           global == policy.global \ running
           failed == {x \in candidates : Violates(policy, x)}
           wrong == Named("global", global) \cup Named("interface", failed)
           right == Named("interface", candidates \ failed)
<1>2. /\ type' = "interface config" /\ outcome' = InterfaceConfigPolicy(running, interfaces, rules, policy)
      /\ input'.interfaces = interfaces /\ input'.running = running /\ input'.policy = policy
  BY <1>1 DEF Evaluated
<1>3. candidates \subseteq {x \in interfaces : x.physical}
  <2>1. \A x \in candidates : \E r \in rules : Includes(r, x)
    BY DEF Candidates
  <2>2. \A r \in rules : r.physical = TRUE
    OBVIOUS
  <2> HIDE DEF rules
  <2> QED BY <2>1, <2>2 DEF Candidates, Includes
<1> HIDE DEF interfaces, rules
<1>4. \/ outcome' = Review \/ outcome' = Raised
      \/ ~(policy.requireCandidates /\ candidates = {}) /\ outcome' = Verdict(wrong, right)
  BY <1>2 DEF InterfaceConfigPolicy
<1>5. wrong \cap right = {}
  <2>1. Named("global", global) \cap right = {} /\ Named("interface", failed) \cap right = {}
    BY NamedApart
  <2> HIDE DEF right, global, failed
  <2> QED BY <2>1
<1>6. wrong = {} => policy.global \subseteq running
  <2>1. wrong = {} => Named("global", global) = {}
    <3> HIDE DEF global, failed
    <3> QED OBVIOUS
  <2>2. Named("global", global) = {} <=> global = {}
    BY NamedEmpty
  <2> HIDE DEF wrong
  <2> QED BY <2>1, <2>2
<1> HIDE DEF candidates, wrong, right
<1>7. /\ outcome'.status \in {"review", "error", "pass", "fail"} /\ outcome'.failed \cap outcome'.passed = {}
      /\ outcome'.status = "pass" => wrong = {}
      /\ policy.requireCandidates /\ candidates = {} => outcome'.status \in {"error", "review"}
  BY <1>4, <1>5, OtherStatus, VerdictIs, VerdictLists
<1>8. NothingSeenNothingPassed'
  <2>1. policy.requireCandidates /\ {x \in interfaces : x.physical} = {} => outcome'.status \in {"error", "review"}
    BY <1>3, <1>7
  <2>2. outcome'.status = "pass" => policy.global \subseteq running
    BY <1>6, <1>7
  <2> QED BY <1>2, <2>1, <2>2 DEF NothingSeenNothingPassed
<1>9. Holds'
  BY <1>2, HoldsFor
<1> QED BY <1>2, <1>7, <1>8, <1>9, PassFor, OpenFor DEF Specified

\* Access-list logging: every deny statement in scope has the keyword
\* (_acl_deny_logging_policy).
LEMMA LoggingJudged ==
  ASSUME AclLoggingCheck
  PROVE  PassIsEarned' /\ OpenIsTrue'
<1>1. PICK keywords \in SUBSET {"log", "log-input"}, action \in {"permit", "deny"}, kind \in {"standard", "ipv6"},
           bound \in SUBSET {<<"m", 2>>}, only \in BOOLEAN :
        LET statement == [acl |-> <<"m", 1>>, type |-> kind, action |-> action, keywords |-> keywords]
        IN Evaluated("acl logging", [statement |-> statement, bound |-> bound, only |-> only],
                     AclDenyLoggingPolicy({statement}, bound,
                       [types |-> {"standard", "extended"}, boundOnly |-> only, keyword |-> "log-input"]))
  BY Zenon DEF AclLoggingCheck
<1> DEFINE statement == [acl |-> <<"m", 1>>, type |-> kind, action |-> action, keywords |-> keywords]
           settings == [types |-> {"standard", "extended"}, boundOnly |-> only, keyword |-> "log-input"]
           denies == {s \in {statement} : /\ s.action = "deny" /\ s.type \in settings.types
                                          /\ settings.boundOnly => Fold(s.acl) \in Folded(bound)}
           bad == {s \in denies : settings.keyword \notin s.keywords}
<1>2. /\ type' = "acl logging" /\ outcome' = Judge(denies, bad)
      /\ input'.statement = statement /\ input'.bound = bound /\ input'.only = only
  BY <1>1 DEF Evaluated, AclDenyLoggingPolicy
<1>3. Fold(statement.acl) \in Folded(bound) <=> bound # {}
  BY DEF Fold, Folded
<1>4. LogsDenies(input') <=> bad = {}
  <2>1. /\ statement.acl = <<"m", 1>> /\ statement.type = kind /\ statement.action = action
        /\ statement.keywords = keywords
    OBVIOUS
  <2>2. /\ settings.types = {"standard", "extended"} /\ settings.boundOnly = only /\ settings.keyword = "log-input"
    OBVIOUS
  <2> HIDE DEF statement, settings
  <2>3. bad = {} <=> ~(action = "deny" /\ kind # "ipv6" /\ (only => bound # {}) /\ "log-input" \notin keywords)
    BY <1>3, <2>1, <2>2
  <2> HIDE DEF bad
  <2> QED BY <1>2, <2>1, <2>3 DEF LogsDenies
<1>5. bad \subseteq denies /\ outcome' = Judge(denies, bad)
  BY <1>2
<1> HIDE DEF bad, denies
<1>6. /\ outcome'.status \in {"pass", "fail"} /\ (outcome'.status = "pass" <=> bad = {})
      /\ outcome'.failed \cap outcome'.passed = {} /\ outcome'.failed = bad
  BY <1>5, Judging
<1>7. Holds' <=> bad = {}
  BY <1>2, <1>4, HoldsFor
<1> QED BY <1>2, <1>6, <1>7, PassFor, OpenFor, NothingFor

\* Management access.
LEMMA ManagementJudged ==
  ASSUME ManagementCheck
  PROVE  PassIsEarned' /\ OpenIsTrue'
<1>1. PICK networks \in {{n} : n \in Networks} \cup {{}, {[address |-> {}, mask |-> Positions],
                                                        [address |-> {1}, mask |-> Positions \ {0}]}},
           acls \in Small(2, Statements), vty \in {{}, {<<"m", 1>>}, {<<"m", 1>>, <<"x", 1>>}} :
        LET profile == [networks |-> networks, acl |-> <<"m", 1>>]
            classes == {[accessClass |-> v] : v \in vty}
        IN Evaluated("management", [profile |-> profile, acls |-> acls, vty |-> classes],
                     ManagementAccessPolicy(profile, classes, acls))
  BY Zenon DEF ManagementCheck
<1> DEFINE profile == [networks |-> networks, acl |-> <<"m", 1>>]
           classes == {[accessClass |-> v] : v \in vty}
           found   == ManagementAccessPolicy(profile, classes, acls)
           device  == [profile |-> profile, acls |-> acls, vty |-> classes]
<1>2. Evaluated("management", device, found)
  BY <1>1, Zenon
<1>3. \A k \in DOMAIN acls : acls[k].type \in {"standard", "extended", "ipv6"}
  <2>1. acls \in Seq(Statements)
    BY SmallIsSeq
  <2>2. \A s \in Statements : s.type \in {"standard", "extended", "ipv6"}
    BY DEF Statements
  <2> QED BY <2>1, <2>2
<1> HIDE DEF profile, classes
<1>4. device.profile = profile /\ device.vty = classes
  OBVIOUS
<1>5. device = [profile |-> profile, acls |-> acls, vty |-> classes] /\ found = ManagementAccessPolicy(profile, classes, acls)
  OBVIOUS
<1> HIDE DEF found, device
<1>6. found.status = "pass" => OnlyApprovedManage(device)
  BY <1>3, <1>5, ManagementIsTrue
<1>7. /\ found.status \in {"error", "pass", "fail"}
      /\ classes = {} \/ profile.networks = {} => found.status = "error"
      /\ found.status = "fail" => found.failed # {} /\ found.failed \cap found.passed = {}
  BY <1>5, ManagementParts
<1>8. type' = "management" /\ input' = device /\ outcome' = found
  BY <1>2, Zenon DEF Evaluated
<1>9. NothingSeenNothingPassed'
  BY <1>4, <1>7, <1>8, NothingFor
<1>10. Holds' <=> OnlyApprovedManage(device)
  BY <1>8, HoldsFor
<1> QED BY <1>6, <1>7, <1>8, <1>9, <1>10, PassFor, OpenFor DEF Specified

\* Root guard.
LEMMA RootGuardsJudged ==
  ASSUME RootGuardCheck
  PROVE  PassIsEarned' /\ OpenIsTrue'
<1>1. PICK upstreams \in SUBSET Hosts, neighbors \in AtMostTwo(Neighbors), configured \in BOOLEAN, guard \in BOOLEAN,
           channel \in {0, 1}, channels \in SUBSET {1} :
        LET config == [p \in IF configured THEN {1} ELSE {} |-> [guard |-> guard, channel |-> channel]]
        IN Evaluated("root guard",
                     [upstreams |-> upstreams, neighbors |-> neighbors, config |-> config, channels |-> channels],
                     RootGuardNeighborPolicy(upstreams, neighbors, config, channels))
  BY Zenon DEF RootGuardCheck
<1> DEFINE config == [p \in IF configured THEN {1} ELSE {} |-> [guard |-> guard, channel |-> channel]]
<1> HIDE DEF config
<1> DEFINE device == [upstreams |-> upstreams, neighbors |-> neighbors, config |-> config, channels |-> channels]
           found == RootGuardNeighborPolicy(upstreams, neighbors, config, channels)
<1>2. type' = "root guard" /\ input' = device /\ outcome' = found
  BY <1>1 DEF Evaluated, config
<1>3. device.upstreams = upstreams /\ device.neighbors = neighbors
  OBVIOUS
<1>f. found = RootGuardNeighborPolicy(upstreams, neighbors, config, channels)
  OBVIOUS
<1>d. device = [upstreams |-> upstreams, neighbors |-> neighbors, config |-> config, channels |-> channels]
  OBVIOUS
<1> HIDE DEF found, device
<1>4. /\ found.status = "pass" => Guarded(device)
      /\ found.status = "fail" => ~Guarded(device)
  BY <1>f, <1>d, RootGuardIsTrue
<1>5. /\ upstreams = {} \/ neighbors = {} => found.status = "review"
      /\ found.status = "fail" => found.failed # {} /\ found.failed \cap found.passed = {}
  BY <1>f, RootGuardParts
<1>6. NothingSeenNothingPassed'
  BY <1>2, <1>3, <1>5, NothingFor
<1>7. Holds' <=> Guarded(device)
  BY <1>2, HoldsFor
<1> QED BY <1>2, <1>4, <1>5, <1>6, <1>7, PassFor, OpenFor

\* VTY session limits.
LEMMA VtysJudged ==
  ASSUME VtyCheck
  PROVE  PassIsEarned' /\ OpenIsTrue'
<1>1. PICK maximum \in 0..3, sections \in AtMostTwo(VtySections) :
        Evaluated("vty", [maximum |-> maximum, sections |-> sections], VtySessionLimitPolicy(maximum, sections))
  BY Zenon DEF VtyCheck
<1> DEFINE device == [maximum |-> maximum, sections |-> sections]
           found  == VtySessionLimitPolicy(maximum, sections)
<1>2. type' = "vty" /\ input' = device /\ outcome' = found
  BY <1>1 DEF Evaluated
<1>3. device.sections = sections
  OBVIOUS
<1>4. IsFiniteSet(sections) /\ sections \subseteq VtySections
  BY FewAreFinite
<1>5. \A s \in sections : s.first \in Int /\ s.last \in Int /\ s.limits \subseteq Int
  BY <1>4 DEF VtySections
<1>6. maximum \in Int
  OBVIOUS
<1>7. found = VtySessionLimitPolicy(maximum, sections) /\ device = [maximum |-> maximum, sections |-> sections]
  OBVIOUS
<1> HIDE DEF found, device
<1>8. /\ found.status = "pass" => Limited(device)
      /\ found.status = "fail" /\ (\A s, t \in sections : s.limits = {} => t.limits = {}) => ~Limited(device)
  BY <1>4, <1>5, <1>6, <1>7, VtyIsTrue
<1>9. found.status = "fail" => found.failed # {} /\ found.failed \cap found.passed = {}
  BY <1>6, <1>7, VtyParts
<1>10. Holds' <=> Limited(device)
  BY <1>2, HoldsFor
<1>11. PassIsEarned'
  BY <1>2, <1>8, <1>10, PassFor, NothingFor
<1>12. OpenIsReal'
  BY <1>2, <1>3, <1>8, <1>10 DEF OpenIsReal
<1>13. OpenIsExplained'
  BY <1>2, <1>9 DEF OpenIsExplained
<1> QED BY <1>11, <1>12, <1>13 DEF OpenIsTrue

\* NTP authentication.
LEMMA NtpJudged ==
  ASSUME NtpCheck
  PROVE  PassIsEarned' /\ OpenIsTrue'
<1>1. PICK servers \in Servers, minimum \in {1, 2}, approved \in {{}, {"sha"}}, a \in Small(2, 0..2), b \in Small(1, 0..1),
           algorithm \in [1..2 -> {"none", "md5", "sha"}], trusted \in SUBSET {<<1, 1>>, <<1, 2>>, <<2, 1>>},
           on \in BOOLEAN :
        LET profile == [servers |-> servers, minimum |-> minimum, approved |-> approved]
            config  == [lines |-> [s \in {"a", "b"} |-> IF s = "a" THEN a ELSE b], algorithm |-> algorithm,
                        trusted |-> trusted, authenticate |-> on]
        IN Evaluated("ntp", [profile |-> profile, config |-> config], NtpAuthenticationPolicy(profile, config))
  BY Zenon DEF NtpCheck
<1> DEFINE lines   == [s \in {"a", "b"} |-> IF s = "a" THEN a ELSE b]
           profile == [servers |-> servers, minimum |-> minimum, approved |-> approved]
           config  == [lines |-> lines, algorithm |-> algorithm, trusted |-> trusted, authenticate |-> on]
           found   == NtpAuthenticationPolicy(profile, config)
           device  == [profile |-> profile, config |-> config]
<1>2. Evaluated("ntp", device, found)
  BY <1>1, Zenon
<1>3. /\ profile.servers = servers /\ config.lines = lines /\ config.trusted = trusted
      /\ found = NtpAuthenticationPolicy(profile, config) /\ device = [profile |-> profile, config |-> config]
      /\ device.config = config
  OBVIOUS
<1>4. \A s \in servers : Fold(s) \in {"a", "b"}
  BY DEF Servers, Fold
<1>5. a \in Seq(Nat) /\ b \in Seq(Nat)
  <2>1. a \in Seq(0..2) /\ b \in Seq(0..1)
    BY SmallIsSeq
  <2> QED BY <2>1
<1>6. \A s \in {"a", "b"} : lines[s] \in Seq(Nat)
  BY <1>5
<1>7. \A r \in trusted : r[1] \in Nat /\ r[2] \in Nat
  OBVIOUS
<1> HIDE DEF lines, profile, config, found, device
<1>8. \A s \in profile.servers : config.lines[Fold(s)] \in Seq(Nat)
  BY <1>3, <1>4, <1>6
<1>9. \A r \in config.trusted : r[1] \in Nat /\ r[2] \in Nat
  BY <1>3, <1>7
<1>10. /\ found.status = "pass" => SyncsAuthenticated(device)
       /\ found.status = "fail" /\ (\A s \in profile.servers : Len(config.lines[Fold(s)]) <= 1) =>
            ~SyncsAuthenticated(device)
       /\ found.status = "fail" => found.failed # {} /\ found.failed \cap found.passed = {}
  BY <1>3, <1>8, <1>9, NtpIsTrue
<1>11. type' = "ntp" /\ input' = device /\ outcome' = found
  BY <1>2, Zenon DEF Evaluated
<1>12. Holds' <=> SyncsAuthenticated(device)
  BY <1>11, HoldsFor
<1>13. PassIsEarned'
  BY <1>10, <1>11, <1>12, PassFor, NothingFor
<1>14. (\A s \in {"a", "b"} : ~(Len(input'.config.lines[s]) > 1)) =>
         \A s \in profile.servers : Len(config.lines[Fold(s)]) <= 1
  <2>1. input'.config.lines = lines
    BY <1>3, <1>11
  <2>2. \A s \in {"a", "b"} : Len(lines[s]) \in Nat
    BY <1>6
  <2> QED BY <1>3, <1>4, <2>1, <2>2
<1>15. OpenIsReal'
  BY <1>10, <1>11, <1>12, <1>14 DEF OpenIsReal
<1>16. OpenIsExplained'
  BY <1>10, <1>11 DEF OpenIsExplained
<1> QED BY <1>13, <1>15, <1>16 DEF OpenIsTrue

\* RADIUS servers.
LEMMA RadiusJudged ==
  ASSUME RadiusCheck
  PROVE  PassIsEarned' /\ OpenIsTrue'
<1>1. PICK servers \in Servers,
           addressed \in {{"a"}, {"a", "b"}}, ports \in RadiusPorts,
           there \in SUBSET {"a", "b"}, a, b \in RadiusSections, members \in SUBSET {"a", "b"} :
        LET profile == [servers |-> servers, address |-> [n \in addressed |-> 7], ports |-> ports]
            config  == [section |-> [n \in there |-> IF n = "a" THEN a ELSE b], members |-> members]
        IN Evaluated("radius", [profile |-> profile, config |-> config], RadiusServerPolicy(profile, config))
  BY Zenon DEF RadiusCheck
<1> DEFINE address == [n \in addressed |-> 7]
           section == [n \in there |-> IF n = "a" THEN a ELSE b]
           profile == [servers |-> servers, address |-> address, ports |-> ports]
           config  == [section |-> section, members |-> members]
           found   == RadiusServerPolicy(profile, config)
           device  == [profile |-> profile, config |-> config]
<1>2. Evaluated("radius", device, found)
  BY <1>1, Zenon
<1>3. profile.servers = servers /\ config.section = section
  OBVIOUS
<1>4. \E x, y : servers = {x, y}
  <2>1. {<<"a", 1>>} = {<<"a", 1>>, <<"a", 1>>}
    OBVIOUS
  <2>2. \/ servers = {<<"a", 1>>} \/ servers = {<<"a", 1>>, <<"a", 2>>} \/ servers = {<<"a", 1>>, <<"b", 1>>}
    BY DEF Servers
  <2> QED BY <2>1, <2>2, Zenon
<1>5. IsFiniteSet(servers)
  <2>1. PICK x, y : servers = {x, y}
    BY <1>4
  <2>2. servers \in AtMostTwo({x, y})
    BY <2>1 DEF AtMostTwo
  <2> QED BY <2>2, FewAreFinite
<1>6. \E A, P : \A n \in DOMAIN section : section[n] \in [address : A, ports : P, key : BOOLEAN]
  <2>1. \E A, P : RadiusSections = [address : A, ports : P, key : BOOLEAN]
    <3> DEFINE A == {7, 8}
               P == {<<1812, 1813>>, <<1, 2>>}
    <3>1. RadiusSections = [address : A, ports : P, key : BOOLEAN]
      BY DEF RadiusSections
    <3> HIDE DEF A, P
    <3> QED BY <3>1
  <2>2. \A n \in DOMAIN section : section[n] \in RadiusSections
    OBVIOUS
  <2> QED BY <2>1, <2>2, Zenon
<1> HIDE DEF section, profile, config
<1>7. found.status = "pass" => TwoServersOfGroup(device)
  <2> SUFFICES ASSUME found.status = "pass" PROVE TwoServersOfGroup(device)
    OBVIOUS
  <2>1. IsFiniteSet(profile.servers)
    BY <1>3, <1>5
  <2>2. PICK A, P : \A n \in DOMAIN config.section :
          config.section[n] \in [address : A, ports : P, key : BOOLEAN]
    BY <1>3, <1>6, Zenon
  <2> QED BY <2>1, <2>2, RadiusIsTrue
<1>8. found.status = "fail" => ~TwoServersOfGroup(device)
  BY <1>3, <1>4, RadiusFails
<1>9. found.status = "fail" => found.failed # {} /\ found.failed \cap found.passed = {}
  BY RadiusParts
<1> HIDE DEF found, device
<1>10. type' = "radius" /\ input' = device /\ outcome' = found
  BY <1>2, Zenon DEF Evaluated
<1>11. Holds' <=> TwoServersOfGroup(device)
  BY <1>10, HoldsFor
<1> QED BY <1>7, <1>8, <1>9, <1>10, <1>11, PassFor, OpenFor, NothingFor

\* The login banner.
LEMMA BannersJudged ==
  ASSUME BannerCheck
  PROVE  PassIsEarned' /\ OpenIsTrue'
<1> DEFINE L == [header : BOOLEAN, delimits : BOOLEAN, clauses : {{}, {1}, {2}, {1, 2}}]
<1>1. PICK lines \in Small(3, L) : Evaluated("banner", [lines |-> lines], DodBannerPolicy(lines, {1, 2}))
  BY Zenon DEF BannerCheck
<1> DEFINE device == [lines |-> lines]
           found == DodBannerPolicy(lines, {1, 2})
<1>2. type' = "banner" /\ input' = device /\ outcome' = found /\ device.lines = lines
  BY <1>1 DEF Evaluated
<1> HIDE DEF L
<1>3. lines \in Seq(L)
  BY SmallIsSeq
<1>4. found.status = "pass" => Consents(device)
  BY <1>3, BannerIsTrue
<1>5. found = Of("pass", {}, {"banner"}) \/ found = Of("fail", {"banner"}, {})
  BY DEF DodBannerPolicy
<1>6. (\A k \in DOMAIN lines : ~lines[k].header) => found.status = "fail"
  <2> SUFFICES ASSUME \A k \in DOMAIN lines : ~lines[k].header PROVE found.status = "fail"
    OBVIOUS
  <2>1. BannersFrom(lines) = {}
    <3>1. \A b \in BannersFrom(lines) : \E i \in 1..Len(lines) : lines[i].header
      BY DEF BannersFrom
    <3>2. 1..Len(lines) = DOMAIN lines
      BY <1>3
    <3> QED BY <3>1, <3>2
  <2>2. found = Of("fail", {"banner"}, {})
    BY <2>1 DEF DodBannerPolicy
  <2> QED BY <2>2, OfIs
<1> HIDE DEF found, device
<1>7. NothingSeenNothingPassed'
  BY <1>2, <1>6 DEF NothingSeenNothingPassed
<1>8. Holds' <=> Consents(device)
  BY <1>2, HoldsFor
<1>9. found.status = "fail" => found.failed # {} /\ found.failed \cap found.passed = {}
  BY <1>5, OfIs
<1> QED BY <1>2, <1>4, <1>7, <1>8, <1>9, PassFor, OpenFor DEF Specified

\* Exceptions change the status of a result and none of its objects.
LEMMA ExceptionsJudged ==
  ASSUME ExceptionCheck
  PROVE  PassIsEarned' /\ OpenIsTrue'
<1>1. PICK rules \in Small(2, Exceptions), failed \in SUBSET {Object("i1")}, passed \in SUBSET {Object("i2")},
           collected \in SUBSET {"run", "cdp"}, host \in {"h", "g"} :
        LET before == Verdict(failed, passed)
        IN Evaluated("exception", [rules |-> rules, before |-> before, collected |-> collected, host |-> host],
                     Evaluate({"run", "cdp"}, collected, before, rules, host))
  BY Zenon DEF ExceptionCheck
<1> DEFINE before == Verdict(failed, passed)
           after == Evaluate({"run", "cdp"}, collected, before, rules, host)
<1>2. /\ type' = "exception" /\ outcome' = after
      /\ input'.rules = rules /\ input'.collected = collected /\ input'.host = host
  BY <1>1 DEF Evaluated
<1>3. rules \in Seq(Exceptions)
  BY SmallIsSeq
<1>4. failed \cap passed = {}
  BY DEF Object
<1>5. after.failed \cap after.passed = {}
  <2>1. /\ before = Of(IF failed = {} THEN "pass" ELSE "fail", failed, passed)
        /\ Raised = Of("error", {}, {})
    BY DEF Verdict, Raised
  <2> HIDE DEF before
  <2>2. PICK s, f, p : f \cap p = {} /\ after = ApplyExceptions(rules, host, Of(s, f, p))
    <3>1. after = ApplyExceptions(rules, host, before) \/ after = ApplyExceptions(rules, host, Raised)
      BY DEF Evaluate
    <3>2. {} \cap {} = {}
      OBVIOUS
    <3> QED BY <1>4, <2>1, <3>1, <3>2
  <2>3. \E t : after = Of(t, f, p)
    <3>1. after = Of(s, f, p) \/ \E t : after = [Of(s, f, p) EXCEPT !.status = t]
      BY <2>2 DEF ApplyExceptions
    <3>2. \A t : [Of(s, f, p) EXCEPT !.status = t] = Of(t, f, p)
      BY DEF Of
    <3> QED BY <3>1, <3>2
  <2> HIDE DEF after
  <2> QED BY <2>2, <2>3, OfIs
<1>6. ~({"run", "cdp"} \subseteq collected) =>
        \/ after.status = "error"
        \/ \E k \in DOMAIN rules : rules[k].host \in {"*", host} /\ rules[k].type = "*" /\ rules[k].object = "*"
  <2> HIDE DEF before
  <2> QED BY <1>3, ErrorsSurvive
<1> HIDE DEF after
<1>7. ErrorSurvives'
  BY <1>2, <1>6 DEF ErrorSurvives
<1>8. Holds' /\ NothingSeenNothingPassed'
  BY <1>2, HoldsFor, NothingFor
<1>9. PassIsEarned'
  BY <1>2, <1>7, <1>8 DEF PassIsEarned, PassIsSound, PlanSuffices
<1> QED BY <1>2, <1>5, <1>9, OpenFor DEF Specified

\* A plan has every command of the checks that load.
LEMMA PlansJudged ==
  ASSUME PlanCheck
  PROVE  PassIsEarned' /\ OpenIsTrue'
<1>1. PICK checks \in AtMostTwo([commands : SUBSET {<<"run", 1>>, <<"run", 2>>, <<"reload", 1>>},
                                 nested : {{}, {<<"run", 2>>}, {<<"reload", 1>>}}]), all \in BOOLEAN :
        LET picked  == {c \in checks : Loads(Registry, c)}
            planned == PlanCommands(Registry, <<"terminal", 1>>, Registry, picked, all)
        IN Evaluated("plan", [checks |-> {Loaded(Registry, c) : c \in picked}, planned |-> planned], Review)
  BY Zenon DEF PlanCheck
<1> DEFINE picked == {c \in checks : Loads(Registry, c)}
           planned == PlanCommands(Registry, <<"terminal", 1>>, Registry, picked, all)
<1>2. /\ type' = "plan" /\ outcome' = Review
      /\ input'.checks = {Loaded(Registry, c) : c \in picked} /\ input'.planned = planned
  BY <1>1 DEF Evaluated
<1>3. <<"terminal", 1>> \in Registry
  BY DEF Registry
<1> HIDE DEF picked
<1>4. planned \subseteq Registry /\ \A c \in picked : Loaded(Registry, c).commands \subseteq planned
  BY <1>3, PlansSuffice
<1> HIDE DEF planned
<1>5. PlanSuffices'
  BY <1>2, <1>4 DEF PlanSuffices
<1>6. Holds' /\ NothingSeenNothingPassed'
  BY <1>2, HoldsFor, NothingFor
<1>7. PassIsEarned'
  BY <1>2, <1>5, <1>6 DEF PassIsEarned, PassIsSound, ErrorSurvives
<1> QED BY <1>2, <1>7, OpenFor, OtherStatus

\* What is no check comes out neither as a pass nor as Open.
LEMMA OthersJudged ==
  ASSUME Parse \/ Compare
  PROVE  PassIsEarned' /\ OpenIsTrue'
<1>1. outcome'.status = "parsed" /\ type' \notin {"root guard", "pattern", "section", "manual", "management",
                                                  "interface config", "banner", "plan", "exception"}
  <2>1. CASE ParseConfig
    BY <2>1 DEF ParseConfig, Parsed, Evaluated
  <2>2. CASE ParseInterface
    BY <2>2 DEF ParseInterface, Parsed, Evaluated
  <2>3. CASE ParseAcls
    BY <2>3 DEF ParseAcls, Parsed, Evaluated
  <2>4. CASE ParseSnooping
    <3>1. type' \in {"arp output", "dhcp output"}
      BY <2>4 DEF ParseSnooping, Parsed, Evaluated
    <3>2. PICK t, i, v : Parsed(t, i, v)
      BY <2>4, Zenon DEF ParseSnooping
    <3>3. outcome'.status = "parsed"
      BY <3>2 DEF Parsed, Evaluated
    <3> QED BY <3>1, <3>3
  <2>5. CASE ParseTrunks
    <3>1. type' = "trunk output"
      BY <2>5 DEF ParseTrunks, Parsed, Evaluated
    <3>2. PICK t, i, v : Parsed(t, i, v)
      BY <2>5, Zenon DEF ParseTrunks
    <3>3. outcome'.status = "parsed"
      BY <3>2 DEF Parsed, Evaluated
    <3> QED BY <3>1, <3>3
  <2>6. CASE ParseCdp
    <3>1. type' = "cdp output"
      BY <2>6 DEF ParseCdp, Parsed, Evaluated
    <3>2. PICK t, i, v : Parsed(t, i, v)
      BY <2>6, Zenon DEF ParseCdp
    <3>3. outcome'.status = "parsed"
      BY <3>2 DEF Parsed, Evaluated
    <3> QED BY <3>1, <3>3
  <2>7. CASE CompareReleases
    BY <2>7 DEF CompareReleases, Parsed, Evaluated
  <2>8. CASE ComparatorCheck
    BY <2>8 DEF ComparatorCheck, Parsed, Evaluated
  <2>9. CASE CompareAuditRuns
    BY <2>9 DEF CompareAuditRuns, Parsed, Evaluated
  <2>10. CASE CompareHistoricalRuns
    BY <2>10 DEF CompareHistoricalRuns, Parsed, Evaluated
  <2>11. CASE WriteChecklists
    BY <2>11 DEF WriteChecklists, Parsed, Evaluated
  <2>12. CASE RoundTripCklb
    BY <2>12 DEF RoundTripCklb, Parsed, Evaluated
  <2>13. CASE CountResults
    BY <2>13 DEF CountResults, Parsed, Evaluated
  <2>14. CASE CountCompliance
    BY <2>14 DEF CountCompliance, Parsed, Evaluated
  <2> QED BY <2>1, <2>2, <2>3, <2>4, <2>5, <2>6, <2>7, <2>8, <2>9, <2>10, <2>11, <2>12, <2>13, <2>14
          DEF Parse, Compare
<1> QED BY <1>1, OtherFor, NothingFor

\* Every step keeps both properties.
LEMMA ChecksJudged ==
  ASSUME [Next]_vars, PassIsEarned, OpenIsTrue
  PROVE  PassIsEarned' /\ OpenIsTrue'
<1>1. CASE UNCHANGED vars
  BY <1>1, Unchanged
<1>2. CASE Next
  BY <1>2, TrunksJudged, SnoopingJudged, PatternsJudged, SectionsJudged, ManualsJudged, InterfacesJudged, InterfaceConfigsJudged,
     ManagementJudged, LoggingJudged, NtpJudged, RadiusJudged, VtysJudged, RootGuardsJudged, BannersJudged,
     ExceptionsJudged, PlansJudged, OthersJudged DEF Next
<1> QED BY <1>1, <1>2

\* Before a check is evaluated both hold.
LEMMA NothingYet == Init => PassIsEarned /\ OpenIsTrue
<1> SUFFICES ASSUME Init PROVE PassIsEarned /\ OpenIsTrue
  OBVIOUS
<1>1. type = "" /\ outcome.status = "review"
  BY OtherStatus DEF Init
<1>2. Holds /\ NothingSeenNothingPassed
  BY <1>1 DEF Holds, NothingSeenNothingPassed
<1>3. PassIsEarned
  BY <1>1, <1>2 DEF PassIsEarned, PassIsSound, PlanSuffices, ErrorSurvives
<1>4. OpenIsTrue
  BY <1>1 DEF OpenIsTrue, OpenIsReal, OpenIsExplained
<1> QED BY <1>3, <1>4

\* A check passes only on a device that is as the check says, never for lack of something
\* to look at, of output or of a planned command, for any width of an address and any case
\* of the model (CheckEngine.evaluate, plan_commands).
THEOREM PassesAreEarned == Spec => []PassIsEarned
<1>1. PassIsEarned /\ OpenIsTrue /\ [Next]_vars => (PassIsEarned /\ OpenIsTrue)'
  BY ChecksJudged
<1> QED BY NothingYet, <1>1, PTL DEF Spec

\* A check comes out Open only on a device that is not as the check says, and names what is
\* wrong with it, for any width of an address and any case of the model (CheckEngine.evaluate).
THEOREM OpenFindingsAreTrue == Spec => []OpenIsTrue
<1>1. PassIsEarned /\ OpenIsTrue /\ [Next]_vars => (PassIsEarned /\ OpenIsTrue)'
  BY ChecksJudged
<1> QED BY NothingYet, <1>1, PTL DEF Spec

------------------------------------------------------------------------------
(***************************************************************************)
(* Steps.                                                                  *)
(***************************************************************************)
Compared == {"releases", "runs", "history", "checklists", "cklb", "report", "compliance"}

\* What a step is about: one of the comparisons and writers, or something else.
LEMMA Steps ==
  ASSUME Next
  PROVE  \/ CompareReleases \/ CompareAuditRuns \/ CompareHistoricalRuns
         \/ WriteChecklists \/ RoundTripCklb \/ CountResults \/ CountCompliance
         \/ type' \notin Compared
<1>1. TrunkPolicy => type' = "trunk"
  BY DEF TrunkPolicy, Evaluated
<1>2. SnoopingPolicy => type' = "snooping"
  BY DEF SnoopingPolicy, Evaluated
<1>3. PatternPolicy => type' = "pattern"
  BY DEF PatternPolicy, Evaluated
<1>4. SectionPolicy => type' = "section"
  BY DEF SectionPolicy, Evaluated
<1>4a. ManualCheck => type' = "manual"
  BY DEF ManualCheck, Evaluated
<1>5. InterfaceCheck => type' = "interface"
  BY DEF InterfaceCheck, Evaluated
<1>6. InterfaceConfigCheck => type' = "interface config"
  BY DEF InterfaceConfigCheck, Evaluated
<1>7. ManagementCheck => type' = "management"
  BY DEF ManagementCheck, Evaluated
<1>8. AclLoggingCheck => type' = "acl logging"
  BY DEF AclLoggingCheck, Evaluated
<1>9. NtpCheck => type' = "ntp"
  BY DEF NtpCheck, Evaluated
<1>10. RadiusCheck => type' = "radius"
  BY DEF RadiusCheck, Evaluated
<1>11. VtyCheck => type' = "vty"
  BY DEF VtyCheck, Evaluated
<1>12. RootGuardCheck => type' = "root guard"
  BY DEF RootGuardCheck, Evaluated
<1>13. BannerCheck => type' = "banner"
  BY DEF BannerCheck, Evaluated
<1>14. ExceptionCheck => type' = "exception"
  BY DEF ExceptionCheck, Evaluated
<1>15. PlanCheck => type' = "plan"
  BY DEF PlanCheck, Evaluated
<1>16. ComparatorCheck => type' = "comparator"
  BY DEF ComparatorCheck, Parsed, Evaluated
<1>17. Parse => type' \notin Compared
  <2>1. ParseConfig => type' = "config"
    BY DEF ParseConfig, Parsed, Evaluated
  <2>2. ParseInterface => type' = "switchport"
    BY DEF ParseInterface, Parsed, Evaluated
  <2>3. ParseAcls => type' = "acl"
    BY DEF ParseAcls, Parsed, Evaluated
  <2>4. ParseSnooping => type' \in {"arp output", "dhcp output"}
    BY DEF ParseSnooping, Parsed, Evaluated
  <2>5. ParseTrunks => type' = "trunk output"
    BY DEF ParseTrunks, Parsed, Evaluated
  <2>6. ParseCdp => type' = "cdp output"
    BY DEF ParseCdp, Parsed, Evaluated
  <2> QED BY <2>1, <2>2, <2>3, <2>4, <2>5, <2>6 DEF Parse, Compared
<1> QED
  BY <1>1, <1>2, <1>3, <1>4, <1>4a, <1>5, <1>6, <1>7, <1>8, <1>9, <1>10, <1>11, <1>12, <1>13, <1>14, <1>15,
     <1>16, <1>17 DEF Next, Compare, Compared

\* What type of outcome each of them leaves.
LEMMA KindOfStep ==
  /\ CompareReleases => type' = "releases"
  /\ CompareAuditRuns => type' = "runs"
  /\ CompareHistoricalRuns => type' = "history"
  /\ WriteChecklists => type' = "checklists"
  /\ RoundTripCklb => type' = "cklb"
  /\ CountResults => type' = "report"
  /\ CountCompliance => type' = "compliance"
  BY Zenon DEF CompareReleases, CompareAuditRuns, CompareHistoricalRuns, WriteChecklists, RoundTripCklb,
               CountResults, CountCompliance, Parsed, Evaluated

------------------------------------------------------------------------------
(***************************************************************************)
(* Releases: how their rules are matched, by vulnerability, rule and STIG  *)
(* identifier in turn (stig_diff), and in the older tool (stig_comparator).*)
(***************************************************************************)
\* Rules are paired, once, or left; those that are left are what is still to match.
Matched(old, new, m) ==
  /\ m.old \subseteq DOMAIN old /\ m.new \subseteq DOMAIN new
  /\ \A p \in m.pairs : p.old \in DOMAIN old \ m.old /\ p.new \in DOMAIN new \ m.new
  /\ \A i \in DOMAIN old \ m.old : \E p \in m.pairs : p.old = i
  /\ \A j \in DOMAIN new \ m.new : \E p \in m.pairs : p.new = j
  /\ \A p, q \in m.pairs : p.old = q.old \/ p.new = q.new => p = q

\* Rules that are left though they share a value of the field are doubted, both.
Doubted(old, new, m, f) ==
  \A i \in m.old, j \in m.new : old[i][f] = new[j][f] /\ old[i][f] # "" =>
    <<"old", i>> \in m.doubts /\ <<"new", j>> \in m.doubts

Shared0(old, new, m, f) == ({old[i][f] : i \in m.old} \cap {new[j][f] : j \in m.new}) \ {""}

Settled(old, new, m, f) ==
  {v \in Shared0(old, new, m, f) : Settles(Holding(old, m.old, f, v), Holding(new, m.new, f, v))}

\* A pair comes from one value, and a rule is in one pair at most.
LEMMA Once ==
  ASSUME NEW S, IsFiniteSet(S), Cardinality(S) = 1, NEW x \in S, NEW y \in S
  PROVE  x = y
<1>1. \E z : S = {z}
  BY FS_Singleton
<1> QED BY <1>1

\* A value that settles is held once on either side.
LEMMA SettledOnce ==
  ASSUME NEW old, NEW new, NEW m, NEW f, IsFiniteSet(m.old), IsFiniteSet(m.new),
         NEW v \in Settled(old, new, m, f)
  PROVE  /\ \A i, k \in m.old : old[i][f] = v /\ old[k][f] = v => i = k
         /\ \A j, l \in m.new : new[j][f] = v /\ new[l][f] = v => j = l
<1>1. /\ Cardinality(Holding(old, m.old, f, v)) = 1
      /\ Cardinality(Holding(new, m.new, f, v)) = 1
  BY DEF Settled, Settles
<1>2. IsFiniteSet(Holding(old, m.old, f, v)) /\ IsFiniteSet(Holding(new, m.new, f, v))
  BY FS_Subset DEF Holding
<1>3. /\ \A i \in m.old : old[i][f] = v => i \in Holding(old, m.old, f, v)
      /\ \A j \in m.new : new[j][f] = v => j \in Holding(new, m.new, f, v)
  BY DEF Holding
<1> QED
  BY <1>1, <1>2, <1>3, Once

\* A pass keeps a matching, and doubts what it leaves though it shares the field.
LEMMA PassMatches ==
  ASSUME NEW old, NEW new, IsFiniteSet(DOMAIN old), IsFiniteSet(DOMAIN new), NEW m, NEW f,
         Matched(old, new, m), NEW n, n = PairUp(old, new, m, f)
  PROVE  /\ Matched(old, new, n) /\ Doubted(old, new, n, f)
         /\ \A g : Doubted(old, new, m, g) => Doubted(old, new, n, g)
<1> DEFINE settled == Settled(old, new, m, f)
           pairs == {p \in m.old \X m.new : old[p[1]][f] \in settled /\ new[p[2]][f] = old[p[1]][f]}
           record(p) == [old |-> p[1], new |-> p[2], basis |-> f]
           vague == Shared0(old, new, m, f) \ settled
<1>1. /\ n.pairs = m.pairs \cup {record(p) : p \in pairs}
      /\ n.old = m.old \ {p[1] : p \in pairs}
      /\ n.new = m.new \ {p[2] : p \in pairs}
      /\ n.doubts = m.doubts \cup ({"old"} \X {i \in m.old : old[i][f] \in vague})
                             \cup ({"new"} \X {j \in m.new : new[j][f] \in vague})
  BY DEF PairUp, Settled, Shared0
<1>2. IsFiniteSet(m.old) /\ IsFiniteSet(m.new)
  BY FS_Subset DEF Matched
<1>3. \A p \in pairs : /\ p[1] \in m.old /\ p[2] \in m.new /\ p = <<p[1], p[2]>>
                       /\ old[p[1]][f] \in settled /\ new[p[2]][f] = old[p[1]][f]
  OBVIOUS
<1>4. \A p, q \in pairs : p[1] = q[1] \/ p[2] = q[2] => p = q
  <2> TAKE p, q \in pairs
  <2>1. CASE p[1] = q[1]
    <3>1. p[2] = q[2]
      BY <1>2, <1>3, <2>1, SettledOnce
    <3> QED BY <1>3, <2>1, <3>1
  <2>2. CASE p[2] = q[2]
    <3>1. p[1] = q[1]
      BY <1>2, <1>3, <2>2, SettledOnce
    <3> QED BY <1>3, <2>2, <3>1
  <2> QED BY <2>1, <2>2
<1>5. \A p \in pairs : record(p).old = p[1] /\ record(p).new = p[2]
  OBVIOUS
<1>6. settled \subseteq Shared0(old, new, m, f)
  BY DEF Settled
<1>7. ASSUME NEW i \in m.old, NEW j \in m.new, old[i][f] = new[j][f], old[i][f] # ""
      PROVE  old[i][f] \in Shared0(old, new, m, f)
  BY <1>7 DEF Shared0
<1>8. ASSUME NEW i \in m.old, NEW j \in m.new, old[i][f] = new[j][f], old[i][f] \in settled
      PROVE  <<i, j>> \in pairs
  BY <1>8
<1> HIDE DEF settled, pairs, record
<1>9. Matched(old, new, n)
  <2>1. n.old \subseteq DOMAIN old /\ n.new \subseteq DOMAIN new
    BY <1>1 DEF Matched
  <2>2. \A p \in n.pairs : p \in m.pairs \/ \E q \in pairs : p = record(q)
    BY <1>1
  <2>3. \A p \in n.pairs : p.old \in DOMAIN old \ n.old /\ p.new \in DOMAIN new \ n.new
    BY <1>1, <1>3, <1>5, <2>2 DEF Matched
  <2>4. \A i \in DOMAIN old \ n.old : \E p \in n.pairs : p.old = i
    BY <1>1, <1>5 DEF Matched
  <2>5. \A j \in DOMAIN new \ n.new : \E p \in n.pairs : p.new = j
    BY <1>1, <1>5 DEF Matched
  <2>6. \A p, q \in n.pairs : p.old = q.old \/ p.new = q.new => p = q
    <3>1. \A p, q \in m.pairs : p.old = q.old \/ p.new = q.new => p = q
      BY DEF Matched
    <3>2. \A p \in m.pairs, q \in pairs : p.old # record(q).old /\ p.new # record(q).new
      BY <1>3, <1>5 DEF Matched
    <3>3. \A p, q \in pairs : record(p).old = record(q).old \/ record(p).new = record(q).new => p = q
      BY <1>4, <1>5
    <3> QED BY <2>2, <3>1, <3>2, <3>3
  <2> QED BY <2>1, <2>3, <2>4, <2>5, <2>6 DEF Matched
<1>10. Doubted(old, new, n, f)
  <2> SUFFICES ASSUME NEW i \in n.old, NEW j \in n.new, old[i][f] = new[j][f], old[i][f] # ""
               PROVE  <<"old", i>> \in n.doubts /\ <<"new", j>> \in n.doubts
    BY DEF Doubted
  <2>1. i \in m.old /\ j \in m.new
    BY <1>1
  <2>2. old[i][f] \notin settled
    <3> SUFFICES ASSUME old[i][f] \in settled PROVE FALSE
      OBVIOUS
    <3>1. <<i, j>> \in pairs
      BY <1>8, <2>1
    <3>2. <<i, j>>[1] = i
      OBVIOUS
    <3> QED BY <1>1, <3>1, <3>2
  <2>3. old[i][f] \in vague /\ new[j][f] \in vague
    BY <1>7, <2>1, <2>2
  <2> QED BY <1>1, <2>1, <2>3
<1>11. ASSUME NEW g, Doubted(old, new, m, g) PROVE Doubted(old, new, n, g)
  BY <1>1, <1>11 DEF Doubted
<1> QED
  BY <1>9, <1>10, <1>11

\* After the three passes the rules of both releases are paired or left, and those
\* that share an identifier and are left are doubted.
LEMMA MatchingMatches ==
  ASSUME NEW old, NEW new, IsFiniteSet(DOMAIN old), IsFiniteSet(DOMAIN new), NEW fields,
         NEW m, m = Matching(old, new, fields)
  PROVE  Matched(old, new, m) /\ \A k \in {1, 2, 3} : Doubted(old, new, m, fields[k])
<1> DEFINE before == [pairs |-> {}, old |-> DOMAIN old, new |-> DOMAIN new, doubts |-> {}]
           first  == PairUp(old, new, before, fields[1])
           second == PairUp(old, new, first, fields[2])
<1>1. m = PairUp(old, new, second, fields[3])
  BY DEF Matching
<1>2. Matched(old, new, before)
  BY DEF Matched
<1> HIDE DEF before
<1>3. Matched(old, new, first) /\ Doubted(old, new, first, fields[1])
  BY <1>2, PassMatches
<1> HIDE DEF first
<1>4. Matched(old, new, second) /\ Doubted(old, new, second, fields[1]) /\ Doubted(old, new, second, fields[2])
  BY <1>3, PassMatches
<1> HIDE DEF second
<1> QED
  BY <1>1, <1>4, PassMatches

\* A set with one member.
LEMMA Single ==
  ASSUME NEW S, NEW x \in S, \A y \in S : y = x
  PROVE  Cardinality(S) = 1
<1>1. S = {x}
  OBVIOUS
<1> QED BY <1>1, FS_Singleton

\* The three passes, one after the other.
LEMMA ThreeFields ==
  /\ MatchFields[1] = "vuln_id" /\ MatchFields[2] = "rule_id" /\ MatchFields[3] = "stig_id"
  /\ \A f \in ToSet(MatchFields) : \E k \in {1, 2, 3} : f = MatchFields[k]
  BY DEF MatchFields, ToSet

\* A diff of any two releases has every rule of both exactly once; rules that are
\* said to be added and removed though they share an identifier are both ambiguous
\* (_match_rules, compare).
THEOREM DiffIsComplete ==
  ASSUME NEW R, NEW old \in Seq(R), NEW new \in Seq(R), NEW items, items = ReleaseDiff(old, new)
  PROVE  /\ Partitioned(items, old, new)
         /\ \A x, y \in items :
              x.old = 0 /\ y.new = 0 /\ Shared(new[x.new], old[y.old]) => x.ambiguous /\ y.ambiguous
<1> DEFINE m == Matching(old, new, MatchFields)
           Paired(p)  == [change |-> IF FieldDiffs(old[p.old], new[p.new]) = {} THEN "UNCHANGED" ELSE "CHANGED",
                          old |-> p.old, new |-> p.new, ambiguous |-> FALSE]
           Removed(i) == [change |-> "REMOVED", old |-> i, new |-> 0, ambiguous |-> <<"old", i>> \in m.doubts]
           Added(j)   == [change |-> "ADDED", old |-> 0, new |-> j, ambiguous |-> <<"new", j>> \in m.doubts]
<1>1. /\ DOMAIN old = 1..Len(old) /\ DOMAIN new = 1..Len(new) /\ Len(old) \in Nat /\ Len(new) \in Nat
      /\ IsFiniteSet(DOMAIN old) /\ IsFiniteSet(DOMAIN new)
  BY FS_Interval
<1>2. Matched(old, new, m) /\ \A k \in {1, 2, 3} : Doubted(old, new, m, MatchFields[k])
  BY <1>1, MatchingMatches
<1> HIDE DEF m
<1>3. \A x : x \in items <=> \/ \E p \in m.pairs : x = Paired(p)
                             \/ \E i \in m.old : x = Removed(i)
                             \/ \E j \in m.new : x = Added(j)
  BY Zenon DEF m, ReleaseDiff
<1>4. /\ \A p : Paired(p).old = p.old /\ Paired(p).new = p.new
      /\ \A i : Removed(i).old = i /\ Removed(i).new = 0 /\ Removed(i).ambiguous = (<<"old", i>> \in m.doubts)
      /\ \A j : Added(j).old = 0 /\ Added(j).new = j /\ Added(j).ambiguous = (<<"new", j>> \in m.doubts)
  OBVIOUS
<1>5. \A i \in DOMAIN old \cup DOMAIN new : i # 0
  BY <1>1
<1> HIDE DEF Paired, Removed, Added
<1>6. ASSUME NEW i \in DOMAIN old PROVE Cardinality({x \in items : x.old = i}) = 1
  <2>1. CASE i \in m.old
    <3>1. Removed(i) \in items /\ Removed(i).old = i
      BY <1>3, <1>4, <2>1
    <3>2. ASSUME NEW x \in items, x.old = i PROVE x = Removed(i)
      <4>1. \A p \in m.pairs : p.old # i
        BY <1>2, <2>1 DEF Matched
      <4> QED BY <1>3, <1>4, <1>5, <3>2, <4>1
    <3> QED BY <3>1, <3>2, Single
  <2>2. CASE i \notin m.old
    <3>1. PICK p \in m.pairs : p.old = i
      BY <1>2, <2>2 DEF Matched
    <3>2. Paired(p) \in items /\ Paired(p).old = i
      BY <1>3, <1>4, <3>1
    <3>3. ASSUME NEW x \in items, x.old = i PROVE x = Paired(p)
      <4>1. \A q \in m.pairs : q.old = i => q = p
        BY <1>2, <3>1 DEF Matched
      <4> QED BY <1>3, <1>4, <1>5, <2>2, <3>3, <4>1
    <3> QED BY <3>2, <3>3, Single
  <2> QED BY <2>1, <2>2
<1>7. ASSUME NEW j \in DOMAIN new PROVE Cardinality({x \in items : x.new = j}) = 1
  <2>1. CASE j \in m.new
    <3>1. Added(j) \in items /\ Added(j).new = j
      BY <1>3, <1>4, <2>1
    <3>2. ASSUME NEW x \in items, x.new = j PROVE x = Added(j)
      <4>1. \A p \in m.pairs : p.new # j
        BY <1>2, <2>1 DEF Matched
      <4> QED BY <1>3, <1>4, <1>5, <3>2, <4>1
    <3> QED BY <3>1, <3>2, Single
  <2>2. CASE j \notin m.new
    <3>1. PICK p \in m.pairs : p.new = j
      BY <1>2, <2>2 DEF Matched
    <3>2. Paired(p) \in items /\ Paired(p).new = j
      BY <1>3, <1>4, <3>1
    <3>3. ASSUME NEW x \in items, x.new = j PROVE x = Paired(p)
      <4>1. \A q \in m.pairs : q.new = j => q = p
        BY <1>2, <3>1 DEF Matched
      <4> QED BY <1>3, <1>4, <1>5, <2>2, <3>3, <4>1
    <3> QED BY <3>2, <3>3, Single
  <2> QED BY <2>1, <2>2
<1>8. ASSUME NEW x \in items, NEW y \in items, x.old = 0, y.new = 0, Shared(new[x.new], old[y.old])
      PROVE  x.ambiguous /\ y.ambiguous
  <2>1. \A p \in m.pairs : p.old # 0 /\ p.new # 0
    BY <1>2, <1>5 DEF Matched
  <2>2. m.old \subseteq DOMAIN old /\ m.new \subseteq DOMAIN new
    BY <1>2 DEF Matched
  <2>3. PICK j \in m.new : x = Added(j)
    BY <1>3, <1>4, <1>5, <1>8, <2>1, <2>2
  <2>4. PICK i \in m.old : y = Removed(i)
    BY <1>3, <1>4, <1>5, <1>8, <2>1, <2>2
  <2>5. x.new = j /\ y.old = i
    BY <1>4, <2>3, <2>4
  <2>6. PICK f \in ToSet(MatchFields) : new[j][f] = old[i][f] /\ new[j][f] # ""
    BY <1>8, <2>5 DEF Shared
  <2>7. PICK k \in {1, 2, 3} : f = MatchFields[k]
    BY ThreeFields
  <2>8. Doubted(old, new, m, f)
    BY <1>2, <2>7
  <2>9. <<"old", i>> \in m.doubts /\ <<"new", j>> \in m.doubts
    BY <2>6, <2>8 DEF Doubted
  <2> QED BY <1>4, <2>3, <2>4, <2>9
<1> QED
  BY <1>6, <1>7, <1>8 DEF Partitioned

\* Two matchings that are each other's with the releases exchanged.
Mirror(m, n) ==
  /\ n.old = m.new /\ n.new = m.old
  /\ \A p \in m.pairs : \E q \in n.pairs : q.old = p.new /\ q.new = p.old
  /\ \A q \in n.pairs : \E p \in m.pairs : q.old = p.new /\ q.new = p.old
  /\ \A i : <<"old", i>> \in m.doubts <=> <<"new", i>> \in n.doubts
  /\ \A j : <<"new", j>> \in m.doubts <=> <<"old", j>> \in n.doubts

\* A pass over a field, and all three, tell the same the other way round.
LEMMA PassMirrors ==
  ASSUME NEW old, NEW new, NEW m, NEW n, Mirror(m, n), NEW f,
         NEW x, x = PairUp(old, new, m, f), NEW y, y = PairUp(new, old, n, f)
  PROVE  Mirror(x, y)
<1> DEFINE there == {p \in m.old \X m.new : old[p[1]][f] \in Settled(old, new, m, f) /\ new[p[2]][f] = old[p[1]][f]}
           back  == {p \in n.old \X n.new : new[p[1]][f] \in Settled(new, old, n, f) /\ old[p[2]][f] = new[p[1]][f]}
           record(p) == [old |-> p[1], new |-> p[2], basis |-> f]
           vague == Shared0(old, new, m, f) \ Settled(old, new, m, f)
           vogue == Shared0(new, old, n, f) \ Settled(new, old, n, f)
<1>1. /\ x.pairs = m.pairs \cup {record(p) : p \in there}
      /\ x.old = m.old \ {p[1] : p \in there} /\ x.new = m.new \ {p[2] : p \in there}
      /\ x.doubts = m.doubts \cup ({"old"} \X {i \in m.old : old[i][f] \in vague})
                             \cup ({"new"} \X {j \in m.new : new[j][f] \in vague})
  BY DEF PairUp, Settled, Shared0
<1>2. /\ y.pairs = n.pairs \cup {record(p) : p \in back}
      /\ y.old = n.old \ {p[1] : p \in back} /\ y.new = n.new \ {p[2] : p \in back}
      /\ y.doubts = n.doubts \cup ({"old"} \X {i \in n.old : new[i][f] \in vogue})
                             \cup ({"new"} \X {j \in n.new : old[j][f] \in vogue})
  BY DEF PairUp, Settled, Shared0
<1>3. n.old = m.new /\ n.new = m.old
  BY DEF Mirror
<1>4. Shared0(new, old, n, f) = Shared0(old, new, m, f) /\ Settled(new, old, n, f) = Settled(old, new, m, f)
  <2>1. Shared0(new, old, n, f) = Shared0(old, new, m, f)
    BY <1>3 DEF Shared0
  <2> QED BY <1>3, <2>1 DEF Settled, Settles
<1>5. /\ \A p \in there : \E q \in back : q[1] = p[2] /\ q[2] = p[1]
      /\ \A q \in back : \E p \in there : q[1] = p[2] /\ q[2] = p[1]
  <2>1. ASSUME NEW p \in there PROVE \E q \in back : q[1] = p[2] /\ q[2] = p[1]
    <3>1. <<p[2], p[1]>> \in back /\ <<p[2], p[1]>>[1] = p[2] /\ <<p[2], p[1]>>[2] = p[1]
      BY <1>3, <1>4
    <3> QED BY <3>1
  <2>2. ASSUME NEW q \in back PROVE \E p \in there : q[1] = p[2] /\ q[2] = p[1]
    <3>1. <<q[2], q[1]>> \in there /\ <<q[2], q[1]>>[1] = q[2] /\ <<q[2], q[1]>>[2] = q[1]
      BY <1>3, <1>4
    <3> QED BY <3>1
  <2> QED BY <2>1, <2>2
<1>6. \A p : record(p).old = p[1] /\ record(p).new = p[2]
  OBVIOUS
<1>7. vogue = vague
  BY <1>4
<1> HIDE DEF there, back, record, vague, vogue
<1>8. y.old = x.new /\ y.new = x.old
  BY <1>1, <1>2, <1>3, <1>5
<1>9. \A p \in x.pairs : \E q \in y.pairs : q.old = p.new /\ q.new = p.old
  <2>1. ASSUME NEW p \in m.pairs PROVE \E q \in y.pairs : q.old = p.new /\ q.new = p.old
    BY <1>2 DEF Mirror
  <2>2. ASSUME NEW p \in there PROVE \E q \in y.pairs : q.old = record(p).new /\ q.new = record(p).old
    BY <1>2, <1>5, <1>6
  <2> QED BY <1>1, <2>1, <2>2
<1>10. \A q \in y.pairs : \E p \in x.pairs : q.old = p.new /\ q.new = p.old
  <2>1. ASSUME NEW q \in n.pairs PROVE \E p \in x.pairs : q.old = p.new /\ q.new = p.old
    BY <1>1 DEF Mirror
  <2>2. ASSUME NEW q \in back PROVE \E p \in x.pairs : record(q).old = p.new /\ record(q).new = p.old
    BY <1>1, <1>5, <1>6
  <2> QED BY <1>2, <2>1, <2>2
<1>11. \A i : <<"old", i>> \in x.doubts <=> <<"new", i>> \in y.doubts
  <2> TAKE i
  <2>1. <<"old", i>> \in x.doubts <=> <<"old", i>> \in m.doubts \/ (i \in m.old /\ old[i][f] \in vague)
    BY <1>1
  <2>2. <<"new", i>> \in y.doubts <=> <<"new", i>> \in n.doubts \/ (i \in n.new /\ old[i][f] \in vogue)
    BY <1>2
  <2> QED BY <2>1, <2>2, <1>3, <1>7 DEF Mirror
<1>12. \A j : <<"new", j>> \in x.doubts <=> <<"old", j>> \in y.doubts
  <2> TAKE j
  <2>1. <<"new", j>> \in x.doubts <=> <<"new", j>> \in m.doubts \/ (j \in m.new /\ new[j][f] \in vague)
    BY <1>1
  <2>2. <<"old", j>> \in y.doubts <=> <<"old", j>> \in n.doubts \/ (j \in n.old /\ new[j][f] \in vogue)
    BY <1>2
  <2> QED BY <2>1, <2>2, <1>3, <1>7 DEF Mirror
<1> QED
  BY <1>8, <1>9, <1>10, <1>11, <1>12 DEF Mirror

\* Comparing two releases the other way round pairs the same rules.
LEMMA MatchingMirrors ==
  ASSUME NEW old, NEW new, NEW fields
  PROVE  Mirror(Matching(old, new, fields), Matching(new, old, fields))
<1> DEFINE start(a, b) == [pairs |-> {}, old |-> DOMAIN a, new |-> DOMAIN b, doubts |-> {}]
           first(a, b)  == PairUp(a, b, start(a, b), fields[1])
           second(a, b) == PairUp(a, b, first(a, b), fields[2])
<1>1. \A a, b : Matching(a, b, fields) = PairUp(a, b, second(a, b), fields[3])
  BY DEF Matching
<1>2. Mirror(start(old, new), start(new, old))
  BY DEF Mirror
<1> HIDE DEF start
<1>3. Mirror(first(old, new), first(new, old))
  BY <1>2, PassMirrors
<1> HIDE DEF first
<1>4. Mirror(second(old, new), second(new, old))
  BY <1>3, PassMirrors
<1> HIDE DEF second
<1> QED
  BY <1>1, <1>4, PassMirrors

\* Comparing the other way round tells the same, added for removed
\* and removed for added (compare).
THEOREM DiffIsMirrored ==
  ASSUME NEW old, NEW new
  PROVE  ReleaseDiff(new, old) =
           {[change |-> Mirrored(x.change), old |-> x.new, new |-> x.old, ambiguous |-> x.ambiguous] :
              x \in ReleaseDiff(old, new)}
<1> DEFINE m == Matching(old, new, MatchFields)
           n == Matching(new, old, MatchFields)
           Change(a, b) == IF FieldDiffs(a, b) = {} THEN "UNCHANGED" ELSE "CHANGED"
           Paired(p)  == [change |-> Change(old[p.old], new[p.new]), old |-> p.old, new |-> p.new, ambiguous |-> FALSE]
           Removed(i) == [change |-> "REMOVED", old |-> i, new |-> 0, ambiguous |-> <<"old", i>> \in m.doubts]
           Added(j)   == [change |-> "ADDED", old |-> 0, new |-> j, ambiguous |-> <<"new", j>> \in m.doubts]
           Joint(p)   == [change |-> Change(new[p.old], old[p.new]), old |-> p.old, new |-> p.new, ambiguous |-> FALSE]
           Dropped(j)  == [change |-> "REMOVED", old |-> j, new |-> 0, ambiguous |-> <<"old", j>> \in n.doubts]
           Gained(i)   == [change |-> "ADDED", old |-> 0, new |-> i, ambiguous |-> <<"new", i>> \in n.doubts]
           turned(x)   == [change |-> Mirrored(x.change), old |-> x.new, new |-> x.old, ambiguous |-> x.ambiguous]
<1>1. Mirror(m, n)
  BY MatchingMirrors
<1> HIDE DEF m, n
<1>2. ReleaseDiff(old, new) = {Paired(p) : p \in m.pairs} \cup {Removed(i) : i \in m.old} \cup {Added(j) : j \in m.new}
  BY Zenon DEF m, ReleaseDiff
<1>3. ReleaseDiff(new, old) = {Joint(p) : p \in n.pairs} \cup {Dropped(j) : j \in n.old} \cup {Gained(i) : i \in n.new}
  BY Zenon DEF n, ReleaseDiff
<1>4. \A a, b : Change(a, b) = Change(b, a) /\ Change(a, b) \in {"UNCHANGED", "CHANGED"}
  BY DEF FieldDiffs
<1>5. \A c \in {"UNCHANGED", "CHANGED"} : Mirrored(c) = c
  BY DEF Mirrored
<1>6. Mirrored("REMOVED") = "ADDED" /\ Mirrored("ADDED") = "REMOVED"
  BY DEF Mirrored
<1>7. ASSUME NEW p, NEW q, q.old = p.new, q.new = p.old PROVE turned(Paired(p)) = Joint(q)
  <2>1. Change(new[q.old], old[q.new]) = Mirrored(Change(old[p.old], new[p.new]))
    BY <1>4, <1>5, <1>7
  <2> HIDE DEF Change
  <2> QED BY <2>1, <1>7
<1>8. \A i : turned(Removed(i)) = Gained(i)
  <2> TAKE i
  <2>1. (<<"old", i>> \in m.doubts) = (<<"new", i>> \in n.doubts)
    BY <1>1 DEF Mirror
  <2> QED BY <1>6, <2>1
<1>9. \A j : turned(Added(j)) = Dropped(j)
  <2> TAKE j
  <2>1. (<<"new", j>> \in m.doubts) = (<<"old", j>> \in n.doubts)
    BY <1>1 DEF Mirror
  <2> QED BY <1>6, <2>1
<1> HIDE DEF Paired, Removed, Added, Joint, Dropped, Gained, turned
<1>10. ASSUME NEW x \in ReleaseDiff(old, new) PROVE turned(x) \in ReleaseDiff(new, old)
  BY <1>1, <1>2, <1>3, <1>7, <1>8, <1>9 DEF Mirror
<1>11. ASSUME NEW y \in ReleaseDiff(new, old) PROVE \E x \in ReleaseDiff(old, new) : y = turned(x)
  BY <1>1, <1>2, <1>3, <1>7, <1>8, <1>9 DEF Mirror
<1>12. ReleaseDiff(new, old) = {turned(x) : x \in ReleaseDiff(old, new)}
  BY <1>10, <1>11
<1> QED
  BY <1>12 DEF turned

\* Sets that correspond one to one have as many members.
LEMMA SameCount ==
  ASSUME NEW S, NEW T, IsFiniteSet(T), NEW g \in [S -> T],
         \A a, b \in S : g[a] = g[b] => a = b, \A t \in T : \E s \in S : g[s] = t
  PROVE  IsFiniteSet(S) /\ Cardinality(S) = Cardinality(T)
<1>1. g \in Injection(S, T) /\ g \in Surjection(S, T)
  BY DEF Injection, Surjection, IsInjective
<1> QED BY <1>1, FS_Injection

\* Pairs of the same rule and the changes of the older tool add up to a release.
LEMMA AddsUp ==
  ASSUME NEW D, IsFiniteSet(D), NEW same, NEW changes, NEW f \in [same -> D], NEW g \in [changes -> D],
         \A a, b \in same : f[a] = f[b] => a = b,
         \A a, b \in changes : g[a] = g[b] => a = b,
         \A a \in same, b \in changes : f[a] # g[b],
         \A i \in D : (\E a \in same : f[a] = i) \/ (\E b \in changes : g[b] = i)
  PROVE  Cardinality(same) + Cardinality(changes) = Cardinality(D)
<1> DEFINE X == {i \in D : \E a \in same : f[a] = i}
           Y == D \ X
<1>1. IsFiniteSet(X) /\ IsFiniteSet(Y)
  BY FS_Subset
<1>2. Cardinality(same) = Cardinality(X)
  <2>1. f \in [same -> X]
    OBVIOUS
  <2> QED BY <1>1, <2>1, SameCount
<1>3. Cardinality(changes) = Cardinality(Y)
  <2>1. g \in [changes -> Y]
    OBVIOUS
  <2>2. \A t \in Y : \E s \in changes : g[s] = t
    OBVIOUS
  <2> HIDE DEF Y
  <2> QED BY <1>1, <2>1, <2>2, SameCount
<1>4. Cardinality(Y) = Cardinality(D) - Cardinality(X)
  <2>1. D \cap X = X
    OBVIOUS
  <2> QED BY <2>1, FS_Difference
<1>5. Cardinality(X) \in Nat /\ Cardinality(D) \in Nat
  BY <1>1, FS_CardinalityType
<1> QED BY <1>2, <1>3, <1>4, <1>5

\* The older tool, too, accounts for every rule of both releases once, as unchanged
\* or in one change (compare_stig_metadata).
THEOREM ChangesAreComplete ==
  ASSUME NEW R, NEW old \in Seq(R), NEW new \in Seq(R)
  PROVE  /\ UnchangedCount(old, new) + Cardinality({c \in ChangesBetween(old, new) : c.old # 0}) = Len(old)
         /\ UnchangedCount(old, new) + Cardinality({c \in ChangesBetween(old, new) : c.new # 0}) = Len(new)
<1> DEFINE m == Matching(old, new, ComparatorFields)
           same == {q \in m.pairs : old[q.old] = new[q.new]}
           Changed(p) == [kind |-> "Changed", old |-> p.old, new |-> p.new]
           Removed(i) == [kind |-> "Removed", old |-> i, new |-> 0]
           Added(j)   == [kind |-> "Added", old |-> 0, new |-> j]
           changes == ChangesBetween(old, new)
<1>1. /\ DOMAIN old = 1..Len(old) /\ DOMAIN new = 1..Len(new) /\ Len(old) \in Nat /\ Len(new) \in Nat
      /\ IsFiniteSet(DOMAIN old) /\ IsFiniteSet(DOMAIN new)
      /\ Cardinality(DOMAIN old) = Len(old) /\ Cardinality(DOMAIN new) = Len(new)
  <2>1. DOMAIN old = 1..Len(old) /\ DOMAIN new = 1..Len(new) /\ Len(old) \in Nat /\ Len(new) \in Nat
    OBVIOUS
  <2>2. \A n \in Nat : IsFiniteSet(1..n) /\ Cardinality(1..n) = n
    BY FS_Interval
  <2> QED BY <2>1, <2>2
<1>2. Matched(old, new, m)
  BY <1>1, MatchingMatches
<1> HIDE DEF m
<1>3. \A c : c \in changes <=> \/ \E p \in m.pairs : old[p.old] # new[p.new] /\ c = Changed(p)
                               \/ \E i \in m.old : c = Removed(i)
                               \/ \E j \in m.new : c = Added(j)
  BY Zenon DEF m, ChangesBetween
<1>4. UnchangedCount(old, new) = Cardinality(same)
  BY Zenon DEF m, UnchangedCount
<1>5. /\ \A p : Changed(p).old = p.old /\ Changed(p).new = p.new
      /\ \A i : Removed(i).old = i /\ Removed(i).new = 0
      /\ \A j : Added(j).old = 0 /\ Added(j).new = j
  OBVIOUS
<1>6. \A i \in DOMAIN old \cup DOMAIN new : i # 0
  BY <1>1
<1> HIDE DEF Changed, Removed, Added, changes
<1>7. ASSUME NEW c \in changes
      PROVE  /\ c.old # 0 => \/ c.old \in m.old /\ c = Removed(c.old)
                             \/ \E p \in m.pairs : old[p.old] # new[p.new] /\ c = Changed(p) /\ c.old = p.old
             /\ c.new # 0 => \/ c.new \in m.new /\ c = Added(c.new)
                             \/ \E p \in m.pairs : old[p.old] # new[p.new] /\ c = Changed(p) /\ c.new = p.new
  BY <1>3, <1>5
<1>8. Cardinality(same) + Cardinality({c \in changes : c.old # 0}) = Cardinality(DOMAIN old)
  <2> DEFINE those == {c \in changes : c.old # 0}
             f == [q \in same |-> q.old]
             g == [c \in those |-> c.old]
  <2>1. f \in [same -> DOMAIN old]
    BY <1>2 DEF Matched
  <2>2. \A c \in those : \/ c.old \in m.old /\ c = Removed(c.old)
                         \/ \E p \in m.pairs : old[p.old] # new[p.new] /\ c = Changed(p) /\ c.old = p.old
    BY <1>7
  <2>3. \A c \in those : c.old \in DOMAIN old
    BY <1>2, <2>2 DEF Matched
  <2>4. \A a, b \in same : f[a] = f[b] => a = b
    BY <1>2 DEF Matched
  <2>5. \A a, b \in those : a.old = b.old => a = b
    <3> HIDE DEF those
    <3> QED BY <1>2, <2>2 DEF Matched
  <2>6. \A a \in same, b \in those : a.old # b.old
    <3>1. \A a \in same : a \in m.pairs /\ old[a.old] = new[a.new]
      OBVIOUS
    <3> HIDE DEF those, same
    <3> QED BY <1>2, <2>2, <3>1 DEF Matched
  <2>7. ASSUME NEW i \in DOMAIN old PROVE (\E a \in same : a.old = i) \/ (\E b \in those : b.old = i)
    <3>1. CASE i \in m.old
      <4>1. Removed(i) \in those /\ Removed(i).old = i
        BY <1>3, <1>5, <1>6, <3>1
      <4> QED BY <4>1
    <3>2. CASE i \notin m.old
      <4>1. PICK p \in m.pairs : p.old = i
        BY <1>2, <3>2 DEF Matched
      <4>2. CASE old[p.old] = new[p.new]
        BY <4>1, <4>2
      <4>3. CASE old[p.old] # new[p.new]
        <5>1. Changed(p) \in those /\ Changed(p).old = i
          BY <1>3, <1>5, <1>6, <4>1, <4>3
        <5> QED BY <5>1
      <4> QED BY <4>2, <4>3
    <3> QED BY <3>1, <3>2
  <2>8. g \in [those -> DOMAIN old]
    BY <2>3
  <2>9. /\ \A a \in same : f[a] = a.old
        /\ \A c \in those : g[c] = c.old
    OBVIOUS
  <2>10. Cardinality(same) + Cardinality(those) = Cardinality(DOMAIN old)
    <3> HIDE DEF those, same, f, g
    <3>1. \A a, b \in those : g[a] = g[b] => a = b
      BY <2>5, <2>9
    <3>2. \A a \in same, b \in those : f[a] # g[b]
      BY <2>6, <2>9
    <3>3. \A i \in DOMAIN old : (\E a \in same : f[a] = i) \/ (\E b \in those : g[b] = i)
      BY <2>7, <2>9
    <3>4. IsFiniteSet(DOMAIN old)
      BY <1>1
    <3> QED BY <2>1, <2>4, <2>8, <3>1, <3>2, <3>3, <3>4, AddsUp, Zenon
  <2> QED BY <2>10
<1>9. Cardinality(same) + Cardinality({c \in changes : c.new # 0}) = Cardinality(DOMAIN new)
  <2> DEFINE those == {c \in changes : c.new # 0}
             f == [q \in same |-> q.new]
             g == [c \in those |-> c.new]
  <2>1. f \in [same -> DOMAIN new]
    BY <1>2 DEF Matched
  <2>2. \A c \in those : \/ c.new \in m.new /\ c = Added(c.new)
                         \/ \E p \in m.pairs : old[p.old] # new[p.new] /\ c = Changed(p) /\ c.new = p.new
    BY <1>7
  <2>3. \A c \in those : c.new \in DOMAIN new
    BY <1>2, <2>2 DEF Matched
  <2>4. \A a, b \in same : f[a] = f[b] => a = b
    BY <1>2 DEF Matched
  <2>5. \A a, b \in those : a.new = b.new => a = b
    <3> HIDE DEF those
    <3> QED BY <1>2, <2>2 DEF Matched
  <2>6. \A a \in same, b \in those : a.new # b.new
    <3>1. \A a \in same : a \in m.pairs /\ old[a.old] = new[a.new]
      OBVIOUS
    <3> HIDE DEF those, same
    <3> QED BY <1>2, <2>2, <3>1 DEF Matched
  <2>7. ASSUME NEW j \in DOMAIN new PROVE (\E a \in same : a.new = j) \/ (\E b \in those : b.new = j)
    <3>1. CASE j \in m.new
      <4>1. Added(j) \in those /\ Added(j).new = j
        BY <1>3, <1>5, <1>6, <3>1
      <4> QED BY <4>1
    <3>2. CASE j \notin m.new
      <4>1. PICK p \in m.pairs : p.new = j
        BY <1>2, <3>2 DEF Matched
      <4>2. CASE old[p.old] = new[p.new]
        BY <4>1, <4>2
      <4>3. CASE old[p.old] # new[p.new]
        <5>1. Changed(p) \in those /\ Changed(p).new = j
          BY <1>3, <1>5, <1>6, <4>1, <4>3
        <5> QED BY <5>1
      <4> QED BY <4>2, <4>3
    <3> QED BY <3>1, <3>2
  <2>8. g \in [those -> DOMAIN new]
    BY <2>3
  <2>9. /\ \A a \in same : f[a] = a.new
        /\ \A c \in those : g[c] = c.new
    OBVIOUS
  <2>10. Cardinality(same) + Cardinality(those) = Cardinality(DOMAIN new)
    <3> HIDE DEF those, same, f, g
    <3>1. \A a, b \in those : g[a] = g[b] => a = b
      BY <2>5, <2>9
    <3>2. \A a \in same, b \in those : f[a] # g[b]
      BY <2>6, <2>9
    <3>3. \A i \in DOMAIN new : (\E a \in same : f[a] = i) \/ (\E b \in those : g[b] = i)
      BY <2>7, <2>9
    <3>4. IsFiniteSet(DOMAIN new)
      BY <1>1
    <3> QED BY <2>1, <2>4, <2>8, <3>1, <3>2, <3>3, <3>4, AddsUp, Zenon
  <2> QED BY <2>10
<1> QED
  <2> HIDE DEF same
  <2> QED BY <1>1, <1>4, <1>8, <1>9 DEF changes

\* What the older tool compares.
LEMMA Domains ==
  ASSUME NEW R, NEW s \in Seq(R)
  PROVE  /\ DOMAIN s = 1..Len(s) /\ Len(s) \in Nat /\ 0 \notin DOMAIN s
         /\ IsFiniteSet(DOMAIN s) /\ Cardinality(DOMAIN s) = Len(s)
<1>1. DOMAIN s = 1..Len(s) /\ Len(s) \in Nat /\ 0 \notin DOMAIN s
  OBVIOUS
<1>2. \A n \in Nat : IsFiniteSet(1..n) /\ Cardinality(1..n) = n
  BY FS_Interval
<1> QED BY <1>1, <1>2

\* A set whose members are equal has one at most.
LEMMA OneAtMost ==
  ASSUME NEW S, IsFiniteSet(S), NEW c \in S, ~(Cardinality(S) > 1)
  PROVE  S = {c}
<1>1. Cardinality(S) \in Nat /\ Cardinality(S) # 0
  BY FS_CardinalityType, FS_EmptySet
<1>2. Cardinality(S) = 1
  BY <1>1
<1>3. PICK z : S = {z}
  BY <1>2, FS_Singleton
<1> QED BY <1>3

\* An automated or manual check of a rule that is new or whose text changed is put
\* to review, or the item is called ambiguous (analyze_yaml_impact).
THEOREM ChangedTextIsReviewed ==
  ASSUME NEW R, NEW old \in Seq(R), NEW new \in Seq(R), NEW item \in ReleaseDiff(old, new), item.new # 0,
         NEW checks, IsFiniteSet(checks), NEW c \in checks, c.vuln_id # "",
         new[item.new].vuln_id = c.vuln_id,
         item.old # 0 => old[item.old].check_text # new[item.new].check_text
  PROVE  Impact(item, old, new, checks) \in
           {"AMBIGUOUS_MAPPING", ReviewAsked(c.manual)}
<1> DEFINE rules == RulesOf(item, old, new)
           under(f) == {k \in checks : k[f] \in {r[f] : r \in rules} \ {""}}
           mapped == MatchMappings(rules, checks)
           changed == ChangedFields(item, old, new)
<1>1. c \in under("vuln_id")
  <2>1. new[item.new] \in rules
    BY DEF RulesOf
  <2>2. c["vuln_id"] = c.vuln_id /\ new[item.new]["vuln_id"] = new[item.new].vuln_id
    OBVIOUS
  <2> HIDE DEF rules
  <2> QED BY <2>1, <2>2
<1>2. mapped = under("vuln_id")
  <2>1. under("vuln_id") # {}
    BY <1>1
  <2> QED BY <2>1, Zenon DEF MatchMappings
<1>3. c \in mapped /\ IsFiniteSet(mapped)
  <2>1. mapped \subseteq checks
    BY <1>2
  <2> HIDE DEF mapped, under
  <2> QED BY <1>1, <1>2, <2>1, FS_Subset
<1>4. \/ item.old = 0 /\ item.change = "ADDED"
      \/ item.old # 0 /\ item.change = "CHANGED" /\ "check_text" \in changed
  <2> DEFINE m == Matching(old, new, MatchFields)
             Paired(p)  == [change |-> IF FieldDiffs(old[p.old], new[p.new]) = {} THEN "UNCHANGED" ELSE "CHANGED",
                            old |-> p.old, new |-> p.new, ambiguous |-> FALSE]
             Removed(i) == [change |-> "REMOVED", old |-> i, new |-> 0, ambiguous |-> <<"old", i>> \in m.doubts]
             Added(j)   == [change |-> "ADDED", old |-> 0, new |-> j, ambiguous |-> <<"new", j>> \in m.doubts]
  <2>1. /\ IsFiniteSet(DOMAIN old) /\ IsFiniteSet(DOMAIN new) /\ 0 \notin DOMAIN old
    BY Domains
  <2>2. Matched(old, new, m)
    BY <2>1, MatchingMatches
  <2> HIDE DEF m
  <2>3. \/ \E p \in m.pairs : item = Paired(p)
        \/ \E i \in m.old : item = Removed(i)
        \/ \E j \in m.new : item = Added(j)
    BY Zenon DEF m, ReleaseDiff
  <2>4. CASE \E p \in m.pairs : item = Paired(p)
    <3>1. PICK p \in m.pairs : item = Paired(p)
      BY <2>4
    <3>2. /\ item.old = p.old /\ item.new = p.new
          /\ item.change = IF FieldDiffs(old[p.old], new[p.new]) = {} THEN "UNCHANGED" ELSE "CHANGED"
      BY <3>1
    <3>3. p.old # 0
      <4>1. p.old \in DOMAIN old
        BY <2>2, Zenon DEF Matched
      <4> QED BY <2>1, <4>1, Zenon
    <3>4. "check_text" \in FieldDiffs(old[p.old], new[p.new])
      <4>1. old[p.old].check_text # new[p.new].check_text
        BY <3>2, <3>3
      <4> QED BY <4>1 DEF FieldDiffs, FingerprintFields
    <3>5. changed = FieldDiffs(old[p.old], new[p.new])
      BY <3>2, <3>3 DEF ChangedFields
    <3> QED BY <3>2, <3>3, <3>4, <3>5
  <2>5. CASE \E i \in m.old : item = Removed(i)
    <3>1. \A i : Removed(i).new = 0
      OBVIOUS
    <3> HIDE DEF Removed
    <3> QED BY <2>5, <3>1
  <2>6. CASE \E j \in m.new : item = Added(j)
    <3>1. \A j : Added(j).old = 0 /\ Added(j).change = "ADDED"
      OBVIOUS
    <3> HIDE DEF Added
    <3> QED BY <2>6, <3>1
  <2> QED BY <2>3, <2>4, <2>5, <2>6
<1>5. CASE item.ambiguous \/ Cardinality(mapped) > 1
  BY <1>5 DEF Impact
<1>6. CASE ~(item.ambiguous \/ Cardinality(mapped) > 1)
  <2>1. mapped = {c}
    <3> HIDE DEF mapped
    <3> QED BY <1>3, <1>6, OneAtMost
  <2>2. (CHOOSE k \in mapped : TRUE) = c
    BY <2>1
  <2>3. Impact(item, old, new, checks) = ImpactOnCheck(item.change, changed, (CHOOSE k \in mapped : TRUE).manual)
    BY <1>6, <2>1, Zenon DEF Impact
  <2>4. Impact(item, old, new, checks) = ImpactOnCheck(item.change, changed, c.manual)
    BY <2>2, <2>3
  <2>5. ImpactOnCheck(item.change, changed, c.manual) = ReviewAsked(c.manual)
    <3> HIDE DEF changed
    <3> QED BY <1>4 DEF ImpactOnCheck
  <2> QED BY <2>4, <2>5
<1> QED BY <1>5, <1>6

------------------------------------------------------------------------------
(***************************************************************************)
(* DiffsComplete, from these.                                              *)
(***************************************************************************)
\* Sequences over a part of a set are sequences over the set.
LEMMA UpToIsSeq ==
  ASSUME NEW n \in Nat, NEW S, NEW T, S \subseteq T, NEW s \in UpTo(n, S)
  PROVE  s \in Seq(T)
<1>1. PICK k \in 0..n : s \in [1..k -> S]
  BY DEF UpTo
<1> QED BY <1>1

\* Every rule of the releases that are compared.
AllRules ==
  RulesAmong({"v", "w"}, {"t"}, {"a"}) \cup RulesAmong({"v"}, {"t", "u"}, {"a", "b"}) \cup RulesReworded

\* The releases and checks of the model.
LEMMA ReleasesAreSequences == OldReleases \subseteq Seq(AllRules) /\ NewReleases \subseteq Seq(AllRules)
<1> DEFINE A == RulesAmong({"v", "w"}, {"t"}, {"a"})
           B == RulesAmong({"v"}, {"t", "u"}, {"a", "b"}) \cup RulesReworded
<1>1. A \subseteq AllRules /\ B \subseteq AllRules
  BY Zenon DEF AllRules
<1>2. OldReleases \subseteq UpTo(2, A) /\ NewReleases = UpTo(2, A) \cup UpTo(1, B)
  BY Zenon DEF OldReleases, NewReleases
<1> HIDE DEF A, B
<1> QED BY <1>1, <1>2, UpToIsSeq

\* A local check list of the runs is finite, and each check names a rule.
LEMMA ChecksAreFinite ==
  ASSUME NEW manual \in BOOLEAN, NEW checks \in LocalChecks(manual)
  PROVE  IsFiniteSet(checks) /\ \A c \in checks : c.vuln_id # ""
<1> DEFINE A == [vuln_id |-> "v", rule_id |-> "", stig_id |-> "", manual |-> manual]
           B == [vuln_id |-> "x", rule_id |-> "r", stig_id |-> "s", manual |-> manual]
           C == [vuln_id |-> "v", rule_id |-> "", stig_id |-> "s", manual |-> manual]
           D == [vuln_id |-> "w", rule_id |-> "r", stig_id |-> "", manual |-> manual]
<1>1. checks \in {{}, {A}, {B}, {C, D}}
  BY Zenon DEF LocalChecks
<1>2. A.vuln_id # "" /\ B.vuln_id # "" /\ C.vuln_id # "" /\ D.vuln_id # ""
  OBVIOUS
<1> HIDE DEF A, B, C, D
<1>3. IsFiniteSet({A}) /\ IsFiniteSet({B}) /\ IsFiniteSet({C}) /\ IsFiniteSet({C, D})
  <2>1. IsFiniteSet({A}) /\ IsFiniteSet({B}) /\ IsFiniteSet({C})
    BY FS_Singleton
  <2>2. {C} \cup {D} = {C, D}
    OBVIOUS
  <2>3. IsFiniteSet({C} \cup {D})
    BY <2>1, FS_AddElement
  <2> QED BY <2>1, <2>2, <2>3
<1>4. IsFiniteSet({})
  BY FS_EmptySet
<1>5. IsFiniteSet(checks)
  BY <1>1, <1>3, <1>4
<1>6. \A c \in checks : c \in {A, B, C, D}
  BY <1>1
<1> QED BY <1>2, <1>5, <1>6

\* The items come back from the impacts and from the rows of an export.
LEMMA ItemsOf ==
  ASSUME NEW old, NEW new, NEW checks
  PROVE  /\ {i.item : i \in Impacts(old, new, checks)} = ReleaseDiff(old, new)
         /\ {r[1] : r \in ExportRows(old, new, checks)} = ReleaseDiff(old, new)
         /\ \A i \in Impacts(old, new, checks) : i.item \in ReleaseDiff(old, new)
                                                 /\ i.impact = Impact(i.item, old, new, checks)
<1> DEFINE items == ReleaseDiff(old, new)
           of(x) == [item |-> x, impact |-> Impact(x, old, new, checks),
                     checks |-> MatchMappings(RulesOf(x, old, new), checks)]
           impacts == Impacts(old, new, checks)
           rows == ExportRows(old, new, checks)
<1>1. impacts = {of(x) : x \in items}
  BY Zenon DEF Impacts
<1>2. \A x : of(x).item = x /\ of(x).impact = Impact(x, old, new, checks)
  OBVIOUS
<1>3. rows = {row \in items \X impacts : ShownAs(row[1], old, new) = ShownAs(row[2].item, old, new)}
  BY Zenon DEF ExportRows
<1> HIDE DEF of, items, impacts, rows
<1>4. {i.item : i \in impacts} = items
  BY <1>1, <1>2
<1>5. ASSUME NEW x \in items PROVE \E r \in rows : r[1] = x
  <2>1. <<x, of(x)>> \in items \X impacts
    BY <1>1
  <2>2. ShownAs(<<x, of(x)>>[1], old, new) = ShownAs(<<x, of(x)>>[2].item, old, new)
    BY <1>2
  <2>3. <<x, of(x)>> \in rows
    BY <1>3, <2>1, <2>2, Zenon
  <2> QED BY <2>3
<1>6. {r[1] : r \in rows} = items
  BY <1>3, <1>5
<1> QED BY <1>1, <1>2, <1>4, <1>6 DEF items, impacts, rows

\* A comparison of two releases does what DiffsComplete says.
LEMMA ReleasesCompared ==
  ASSUME CompareReleases
  PROVE  DiffsComplete'
<1>1. PICK old \in OldReleases, new \in NewReleases, manual \in BOOLEAN : \E checks \in LocalChecks(manual) :
        Parsed("releases", [old |-> old, new |-> new, checks |-> checks],
               [impacts |-> Impacts(old, new, checks), rows |-> ExportRows(old, new, checks),
                changes |-> ChangesBetween(old, new), unchanged |-> UnchangedCount(old, new),
                baseline |-> DiffOf("NO_PREVIOUS_RELEASE", new)])
  BY Zenon DEF CompareReleases
<1>2. PICK checks \in LocalChecks(manual) :
        Parsed("releases", [old |-> old, new |-> new, checks |-> checks],
               [impacts |-> Impacts(old, new, checks), rows |-> ExportRows(old, new, checks),
                changes |-> ChangesBetween(old, new), unchanged |-> UnchangedCount(old, new),
                baseline |-> DiffOf("NO_PREVIOUS_RELEASE", new)])
  BY <1>1, Zenon
<1> DEFINE items == ReleaseDiff(old, new)
           impacts == Impacts(old, new, checks)
           rows == ExportRows(old, new, checks)
<1>3. /\ input'.old = old /\ input'.new = new /\ input'.checks = checks
      /\ outcome'.value.impacts = impacts /\ outcome'.value.rows = rows
      /\ outcome'.value.changes = ChangesBetween(old, new)
      /\ outcome'.value.unchanged = UnchangedCount(old, new)
      /\ outcome'.value.baseline = DiffOf("NO_PREVIOUS_RELEASE", new)
  BY <1>2 DEF Parsed, Evaluated
<1>4. old \in Seq(AllRules) /\ new \in Seq(AllRules)
  BY ReleasesAreSequences
<1>5. IsFiniteSet(checks) /\ \A c \in checks : c.vuln_id # ""
  BY ChecksAreFinite
<1>6. /\ {i.item : i \in impacts} = items /\ {r[1] : r \in rows} = items
      /\ \A i \in impacts : i.item \in items /\ i.impact = Impact(i.item, old, new, checks)
  BY ItemsOf
<1>7. /\ Partitioned(items, old, new)
      /\ \A x, y \in items :
           x.old = 0 /\ y.new = 0 /\ Shared(new[x.new], old[y.old]) => x.ambiguous /\ y.ambiguous
  BY <1>4, DiffIsComplete
<1>8. ReleaseDiff(new, old) = {[change |-> Mirrored(x.change), old |-> x.new, new |-> x.old,
                                ambiguous |-> x.ambiguous] : x \in items}
  BY DiffIsMirrored
<1>9. ASSUME NEW i \in impacts, NEW c \in checks,
             i.item.new # 0 /\ new[i.item.new].vuln_id = c.vuln_id,
             i.item.old # 0 => old[i.item.old].check_text # new[i.item.new].check_text
      PROVE  i.impact \in {"AMBIGUOUS_MAPPING", ReviewAsked(c.manual)}
  <2>1. i.item \in ReleaseDiff(old, new) /\ i.impact = Impact(i.item, old, new, checks)
    BY <1>6
  <2>2. c.vuln_id # ""
    BY <1>5
  <2> HIDE DEF impacts
  <2>3. SUFFICES ASSUME NEW x \in ReleaseDiff(old, new), x = i.item
                 PROVE  Impact(x, old, new, checks) \in
                          {"AMBIGUOUS_MAPPING", ReviewAsked(c.manual)}
    BY <2>1
  <2>4. x.new # 0 /\ new[x.new].vuln_id = c.vuln_id
    BY <1>9, <2>3
  <2>5. x.old # 0 => old[x.old].check_text # new[x.new].check_text
    BY <1>9, <2>3
  <2>6. IsFiniteSet(checks)
    BY <1>5
  <2> QED BY <1>4, <2>2, <2>4, <2>5, <2>6, ChangedTextIsReviewed
<1>10. /\ UnchangedCount(old, new) + Cardinality({c \in ChangesBetween(old, new) : c.old # 0}) = Len(old)
       /\ UnchangedCount(old, new) + Cardinality({c \in ChangesBetween(old, new) : c.new # 0}) = Len(new)
  BY <1>4, ChangesAreComplete
<1>11. DiffOf("NO_PREVIOUS_RELEASE", new) = {}
  BY DEF DiffOf
<1> HIDE DEF items, impacts, rows
<1>12. \A x \in {y \in items : y["old"] = 0}, y \in {z \in items : z["new"] = 0} :
         Shared(new[x.new], old[y.old]) => x.ambiguous /\ y.ambiguous
  BY <1>7
<1>13. \A i \in impacts, c \in checks :
         /\ i.item.new # 0 /\ new[i.item.new].vuln_id = c.vuln_id
         /\ i.item.old # 0 => old[i.item.old].check_text # new[i.item.new].check_text
         => i.impact \in {"AMBIGUOUS_MAPPING", ReviewAsked(c.manual)}
  BY <1>9, Zenon
<1> QED
  BY <1>3, <1>6, <1>7, <1>8, <1>10, <1>11, <1>12, <1>13, Zenon DEF DiffsComplete

\* Release comparisons are complete, whatever is compared (compare, analyze_yaml_impact).
THEOREM ReleaseDiffsAreComplete == Spec => []DiffsComplete
<1>1. Init => DiffsComplete
  BY DEF Init, DiffsComplete
<1>2. DiffsComplete /\ [Next]_vars => DiffsComplete'
  <2> SUFFICES ASSUME DiffsComplete, [Next]_vars PROVE DiffsComplete'
    OBVIOUS
  <2>1. CASE CompareReleases
    BY <2>1, ReleasesCompared
  <2>2. CASE type' # "releases"
    BY <2>2, Zenon DEF DiffsComplete
  <2>3. CASE UNCHANGED vars
    BY <2>3, Zenon DEF vars, DiffsComplete
  <2> QED BY <2>1, <2>2, <2>3, Steps, KindOfStep DEF Compared
<1> QED BY <1>1, <1>2, PTL DEF Spec

------------------------------------------------------------------------------
(***************************************************************************)
(* Runs: what two runs of one device tell (run_comparison).                *)
(***************************************************************************)
\* What a result's change means, for any statuses.
LEMMA Changes ==
  ASSUME NEW before, NEW after, NEW changed \in BOOLEAN, NEW c, c = Classify(before, after, changed)
  PROVE  /\ after = "Open" => c \in {"NEW_FINDING", "PERSISTENT_FINDING", "NEWLY_APPLICABLE", "NOT_COMPARABLE"}
         /\ c = "RESOLVED" => ~changed /\ before = "Open" /\ after = "NotAFinding"
         /\ c = "UNCHANGED_PASS" => ~changed /\ before = "NotAFinding" /\ after = "NotAFinding"
         /\ ~changed /\ before = "NotAFinding" /\ after = "Open" => c = "NEW_FINDING"
<1>1. CASE changed
  BY <1>1 DEF Classify
<1>2. CASE ~changed /\ before = "absent"
  BY <1>2 DEF Classify
<1>3. CASE ~changed /\ before # "absent" /\ after = "absent"
  BY <1>3 DEF Classify
<1>4. CASE ~changed /\ before # "absent" /\ after # "absent"
  <2>1. c = StatusChange(before, after)
    BY <1>4 DEF Classify
  <2>2. CASE Failed(before) \/ Failed(after)
    <3>1. c = "NOT_COMPARABLE"
      BY <2>1, <2>2 DEF StatusChange, Failed
    <3> QED BY <2>2, <3>1 DEF Failed
  <2>3. CASE ~Failed(before) /\ ~Failed(after)
    BY <1>4, <2>1, <2>3 DEF StatusChange
  <2> QED BY <2>2, <2>3
<1> QED BY <1>1, <1>2, <1>3, <1>4

\* Comparing two runs hides no open finding, and resolved is only what was open and
\* passed under one rule, which is a new finding when seen the other way round, for
\* any two runs and any fingerprints (compare_runs).
THEOREM RunsAreFair ==
  ASSUME NEW previous, NEW current, NEW oldRules, NEW newRules
  PROVE  \A i \in CompareRuns(previous, current, oldRules, newRules) :
           /\ i.after = "Open" => i.change \in {"NEW_FINDING", "PERSISTENT_FINDING", "NEWLY_APPLICABLE",
                                                "NOT_COMPARABLE"}
           /\ i.change = "UNCHANGED_PASS" => i.before = "NotAFinding" /\ i.after = "NotAFinding"
           /\ i.change \in {"RESOLVED", "UNCHANGED_PASS"} => ~RuleChanged(i.key[2], oldRules, newRules)
           /\ i.change = "RESOLVED" =>
                /\ i.before = "Open" /\ i.after = "NotAFinding"
                /\ \E j \in CompareRuns(current, previous, newRules, oldRules) :
                     j.key = i.key /\ j.change = "NEW_FINDING"
<1> DEFINE old == ByKey(previous)
           new == ByKey(current)
           item(k) == [key |-> k, before |-> StatusIn(old, k), after |-> StatusIn(new, k),
                       change |-> Classify(StatusIn(old, k), StatusIn(new, k), RuleChanged(k[2], oldRules, newRules))]
           back(k) == [key |-> k, before |-> StatusIn(new, k), after |-> StatusIn(old, k),
                       change |-> Classify(StatusIn(new, k), StatusIn(old, k), RuleChanged(k[2], newRules, oldRules))]
<1>1. CompareRuns(previous, current, oldRules, newRules) = {item(k) : k \in DOMAIN old \cup DOMAIN new}
  BY Zenon DEF CompareRuns
<1>2. CompareRuns(current, previous, newRules, oldRules) = {back(k) : k \in DOMAIN new \cup DOMAIN old}
  BY Zenon DEF CompareRuns
<1>3. \A v : RuleChanged(v, oldRules, newRules) \in BOOLEAN
  BY DEF RuleChanged
<1> SUFFICES ASSUME NEW k \in DOMAIN old \cup DOMAIN new, NEW i, i = item(k)
             PROVE  /\ i.after = "Open" => i.change \in {"NEW_FINDING", "PERSISTENT_FINDING", "NEWLY_APPLICABLE",
                                                         "NOT_COMPARABLE"}
                    /\ i.change = "UNCHANGED_PASS" => i.before = "NotAFinding" /\ i.after = "NotAFinding"
                    /\ i.change \in {"RESOLVED", "UNCHANGED_PASS"} => ~RuleChanged(i.key[2], oldRules, newRules)
                    /\ i.change = "RESOLVED" =>
                         /\ i.before = "Open" /\ i.after = "NotAFinding"
                         /\ \E j \in CompareRuns(current, previous, newRules, oldRules) :
                              j.key = i.key /\ j.change = "NEW_FINDING"
  BY <1>1
<1> HIDE DEF old, new
<1> DEFINE changed == RuleChanged(k[2], oldRules, newRules)
<1>4. /\ i.key = k /\ i.before = StatusIn(old, k) /\ i.after = StatusIn(new, k)
      /\ i.change = Classify(i.before, i.after, changed)
  OBVIOUS
<1>5. changed \in BOOLEAN
  BY <1>3
<1>6. /\ i.after = "Open" => i.change \in {"NEW_FINDING", "PERSISTENT_FINDING", "NEWLY_APPLICABLE", "NOT_COMPARABLE"}
      /\ i.change = "RESOLVED" => ~changed /\ i.before = "Open" /\ i.after = "NotAFinding"
      /\ i.change = "UNCHANGED_PASS" => ~changed /\ i.before = "NotAFinding" /\ i.after = "NotAFinding"
  <2> HIDE DEF changed
  <2> QED BY <1>4, <1>5, Changes
<1>7. ASSUME i.change = "RESOLVED"
      PROVE  back(k).key = k /\ back(k).change = "NEW_FINDING" /\ back(k) \in CompareRuns(current, previous, newRules, oldRules)
  <2>1. back(k).key = k /\ back(k).change = Classify(i.after, i.before, RuleChanged(k[2], newRules, oldRules))
    BY <1>4
  <2>2. ~changed /\ i.before = "Open" /\ i.after = "NotAFinding"
    BY <1>6, <1>7
  <2>3. RuleChanged(k[2], newRules, oldRules) \in BOOLEAN /\ ~RuleChanged(k[2], newRules, oldRules)
    <3>1. RuleChanged(k[2], newRules, oldRules) \in BOOLEAN
      BY DEF RuleChanged
    <3>2. RuleChanged(k[2], newRules, oldRules) <=> changed
      BY DEF RuleChanged
    <3> QED BY <2>2, <3>1, <3>2, Zenon
  <2>4. Classify(i.after, i.before, RuleChanged(k[2], newRules, oldRules)) = "NEW_FINDING"
    BY <2>2, <2>3, Changes
  <2>5. back(k) \in {back(l) : l \in DOMAIN new \cup DOMAIN old}
    <3> HIDE DEF back
    <3> QED OBVIOUS
  <2> HIDE DEF back
  <2> QED BY <1>2, <2>1, <2>4, <2>5
<1> HIDE DEF back, item
<1> QED
  BY <1>4, <1>6, <1>7

Key == <<"d", "v">>

\* The inputs of the model are sequences.
LEMMA UpToAreSequences ==
  ASSUME NEW n \in Nat, NEW S, NEW s \in UpTo(n, S)
  PROVE  /\ s \in Seq(S) /\ Len(s) \in 0..n /\ DOMAIN s = 1..Len(s)
         /\ \A k \in 1..Len(s) : s[k] \in S
<1>1. PICK k \in 0..n : s \in [1..k -> S]
  BY DEF UpTo
<1> QED BY <1>1

\* The runs that are compared have results of one check only, the last of which counts.
LEMMA LastCounts ==
  ASSUME NEW results \in RunResults
  PROVE  /\ DOMAIN ByKey(results) = IF results = <<>> THEN {} ELSE {Key}
         /\ results # <<>> => /\ ByKey(results)[Key] = Last(results).status
                              /\ Last(results).status \in ReportStatuses
<1> DEFINE R == [device : {"d"}, vuln : {"v"}, status : ReportStatuses]
           at(k) == {i \in DOMAIN results : <<results[i].device, results[i].vuln>> = k}
<1>1. PICK n \in 0..2 : results \in [1..n -> R]
  BY DEF RunResults, UpTo
<1>2. results \in Seq(R) /\ Len(results) = n /\ DOMAIN results = 1..n
  <2> HIDE DEF R
  <2> QED BY <1>1
<1>3. \A i \in 1..n : results[i] \in R /\ results[i].device = "d" /\ results[i].vuln = "v"
                      /\ results[i].status \in ReportStatuses
  <2> HIDE DEF R
  <2>1. \A i \in 1..n : results[i] \in R
    BY <1>1
  <2>2. \A r \in R : r.device = "d" /\ r.vuln = "v" /\ r.status \in ReportStatuses
    BY DEF R
  <2> QED BY <2>1, <2>2
<1>4. DOMAIN ByKey(results) = {<<r.device, r.vuln>> : r \in ToSet(results)}
  BY DEF ByKey
<1>5. ToSet(results) = {results[i] : i \in 1..n}
  BY <1>2 DEF ToSet
<1>6. CASE results = <<>>
  <2>1. n = 0
    BY <1>2, <1>6
  <2>2. ToSet(results) = {}
    BY <1>5, <2>1
  <2> QED BY <1>4, <1>6, <2>2
<1>7. CASE results # <<>>
  <2>1. n \in 1..2
    BY <1>2, <1>7
  <2>2. DOMAIN ByKey(results) = {Key}
    <3>1. \A r \in ToSet(results) : <<r.device, r.vuln>> = Key
      BY <1>3, <1>5 DEF Key
    <3>2. results[1] \in ToSet(results)
      BY <1>5, <2>1
    <3> QED BY <1>4, <3>1, <3>2
  <2>3. at(Key) = 1..n
    BY <1>2, <1>3 DEF Key
  <2>4. ByKey(results)[Key] = results[Max(at(Key))].status
    BY <1>4, <2>2, Zenon DEF ByKey
  <2>5. Max(1..n) = n
    BY <2>1 DEF Max
  <2>6. ByKey(results)[Key] = results[n].status /\ Last(results) = results[n]
    BY <1>2, <2>3, <2>4, <2>5 DEF Last
  <2> QED BY <1>3, <1>7, <2>1, <2>2, <2>6
<1> QED BY <1>6, <1>7

\* In the model a run has results for one rule of one device.
LEMMA OneRule ==
  ASSUME NEW oldRules \in RuleMaps, NEW newRules \in RuleMaps
  PROVE  ~RuleChanged("v", oldRules, newRules) <=> oldRules = newRules \/ <<>> \in {oldRules, newRules}
  BY DEF RuleMaps, RuleChanged

\* Of one item at most no more than one is counted.
LEMMA CountedOnce ==
  ASSUME NEW x, NEW S, S \subseteq {x}
  PROVE  Cardinality(S) = IF x \in S THEN 1 ELSE 0
<1>1. CASE x \in S
  <2>1. S = {x}
    BY <1>1
  <2> QED BY <1>1, <2>1, FS_Singleton
<1>2. CASE x \notin S
  <2>1. S = {}
    BY <1>2
  <2> QED BY <1>2, <2>1, FS_EmptySet
<1> QED BY <1>1, <1>2

\* The summary of a comparison with no item, or with one.
LEMMA SummaryFits ==
  ASSUME NEW items, NEW x, items \subseteq {x}
  PROVE  LET counts(P) == IF items # {} /\ P THEN 1 ELSE 0 IN
         RunSummary(items) =
           [previous_open |-> counts(x.before = "Open"),
            current_open  |-> counts(x.after = "Open"),
            new           |-> counts(x.change = "NEW_FINDING"),
            resolved      |-> counts(x.change = "RESOLVED"),
            persistent    |-> counts(x.change = "PERSISTENT_FINDING"),
            errors        |-> counts(Failed(x.before) \/ Failed(x.after))]
<1>1. items # {} <=> x \in items
  OBVIOUS
<1>2. \A change : Counted(items, {change}) = IF items # {} /\ x.change = change THEN 1 ELSE 0
  <2> SUFFICES ASSUME NEW change
               PROVE  Counted(items, {change}) = IF items # {} /\ x.change = change THEN 1 ELSE 0
    OBVIOUS
  <2> DEFINE S == {i \in items : i.change \in {change}}
  <2>1. S \subseteq {x} /\ (x \in S <=> items # {} /\ x.change = change)
    BY <1>1
  <2>2. Counted(items, {change}) = Cardinality(S)
    BY DEF Counted
  <2> HIDE DEF S
  <2> QED BY <2>1, <2>2, CountedOnce
<1>3. Cardinality({i \in items : i.before = "Open"}) = IF items # {} /\ x.before = "Open" THEN 1 ELSE 0
  <2> DEFINE S == {i \in items : i.before = "Open"}
  <2>1. S \subseteq {x} /\ (x \in S <=> items # {} /\ x.before = "Open")
    BY <1>1
  <2> HIDE DEF S
  <2>2. Cardinality(S) = IF items # {} /\ x.before = "Open" THEN 1 ELSE 0
    BY <2>1, CountedOnce
  <2> QED BY <2>2 DEF S
<1>4. Cardinality({i \in items : i.after = "Open"}) = IF items # {} /\ x.after = "Open" THEN 1 ELSE 0
  <2> DEFINE S == {i \in items : i.after = "Open"}
  <2>1. S \subseteq {x} /\ (x \in S <=> items # {} /\ x.after = "Open")
    BY <1>1
  <2> HIDE DEF S
  <2>2. Cardinality(S) = IF items # {} /\ x.after = "Open" THEN 1 ELSE 0
    BY <2>1, CountedOnce
  <2> QED BY <2>2 DEF S
<1>5. Cardinality({i \in items : Failed(i.before) \/ Failed(i.after)}) =
        IF items # {} /\ (Failed(x.before) \/ Failed(x.after)) THEN 1 ELSE 0
  <2> DEFINE S == {i \in items : Failed(i.before) \/ Failed(i.after)}
  <2>1. S \subseteq {x} /\ (x \in S <=> items # {} /\ (Failed(x.before) \/ Failed(x.after)))
    BY <1>1
  <2> HIDE DEF S
  <2>2. Cardinality(S) = IF items # {} /\ (Failed(x.before) \/ Failed(x.after)) THEN 1 ELSE 0
    BY <2>1, CountedOnce
  <2> QED BY <2>2 DEF S
<1> QED BY <1>2, <1>3, <1>4, <1>5, Zenon DEF RunSummary

\* Which findings are new, resolved and persistent.
LEMMA ClassifiedExactly ==
  ASSUME NEW before, NEW after, NEW changed \in BOOLEAN
  PROVE  LET judged == ~changed /\ "absent" \notin {before, after} /\ ~Failed(before) /\ ~Failed(after)
             change == Classify(before, after, changed)
         IN /\ change = "NEW_FINDING" <=> judged /\ before # "Open" /\ after = "Open"
            /\ change = "RESOLVED" <=> judged /\ before = "Open" /\ after = "NotAFinding"
            /\ change = "PERSISTENT_FINDING" <=> judged /\ before = "Open" /\ after = "Open"
<1> DEFINE change == Classify(before, after, changed)
<1>1. CASE changed
  <2>1. change = "NOT_COMPARABLE"
    BY <1>1 DEF Classify
  <2> QED BY <1>1, <2>1
<1>2. CASE ~changed /\ "absent" \in {before, after}
  <2>1. change \in {"NEWLY_APPLICABLE", "NO_LONGER_APPLICABLE"}
    BY <1>2 DEF Classify
  <2> HIDE DEF change
  <2>2. change \notin {"NEW_FINDING", "RESOLVED", "PERSISTENT_FINDING"}
    BY <2>1
  <2> QED BY <1>2, <2>2 DEF change
<1>3. CASE ~changed /\ "absent" \notin {before, after}
  <2>1. change = StatusChange(before, after)
    BY <1>3 DEF Classify
  <2>2. CASE Failed(before) \/ Failed(after)
    <3>1. StatusChange(before, after) = "NOT_COMPARABLE"
      <4> HIDE DEF change
      <4> QED BY <2>2 DEF StatusChange, Failed
    <3> HIDE DEF change
    <3>2. change \notin {"NEW_FINDING", "RESOLVED", "PERSISTENT_FINDING"}
      BY <2>1, <3>1
    <3> QED BY <2>2, <3>2 DEF change
  <2>3. CASE ~Failed(before) /\ ~Failed(after)
    <3> HIDE DEF change
    <3>1. /\ change = "NEW_FINDING" <=> before # "Open" /\ after = "Open"
          /\ change = "RESOLVED" <=> before = "Open" /\ after = "NotAFinding"
          /\ change = "PERSISTENT_FINDING" <=> before = "Open" /\ after = "Open"
      BY <2>1, <2>3 DEF StatusChange
    <3> QED BY <1>3, <2>3, <3>1 DEF change
  <2> QED BY <2>2, <2>3
<1> QED BY <1>1, <1>2, <1>3

\* The two comparisons of the model.
LEMMA RunsCompared ==
  ASSUME CompareAuditRuns
  PROVE  RunsComparedFairly'
<1>1. PICK previous \in RunResults, current \in RunResults, oldRules \in RuleMaps, newRules \in RuleMaps :
        Parsed("runs", [previous |-> previous, current |-> current, oldRules |-> oldRules, newRules |-> newRules],
               [items |-> CompareRuns(previous, current, oldRules, newRules),
                summary |-> RunSummary(CompareRuns(previous, current, oldRules, newRules))])
  BY Zenon DEF CompareAuditRuns
<1> DEFINE items == CompareRuns(previous, current, oldRules, newRules)
           back  == CompareRuns(current, previous, newRules, oldRules)
           old   == ByKey(previous)
           new   == ByKey(current)
           before == StatusIn(old, Key)
           after  == StatusIn(new, Key)
           item   == [key |-> Key, before |-> before, after |-> after,
                      change |-> Classify(before, after, RuleChanged(Key[2], oldRules, newRules))]
<1>2. /\ type' = "runs"
      /\ input' = [previous |-> previous, current |-> current, oldRules |-> oldRules, newRules |-> newRules]
      /\ outcome'.value = [items |-> items, summary |-> RunSummary(items)]
  <2> HIDE DEF items
  <2> QED BY <1>1 DEF Parsed, Evaluated, items
<1>3. /\ input'.previous = previous /\ input'.current = current
      /\ input'.oldRules = oldRules /\ input'.newRules = newRules
      /\ outcome'.value.items = items /\ outcome'.value.summary = RunSummary(items)
  <2> HIDE DEF items
  <2> QED BY <1>2
<1>4. /\ DOMAIN old = IF previous = <<>> THEN {} ELSE {Key}
      /\ DOMAIN new = IF current = <<>> THEN {} ELSE {Key}
      /\ previous # <<>> => old[Key] = Last(previous).status
      /\ current # <<>> => new[Key] = Last(current).status
  BY LastCounts
<1>5. /\ before = IF previous = <<>> THEN "absent" ELSE Last(previous).status
      /\ after = IF current = <<>> THEN "absent" ELSE Last(current).status
  <2> HIDE DEF old, new
  <2> QED BY <1>4 DEF StatusIn
<1>6. items = IF previous = <<>> /\ current = <<>> THEN {} ELSE {item}
  <2>1. items = {[key |-> k, before |-> StatusIn(old, k), after |-> StatusIn(new, k),
                  change |-> Classify(StatusIn(old, k), StatusIn(new, k), RuleChanged(k[2], oldRules, newRules))]
                 : k \in DOMAIN old \cup DOMAIN new}
    BY Zenon DEF CompareRuns
  <2>2. DOMAIN old \cup DOMAIN new = IF previous = <<>> /\ current = <<>> THEN {} ELSE {Key}
    <3> HIDE DEF old, new
    <3> QED BY <1>4
  <2> HIDE DEF old, new, items
  <2> QED BY <2>1, <2>2
<1>7. /\ item.key = Key /\ item.before = before /\ item.after = after
      /\ item.change = Classify(before, after, RuleChanged("v", oldRules, newRules))
  <2> HIDE DEF before, after
  <2> QED BY DEF Key
<1>8. RuleChanged("v", oldRules, newRules) \in BOOLEAN
  BY DEF RuleChanged
<1>9. ASSUME NEW i \in items
      PROVE  /\ i = item
             /\ i.after = "Open" => i.change \in {"NEW_FINDING", "PERSISTENT_FINDING", "NEWLY_APPLICABLE",
                                                   "NOT_COMPARABLE"}
             /\ i.change = "UNCHANGED_PASS" => i.before = "NotAFinding" /\ i.after = "NotAFinding"
             /\ i.change \in {"RESOLVED", "UNCHANGED_PASS"} => ~RuleChanged("v", oldRules, newRules)
             /\ i.change = "RESOLVED" => /\ i.before = "Open" /\ i.after = "NotAFinding"
                                         /\ \E j \in back : j.change = "NEW_FINDING"
  <2>1. i = item
    <3> HIDE DEF items, item
    <3> QED BY <1>6
  <2>2. i.key[2] = "v"
    BY <1>7, <2>1 DEF Key
  <2> HIDE DEF item, before, after, old, new
  <2> QED BY <2>1, <2>2, RunsAreFair
<1>10. \A j, l \in back : j = l
  <2>1. DOMAIN new \cup DOMAIN old \subseteq {Key}
    <3> HIDE DEF old, new
    <3> QED BY <1>4
  <2>2. back = {[key |-> k, before |-> StatusIn(new, k), after |-> StatusIn(old, k),
                 change |-> Classify(StatusIn(new, k), StatusIn(old, k), RuleChanged(k[2], newRules, oldRules))]
                : k \in DOMAIN new \cup DOMAIN old}
    BY Zenon DEF CompareRuns
  <2> HIDE DEF old, new, back
  <2> QED BY <2>1, <2>2
<1>11. previous \o current = <<>> <=> previous = <<>> /\ current = <<>>
  <2> DEFINE R == [device : {"d"}, vuln : {"v"}, status : ReportStatuses]
  <2> HIDE DEF R
  <2>1. \A r \in RunResults : r \in Seq(R)
    BY UpToAreSequences DEF RunResults, R
  <2>2. previous \in Seq(R) /\ current \in Seq(R)
    BY <2>1
  <2>3. Len(previous \o current) = Len(previous) + Len(current) /\ Len(previous) \in Nat /\ Len(current) \in Nat
    BY <2>2
  <2>4. \A s \in Seq(R) : s = <<>> <=> Len(s) = 0
    OBVIOUS
  <2>5. previous \o current \in Seq(R)
    BY <2>2
  <2> QED BY <2>2, <2>3, <2>4, <2>5
<1>12. Cardinality(items) = IF previous \o current = <<>> THEN 0 ELSE 1
  <2> HIDE DEF items, item
  <2> QED BY <1>6, <1>11, FS_Singleton, FS_EmptySet
<1>13. RunSummary(items) = SummaryDue(input')
  <2> DEFINE s == RunSummary(items)
             judged == /\ "absent" \notin {before, after} /\ ~Failed(before) /\ ~Failed(after)
                       /\ oldRules = newRules \/ <<>> \in {oldRules, newRules}
             due == [previous_open |-> IF before = "Open" THEN 1 ELSE 0,
                     current_open  |-> IF after = "Open" THEN 1 ELSE 0,
                     new           |-> IF judged /\ before # "Open" /\ after = "Open" THEN 1 ELSE 0,
                     resolved      |-> IF judged /\ before = "Open" /\ after = "NotAFinding" THEN 1 ELSE 0,
                     persistent    |-> IF judged /\ before = "Open" /\ after = "Open" THEN 1 ELSE 0,
                     errors        |-> IF Failed(before) \/ Failed(after) THEN 1 ELSE 0]
  <2>1. LastStatus(previous) = before /\ LastStatus(current) = after
    <3> HIDE DEF before, after
    <3> QED BY <1>5 DEF LastStatus
  <2>2. SummaryDue(input') = due
    <3> HIDE DEF before, after
    <3> QED BY <1>3, <2>1 DEF SummaryDue
  <2>3. items \subseteq {item} /\ (items = {} => before = "absent" /\ after = "absent")
    <3> HIDE DEF items, item, before, after
    <3> QED BY <1>5, <1>6
  <2>4. /\ item.change = "NEW_FINDING" <=> judged /\ before # "Open" /\ after = "Open"
        /\ item.change = "RESOLVED" <=> judged /\ before = "Open" /\ after = "NotAFinding"
        /\ item.change = "PERSISTENT_FINDING" <=> judged /\ before = "Open" /\ after = "Open"
    <3> HIDE DEF item, before, after
    <3> QED BY <1>7, <1>8, OneRule, ClassifiedExactly
  <2>5. ~Failed("absent")
    BY DEF Failed
  <2> HIDE DEF item, items
  <2>6. s = [previous_open |-> IF items # {} /\ item.before = "Open" THEN 1 ELSE 0,
             current_open  |-> IF items # {} /\ item.after = "Open" THEN 1 ELSE 0,
             new           |-> IF items # {} /\ item.change = "NEW_FINDING" THEN 1 ELSE 0,
             resolved      |-> IF items # {} /\ item.change = "RESOLVED" THEN 1 ELSE 0,
             persistent    |-> IF items # {} /\ item.change = "PERSISTENT_FINDING" THEN 1 ELSE 0,
             errors        |-> IF items # {} /\ (Failed(item.before) \/ Failed(item.after)) THEN 1 ELSE 0]
    BY <2>3, SummaryFits
  <2> HIDE DEF before, after, s, judged
  <2>7. s = due
    BY <1>7, <2>3, <2>4, <2>5, <2>6 DEF judged
  <2> QED BY <2>2, <2>7 DEF s
<1>14. ASSUME NEW i \in items, i.change \in {"RESOLVED", "UNCHANGED_PASS"}
       PROVE  /\ Last(current).status = "NotAFinding"
              /\ Last(previous).status \in {"Open", "NotAFinding"}
              /\ oldRules = newRules \/ <<>> \in {oldRules, newRules}
  <2>1. /\ i.before \in {"Open", "NotAFinding"} /\ i.after = "NotAFinding"
        /\ ~RuleChanged("v", oldRules, newRules)
    <3> HIDE DEF items, item, back
    <3> QED BY <1>9, <1>14
  <2>2. i.before = before /\ i.after = after
    <3> HIDE DEF items, item, before, after, back
    <3> QED BY <1>7, <1>9
  <2>3. oldRules = newRules \/ <<>> \in {oldRules, newRules}
    BY <2>1, OneRule
  <2> HIDE DEF items, item, before, after
  <2> QED BY <1>5, <2>1, <2>2, <2>3
<1> HIDE DEF items, item, back, before, after, old, new
<1>15. \A i \in items :
         /\ i.after = "Open" => i.change \in {"NEW_FINDING", "PERSISTENT_FINDING", "NEWLY_APPLICABLE", "NOT_COMPARABLE"}
         /\ i.change \in {"RESOLVED", "UNCHANGED_PASS"} =>
              /\ Last(current).status = "NotAFinding"
              /\ Last(previous).status \in {"Open", "NotAFinding"}
              /\ oldRules = newRules \/ <<>> \in {oldRules, newRules}
         /\ i.change = "RESOLVED" => \A j \in back : j.change = "NEW_FINDING"
         /\ i.before = "Open" /\ i.after # "Open" => i.change # "UNCHANGED_PASS"
  BY <1>9, <1>10, <1>14
<1> QED
  BY <1>2, <1>3, <1>12, <1>13, <1>15, Zenon DEF RunsComparedFairly, back

\* The step that compares two runs compares them fairly.
LEMMA HistoryCompared ==
  ASSUME CompareHistoricalRuns
  PROVE  RunsComparedFairly'
<1>1. PICK first \in RunResults, second \in RunResults, t \in {1, 2}, u \in {1, 2} :
        Parsed("history", [first |-> [started |-> t, results |-> first],
                           second |-> [started |-> u, results |-> second]],
               CompareHistorical([started |-> t, results |-> first], [started |-> u, results |-> second]))
  BY Zenon DEF CompareHistoricalRuns
<1> DEFINE a == [started |-> t, results |-> first]
           b == [started |-> u, results |-> second]
<1>2. type' = "history" /\ input' = [first |-> a, second |-> b] /\ outcome'.value = CompareHistorical(a, b)
  <2> HIDE DEF a, b
  <2> QED BY <1>1 DEF Parsed, Evaluated, a, b
<1>3. a.started \in Int /\ b.started \in Int
  OBVIOUS
<1> HIDE DEF a, b
<1>4. a.started # b.started => CompareHistorical(a, b) = CompareHistorical(b, a)
  BY <1>3 DEF CompareHistorical
<1> QED
  BY <1>2, <1>4 DEF RunsComparedFairly

\* Everything the comparison of two runs or of two runs of the history says is fair.
THEOREM ComparisonsAreFair == Spec => []RunsComparedFairly
<1>1. Init => RunsComparedFairly
  BY DEF Init, RunsComparedFairly
<1>2. RunsComparedFairly /\ [Next]_vars => RunsComparedFairly'
  <2> SUFFICES ASSUME RunsComparedFairly, [Next]_vars PROVE RunsComparedFairly'
    OBVIOUS
  <2>1. CASE CompareAuditRuns
    BY <2>1, RunsCompared
  <2>2. CASE CompareHistoricalRuns
    BY <2>2, HistoryCompared
  <2>3. CASE type' \notin {"runs", "history"}
    BY <2>3 DEF RunsComparedFairly
  <2>4. CASE UNCHANGED vars
    BY <2>4 DEF vars, RunsComparedFairly
  <2>5. CompareReleases \/ WriteChecklists \/ RoundTripCklb \/ CountResults \/ CountCompliance =>
          type' \notin {"runs", "history"}
    BY Zenon DEF CompareReleases, WriteChecklists, RoundTripCklb, CountResults, CountCompliance, Parsed, Evaluated
  <2> QED BY <2>1, <2>2, <2>3, <2>4, <2>5, Steps DEF Compared
<1> QED BY <1>1, <1>2, PTL DEF Spec

------------------------------------------------------------------------------
(***************************************************************************)
(* Checklists and reports.                                                 *)
(***************************************************************************)
\* The jobs of the selected families: one for all, or one for each.
LEMMA JobsOf ==
  ASSUME NEW selected \in SUBSET BothFamilies, NEW templates, NEW vulns,
         NEW jobs, jobs = TemplateJobs(selected, templates, vulns), jobs # {}
  PROVE  /\ \A j \in jobs : j.families \subseteq selected /\ j.template \in DOMAIN templates
         /\ \A f \in selected : \E j \in jobs : f \in j.families /\ \A k \in jobs : f \in k.families => k = j
<1> DEFINE job(kind, families) == [template |-> kind, families |-> families]
           one(f)   == job(f, {f})
           separate == {one(f) : f \in selected}
<1>1. /\ \/ jobs = {job("COMBINED", BothFamilies)} /\ selected = BothFamilies
         \/ jobs = separate
      /\ \A j \in jobs : j.template \in DOMAIN templates
  <2> DEFINE fit == {j \in separate \cup {job("COMBINED", BothFamilies)} :
                      Fits(j.template, j.families, templates, vulns)}
  <2>1. jobs = IF selected = BothFamilies /\ job("COMBINED", BothFamilies) \in fit THEN {job("COMBINED", BothFamilies)}
               ELSE IF separate \subseteq fit THEN separate ELSE {}
    BY DEF TemplateJobs
  <2>2. \A j \in fit : j.template \in DOMAIN templates
    <3> HIDE DEF separate, job, one
    <3> QED BY DEF Fits
  <2> HIDE DEF separate, fit, job, one
  <2> QED BY <2>1, <2>2
<1>2. \A kind, families : job(kind, families).families = families
  OBVIOUS
<1>3. CASE jobs = {job("COMBINED", BothFamilies)} /\ selected = BothFamilies
  <2> HIDE DEF job
  <2> QED BY <1>1, <1>2, <1>3
<1>4. CASE jobs = separate
  <2>1. \A f : one(f).families = {f}
    OBVIOUS
  <2> HIDE DEF one
  <2>2. \A j \in jobs : \E f \in selected : j = one(f) /\ j.families = {f}
    BY <1>4, <2>1
  <2>3. \A f \in selected : one(f) \in jobs /\ f \in one(f).families
    BY <1>4, <2>1
  <2>4. \A f \in selected : \A k \in jobs : f \in k.families => k = one(f)
    BY <2>2
  <2> QED BY <1>1, <2>2, <2>3, <2>4
<1> QED BY <1>1, <1>3, <1>4

\* One of the files answers for the family: there the result is written or unmatched.
Landed(ckls, contents, f, v, status) ==
  \E x \in ckls :
    /\ f \in x.job.families /\ \A y \in ckls : f \in y.job.families => y = x
    /\ IF v \in DOMAIN contents[x.job.template]
       THEN v \in x.file.updated /\ x.file.items[v] = ChecklistStatus(status)
       ELSE v \in x.file.unmatched

\* A file has the items of its template, and those not updated as they were there.
Filled(x, jobs, contents) ==
  LET template == contents[x.job.template] IN
  /\ x.job \in jobs /\ DOMAIN x.file.items = DOMAIN template
  /\ \A v \in DOMAIN template \ x.file.updated : x.file.items[v] = template[v]

\* Every result of a selected family is written to one checklist or reported as
\* unmatched there, as passed and as open exactly when it is and as not reviewed when
\* it failed; an item that no result is for keeps the template's status. This
\* holds for any results of families that share no vulnerability
\* (_build_checklist_template_jobs, write_completed_ckl, populate_cklb).
THEOREM ChecklistsAreComplete ==
  ASSUME NEW selected \in SUBSET BothFamilies, NEW templates, NEW vulns, NEW contents, NEW results,
         \A f, g \in selected : f # g => DOMAIN results[f] \cap DOMAIN results[g] = {},
         NEW jobs, jobs = TemplateJobs(selected, templates, vulns), jobs # {},
         NEW ckls, ckls = ChecklistFiles(jobs, contents, results)
  PROVE  /\ \A f \in selected : \A v \in DOMAIN results[f] :
              Landed(ckls, contents, f, v, results[f][v])
         /\ \A x \in ckls : Filled(x, jobs, contents)
<1> DEFINE taken(j) == UNION {DOMAIN results[f] : f \in j.families}
           source(j, v) == CHOOSE f \in j.families : v \in DOMAIN results[f]
           given(j) == [v \in taken(j) |-> results[source(j, v)][v]]
           written(j) == Completed(contents[j.template], given(j))
           file(j) == [job |-> j, file |-> written(j)]
<1>1. ckls = {file(j) : j \in {k \in jobs : taken(k) # {}}}
  BY DEF ChecklistFiles
<1>2. \A j : file(j).job = j /\ file(j).file = written(j)
  OBVIOUS
<1>3. \A j : /\ written(j).updated = taken(j) \cap DOMAIN contents[j.template]
             /\ written(j).unmatched = taken(j) \ DOMAIN contents[j.template]
             /\ DOMAIN written(j).items = DOMAIN contents[j.template]
             /\ \A v \in DOMAIN contents[j.template] :
                  written(j).items[v] = IF v \in taken(j) THEN ChecklistStatus(given(j)[v])
                                        ELSE contents[j.template][v]
  <2> TAKE j
  <2>1. DOMAIN given(j) = taken(j)
    OBVIOUS
  <2> HIDE DEF given, taken
  <2> QED BY <2>1 DEF Completed
<1>4. \A j : \A f \in j.families : \A v \in DOMAIN results[f] :
        /\ v \in taken(j)
        /\ source(j, v) \in j.families /\ v \in DOMAIN results[source(j, v)]
        /\ given(j)[v] = results[source(j, v)][v]
  <2> TAKE j
  <2> TAKE f \in j.families
  <2> TAKE v \in DOMAIN results[f]
  <2>1. v \in taken(j)
    OBVIOUS
  <2>2. source(j, v) \in j.families /\ v \in DOMAIN results[source(j, v)]
    OBVIOUS
  <2> HIDE DEF taken, source
  <2> QED BY <2>1, <2>2
<1> HIDE DEF taken, source, given, written, file
<1>5. ASSUME NEW f \in selected, NEW v \in DOMAIN results[f]
      PROVE  Landed(ckls, contents, f, v, results[f][v])
  <2>1. PICK j \in jobs : f \in j.families /\ \A k \in jobs : f \in k.families => k = j
    BY JobsOf
  <2>2. j.families \subseteq selected
    BY JobsOf
  <2>3. v \in taken(j) /\ source(j, v) = f
    BY <1>4, <2>1, <2>2
  <2>4. given(j)[v] = results[f][v]
    BY <1>4, <2>1, <2>3
  <2>5. file(j) \in ckls
    BY <1>1, <2>3
  <2>6. \A y \in ckls : f \in y.job.families => y = file(j)
    BY <1>1, <1>2, <2>1
  <2>7. IF v \in DOMAIN contents[j.template]
        THEN v \in written(j).updated /\ written(j).items[v] = ChecklistStatus(results[f][v])
        ELSE v \in written(j).unmatched
    BY <1>3, <2>3, <2>4
  <2>8. file(j).job = j /\ file(j).file = written(j)
    BY <1>2
  <2> QED BY <2>1, <2>5, <2>6, <2>7, <2>8 DEF Landed
<1>6. \A x \in ckls : \A v \in DOMAIN contents[x.job.template] \ x.file.updated :
        x.file.items[v] = contents[x.job.template][v]
  <2> SUFFICES ASSUME NEW x \in ckls, NEW v \in DOMAIN contents[x.job.template], v \notin x.file.updated
               PROVE  x.file.items[v] = contents[x.job.template][v]
    OBVIOUS
  <2>1. PICK j \in jobs : x = file(j)
    BY <1>1
  <2>2. x.job = j /\ x.file = written(j)
    BY <1>2, <2>1
  <2>3. v \notin taken(j)
    BY <1>3, <2>2
  <2> QED BY <1>3, <2>2, <2>3
<1>7. \A x \in ckls : x.job \in jobs /\ DOMAIN x.file.items = DOMAIN contents[x.job.template]
  <2> TAKE x \in ckls
  <2>1. PICK j \in jobs : x = file(j)
    BY <1>1
  <2>2. x.job = j /\ x.file = written(j)
    BY <1>2, <2>1
  <2> QED BY <1>3, <2>2
<1> QED BY <1>5, <1>6, <1>7 DEF Filled

\* Checklists, a CKLB read back, compliance and counts do what RecordsAgree says.
LEMMA RunsWritten ==
  ASSUME WriteChecklists
  PROVE  RecordsAgree'
<1>1. PICK selected \in (SUBSET BothFamilies) \ {{}}, templates \in Templates, preset \in {"Not_Reviewed", "NotAFinding"},
           l2 \in Statuses({1}), ndm \in Statuses({2, 3}) :
        LET results  == [f \in selected |-> IF f = "IOSXE_L2" THEN l2 ELSE ndm]
            contents == [k \in DOMAIN templates |-> [v \in templates[k] |-> preset]]
            jobs     == TemplateJobs(selected, templates, Vulns)
        IN /\ l2 = <<>> \/ ndm \in {<<>>, [v \in {2, 3} |-> "Open"]} \/ templates = [k \in {"COMBINED"} |-> {1, 2}]
           /\ Parsed("checklists", [selected |-> selected, templates |-> templates, results |-> results,
                                    preset |-> preset],
                     [jobs |-> jobs, files |-> ChecklistFiles(jobs, contents, results)])
  BY Zenon DEF WriteChecklists
<1> DEFINE results  == [f \in selected |-> IF f = "IOSXE_L2" THEN l2 ELSE ndm]
           contents == [k \in DOMAIN templates |-> [v \in templates[k] |-> preset]]
           jobs     == TemplateJobs(selected, templates, Vulns)
           ckls     == ChecklistFiles(jobs, contents, results)
<1>2. Parsed("checklists", [selected |-> selected, templates |-> templates, results |-> results, preset |-> preset],
             [jobs |-> jobs, files |-> ckls])
  BY <1>1, Zenon
<1>3. /\ DOMAIN results = selected /\ selected \in SUBSET BothFamilies
      /\ \A f, g \in selected : f # g => DOMAIN results[f] \cap DOMAIN results[g] = {}
  <2>1. DOMAIN l2 \subseteq {1} /\ DOMAIN ndm \subseteq {2, 3}
    BY DEF Statuses
  <2> QED BY <2>1 DEF BothFamilies
<1>4. /\ \A k \in DOMAIN templates : \A v \in DOMAIN contents[k] : contents[k][v] = preset
  OBVIOUS
<1> HIDE DEF results, contents, jobs, ckls
<1>5. /\ type' = "checklists"
      /\ input'.selected = selected /\ input'.results = results /\ input'.preset = preset
      /\ outcome'.value.jobs = jobs /\ outcome'.value.files = ckls
  BY <1>2 DEF Parsed, Evaluated
<1>6. ASSUME jobs # {}
      PROVE  /\ \A f \in selected : \A v \in DOMAIN results[f] : Landed(ckls, contents, f, v, results[f][v])
             /\ \A x \in ckls : Filled(x, jobs, contents)
  <2>1. jobs = TemplateJobs(selected, templates, Vulns) /\ ckls = ChecklistFiles(jobs, contents, results)
    BY DEF jobs, ckls
  <2>2. selected \in SUBSET BothFamilies
    OBVIOUS
  <2>3. \A f, g \in selected : f # g => DOMAIN results[f] \cap DOMAIN results[g] = {}
    BY <1>3
  <2> QED BY <1>6, <2>1, <2>2, <2>3, ChecklistsAreComplete
<1>7. ASSUME jobs # {}
      PROVE  /\ \A j \in jobs : j.families \subseteq selected /\ j.template \in DOMAIN templates
             /\ \A f \in selected : \E j \in jobs : f \in j.families
  BY <1>3, <1>7, JobsOf DEF jobs
<1>8. jobs = {} => ckls = {}
  BY DEF ckls, ChecklistFiles
<1>9. ASSUME NEW f \in DOMAIN results, NEW v \in {1, 2, 3}, v \in DOMAIN results[f], jobs # {}
      PROVE  LET status == results[f][v]
                 homes  == {x \in ckls : f \in x.job.families}
             IN /\ Cardinality(homes) = 1
                /\ \A x \in homes :
                     IF v \in DOMAIN x.file.items
                     THEN /\ x.file.items[v] = "NotAFinding" <=> status = "NotAFinding"
                          /\ x.file.items[v] = "Open" <=> status = "Open"
                          /\ Failed(status) => x.file.items[v] = "Not_Reviewed"
                          /\ v \in x.file.updated
                     ELSE v \in x.file.unmatched
  <2> DEFINE status == results[f][v]
             homes  == {x \in ckls : f \in x.job.families}
  <2>1. PICK x \in ckls :
          /\ f \in x.job.families /\ \A y \in ckls : f \in y.job.families => y = x
          /\ IF v \in DOMAIN contents[x.job.template]
             THEN v \in x.file.updated /\ x.file.items[v] = ChecklistStatus(status)
             ELSE v \in x.file.unmatched
    BY <1>3, <1>6, <1>9 DEF Landed
  <2>2. homes = {x}
    BY <2>1
  <2>3. DOMAIN x.file.items = DOMAIN contents[x.job.template]
    BY <1>6, <1>9, <2>1 DEF Filled
  <2>4. /\ ChecklistStatus(status) = "NotAFinding" <=> status = "NotAFinding"
        /\ ChecklistStatus(status) = "Open" <=> status = "Open"
        /\ Failed(status) => ChecklistStatus(status) = "Not_Reviewed"
    <3> HIDE DEF status
    <3> QED BY DEF ChecklistStatus, Failed
  <2>5. Cardinality(homes) = 1
    BY <2>2, FS_Singleton
  <2> HIDE DEF homes, status
  <2>6. \A y \in homes : y = x
    BY <2>2
  <2>7. CASE v \in DOMAIN contents[x.job.template]
    BY <2>1, <2>3, <2>4, <2>5, <2>6, <2>7, Zenon DEF homes, status
  <2>8. CASE v \notin DOMAIN contents[x.job.template]
    BY <2>1, <2>3, <2>5, <2>6, <2>8, Zenon DEF homes, status
  <2> QED BY <2>7, <2>8, Zenon
<1>10. \A x \in ckls, v \in {1, 2, 3} :
         v \in DOMAIN x.file.items \ x.file.updated => x.file.items[v] = preset
  <2> SUFFICES ASSUME NEW x \in ckls, NEW v \in DOMAIN x.file.items \ x.file.updated
               PROVE  x.file.items[v] = preset
    OBVIOUS
  <2>1. jobs # {}
    BY <1>8
  <2>2. DOMAIN x.file.items = DOMAIN contents[x.job.template] /\ x.job.template \in DOMAIN templates
    BY <1>6, <1>7, <2>1 DEF Filled
  <2>3. x.file.items[v] = contents[x.job.template][v]
    BY <1>6, <2>1, <2>2 DEF Filled
  <2> QED BY <1>4, <2>2, <2>3
<1>11. jobs # {} => UNION {j.families : j \in jobs} = selected
  BY <1>7
<1>12. ChecklistsAgree'
  <2>1. \A f \in DOMAIN results, v \in {1, 2, 3} :
          v \in DOMAIN results[f] /\ jobs # {} =>
            LET status == results[f][v]
                homes  == {x \in ckls : f \in x.job.families}
            IN /\ Cardinality(homes) = 1
               /\ \A x \in homes :
                    IF v \in DOMAIN x.file.items
                    THEN /\ x.file.items[v] = "NotAFinding" <=> status = "NotAFinding"
                         /\ x.file.items[v] = "Open" <=> status = "Open"
                         /\ Failed(status) => x.file.items[v] = "Not_Reviewed"
                         /\ v \in x.file.updated
                    ELSE v \in x.file.unmatched
    BY <1>9, Zenon
  <2>2. type' # "cklb"
    BY <1>5
  <2>3. /\ \A x \in outcome'.value.files, v \in {1, 2, 3} :
             v \in DOMAIN x.file.items \ x.file.updated => x.file.items[v] = input'.preset
        /\ outcome'.value.jobs # {} => UNION {j.families : j \in outcome'.value.jobs} = input'.selected
    BY <1>5, <1>10, <1>11
  <2>4. \A f \in DOMAIN input'.results, v \in {1, 2, 3} :
          v \in DOMAIN input'.results[f] /\ outcome'.value.jobs # {} =>
            LET status == input'.results[f][v]
                homes  == {x \in outcome'.value.files : f \in x.job.families}
            IN /\ Cardinality(homes) = 1
               /\ \A x \in homes :
                    IF v \in DOMAIN x.file.items
                    THEN /\ x.file.items[v] = "NotAFinding" <=> status = "NotAFinding"
                         /\ x.file.items[v] = "Open" <=> status = "Open"
                         /\ Failed(status) => x.file.items[v] = "Not_Reviewed"
                         /\ v \in x.file.updated
                    ELSE v \in x.file.unmatched
    BY <1>5, <2>1
  <2>5. ChecklistsWritten(input', outcome'.value)
    BY <2>3, <2>4, Zenon DEF ChecklistsWritten
  <2> QED BY <2>2, <2>5, Zenon DEF ChecklistsAgree
<1>13. ReportsAddUp'
  BY <1>5 DEF ReportsAddUp
<1> QED BY <1>12, <1>13 DEF RecordsAgree

\* Quotient and remainder of a percentage.
LEMMA Share ==
  ASSUME NEW a \in Nat, NEW b \in Nat, b > 0, a <= b,
         NEW q, q = (100 * a) \div b, NEW r, r = (100 * a) % b
  PROVE  /\ q \in Int /\ r \in Int /\ 0 <= r /\ r < b
         /\ 0 <= q /\ ((q = 100 /\ a = b /\ r = 0) \/ (q <= 99 /\ a < b))
         /\ q = 99 => 100 * a = 99 * b + r
<1>1. q \in Int /\ r \in Int /\ 0 <= r /\ r < b /\ 100 * a = q * b + r
  OBVIOUS
<1>2. q >= 0
  BY <1>1
<1>3. CASE a = b
  <2>1. 100 * b = q * b + r
    BY <1>1, <1>3
  <2>2. q = 100
    <3>1. q <= 99 => q * b <= 99 * b
      BY <1>1
    <3>2. q >= 101 => q * b >= 101 * b
      BY <1>1
    <3>3. q \in Int
      BY <1>1
    <3> DEFINE p == q * b
    <3>4. p \in Int /\ 100 * b = p + r
      BY <1>1, <2>1
    <3> HIDE DEF p
    <3>5. ~(q <= 99)
      BY <1>1, <3>1, <3>4 DEF p
    <3>6. ~(q >= 101)
      BY <1>1, <3>2, <3>4 DEF p
    <3> QED BY <3>3, <3>5, <3>6
  <2> QED BY <1>1, <1>3, <2>1, <2>2
<1>4. CASE a < b
  <2>1. q <= 99
    <3> SUFFICES ASSUME q >= 100 PROVE FALSE
      BY <1>1
    <3>1. q * b >= 100 * b
      BY <1>1
    <3> QED BY <1>1, <1>4, <3>1
  <2> QED BY <1>1, <1>2, <1>4, <2>1
<1> QED BY <1>3, <1>4

\* The compliance shown is a percentage, and 100 with a finding open only when at
\* least 200 checks were scored, which is when rounding can hide one.
THEOREM ComplianceIsFair ==
  ASSUME NEW counts \in [ReportStatuses -> Nat]
  PROVE  /\ Compliance(counts) \in 0..100
         /\ Compliance(counts) = 100 /\ counts["Open"] > 0 => Scorable(counts) >= 200
<1> DEFINE a == counts["NotAFinding"]
           b == Scorable(counts)
           q == (100 * a) \div b
           r == (100 * a) % b
<1>1. a \in Nat /\ b \in Nat /\ a <= b /\ (counts["Open"] > 0 => a < b)
  BY DEF Scorable, ReportStatuses
<1>2. CASE b = 0
  BY <1>2 DEF Compliance
<1>3. CASE b > 0
  <2>1. Compliance(counts) = IF 2 * r > b \/ (2 * r = b /\ q % 2 = 1) THEN q + 1 ELSE q
    BY <1>1, <1>3 DEF Compliance, Percent
  <2>2. /\ q \in Int /\ r \in Int /\ 0 <= r /\ r < b
        /\ 0 <= q /\ ((q = 100 /\ a = b /\ r = 0) \/ (q <= 99 /\ a < b))
        /\ q = 99 => 100 * a = 99 * b + r
    <3> HIDE DEF a, b
    <3> QED BY <1>1, <1>3, Share
  <2> HIDE DEF a, b, q, r
  <2>3. CASE q = 100 /\ a = b /\ r = 0
    <3>1. ~(2 * r > b) /\ ~(2 * r = b)
      BY <1>1, <1>3, <2>3
    <3> QED BY <1>1, <2>1, <2>3, <3>1
  <2>4. CASE q <= 99 /\ a < b
    <3>1. Compliance(counts) \in {q, q + 1} /\ Compliance(counts) \in 0..100
      BY <2>1, <2>2, <2>4
    <3>2. ASSUME Compliance(counts) = 100 PROVE b >= 200
      <4>1. q = 99 /\ 2 * r >= b
        <5>1. q = 99 /\ Compliance(counts) # q
          BY <2>2, <2>4, <3>1, <3>2
        <5>2. 2 * r > b \/ (2 * r = b /\ q % 2 = 1)
          BY <2>1, <5>1, Zenon
        <5> QED BY <1>1, <2>2, <5>1, <5>2
      <4>2. 100 * a = 99 * b + r
        BY <2>2, <4>1
      <4> QED BY <1>1, <2>2, <2>4, <4>1, <4>2
    <3> QED BY <3>1, <3>2 DEF b
  <2> QED BY <2>2, <2>3, <2>4
<1> QED BY <1>1, <1>2, <1>3

\* A checklist read back says what was written.
LEMMA ReadsBack ==
  ASSUME RoundTripCklb
  PROVE  RecordsAgree'
<1>1. PICK results \in Statuses({1, 2}), vulns \in SUBSET {1, 2} :
        Parsed("cklb", [results |-> results, vulns |-> vulns],
               ImportedResults(Completed(BlankCklb(vulns), results).items))
  BY Zenon DEF RoundTripCklb
<1> DEFINE items == Completed(BlankCklb(vulns), results).items
<1>2. /\ type' = "cklb" /\ input'.results = results /\ input'.vulns = vulns
      /\ outcome'.value = ImportedResults(items)
  BY <1>1 DEF Parsed, Evaluated
<1>3. items = [v \in vulns |-> IF v \in DOMAIN results THEN ChecklistStatus(results[v]) ELSE BlankCklb(vulns)[v]]
  BY DEF Completed, BlankCklb
<1>4. \A v \in vulns : BlankCklb(vulns)[v] = "Not_Reviewed"
  BY DEF BlankCklb
<1> HIDE DEF items
<1>5. \A v \in vulns : ImportedResults(items)[v] = IF v \in DOMAIN results THEN ChecklistStatus(results[v])
                                                   ELSE "Not_Reviewed"
  BY <1>3, <1>4 DEF ImportedResults
<1>6. \A v \in vulns : outcome'.value[v] = (IF v \in DOMAIN results /\ ~Failed(results[v])
                                           THEN results[v] ELSE "Not_Reviewed")
  BY <1>2, <1>5 DEF ChecklistStatus
<1>7. ChecklistsAgree'
  BY <1>2, <1>6 DEF ChecklistsAgree
<1>8. ReportsAddUp'
  BY <1>2 DEF ReportsAddUp
<1> QED BY <1>7, <1>8 DEF RecordsAgree

\* The percentage shown agrees with the counts.
LEMMA ComplianceShown ==
  ASSUME CountCompliance
  PROVE  RecordsAgree'
<1>1. PICK passed \in {0, 1, 2, 99, 199, 200}, open \in 0..3, failed \in 0..3 :
        LET counts == [s \in ReportStatuses |-> CASE s = "NotAFinding" -> passed [] s = "Open" -> open
                                                  [] s = "Error" -> failed [] OTHER -> 1]
        IN  Parsed("compliance", counts, Compliance(counts))
  BY Zenon DEF CountCompliance
<1> DEFINE counts == [s \in ReportStatuses |-> CASE s = "NotAFinding" -> passed [] s = "Open" -> open
                                                 [] s = "Error" -> failed [] OTHER -> 1]
<1>2. Parsed("compliance", counts, Compliance(counts))
  BY <1>1, Zenon
<1>3. counts \in [ReportStatuses -> Nat]
  OBVIOUS
<1> HIDE DEF counts
<1>4. type' = "compliance" /\ input' = counts /\ outcome'.value = Compliance(counts)
  BY <1>2 DEF Parsed, Evaluated
<1>5. /\ Compliance(counts) \in 0..100
      /\ Compliance(counts) = 100 /\ counts["Open"] > 0 => Scorable(counts) >= 200
  BY <1>3, ComplianceIsFair
<1>6. ReportsAddUp'
  BY <1>4, <1>5 DEF ReportsAddUp
<1>7. ChecklistsAgree'
  BY <1>4 DEF ChecklistsAgree
<1> QED BY <1>6, <1>7 DEF RecordsAgree

\* A part and the rest have together as many members as the whole.
LEMMA Split ==
  ASSUME NEW A, IsFiniteSet(A), NEW B, B \subseteq A
  PROVE  /\ IsFiniteSet(B) /\ IsFiniteSet(A \ B)
         /\ Cardinality(B) \in Nat /\ Cardinality(A \ B) \in Nat /\ Cardinality(A) \in Nat
         /\ Cardinality(A) = Cardinality(B) + Cardinality(A \ B)
<1>1. IsFiniteSet(B) /\ IsFiniteSet(A \ B) /\ Cardinality(A \ B) = Cardinality(A) - Cardinality(A \cap B)
  BY FS_Subset, FS_Difference
<1>2. A \cap B = B
  OBVIOUS
<1>3. Cardinality(B) \in Nat /\ Cardinality(A \ B) \in Nat /\ Cardinality(A) \in Nat
  BY <1>1, FS_CardinalityType
<1> QED BY <1>1, <1>2, <1>3

\* The counts by status add up to the number of results (build_json_report).
THEOREM CountsAddUp ==
  ASSUME NEW results, NEW among, IsFiniteSet(among), \A k \in among : results[k].status \in ReportStatuses
  PROVE  Total(CountsAmong(results, among)) = Cardinality(among)
<1> DEFINE at(s) == {k \in among : results[k].status = s}
           A1 == among \ at("NotAFinding")
           A2 == A1 \ at("Open")
           A3 == A2 \ at("Error")
           A4 == A3 \ at("Skipped")
           A5 == A4 \ at("Not_Applicable")
           A6 == A5 \ at("Not_Reviewed")
<1>1. /\ at("NotAFinding") \subseteq among /\ at("Open") \subseteq A1 /\ at("Error") \subseteq A2
      /\ at("Skipped") \subseteq A3 /\ at("Not_Applicable") \subseteq A4 /\ at("Not_Reviewed") \subseteq A5
  OBVIOUS
<1>2. A6 = {}
  BY DEF ReportStatuses
<1>3. /\ CountsAmong(results, among)["NotAFinding"] = Cardinality(at("NotAFinding"))
      /\ CountsAmong(results, among)["Open"] = Cardinality(at("Open"))
      /\ CountsAmong(results, among)["Error"] = Cardinality(at("Error"))
      /\ CountsAmong(results, among)["Skipped"] = Cardinality(at("Skipped"))
      /\ CountsAmong(results, among)["Not_Applicable"] = Cardinality(at("Not_Applicable"))
      /\ CountsAmong(results, among)["Not_Reviewed"] = Cardinality(at("Not_Reviewed"))
  BY DEF CountsAmong, ReportStatuses
<1> HIDE DEF at
<1>4. /\ IsFiniteSet(A1) /\ Cardinality(A1) \in Nat /\ Cardinality(at("NotAFinding")) \in Nat
      /\ Cardinality(among) = Cardinality(at("NotAFinding")) + Cardinality(A1)
  BY <1>1, Split
<1> HIDE DEF A1
<1>5. /\ IsFiniteSet(A2) /\ Cardinality(A2) \in Nat /\ Cardinality(at("Open")) \in Nat
      /\ Cardinality(A1) = Cardinality(at("Open")) + Cardinality(A2)
  BY <1>1, <1>4, Split
<1> HIDE DEF A2
<1>6. /\ IsFiniteSet(A3) /\ Cardinality(A3) \in Nat /\ Cardinality(at("Error")) \in Nat
      /\ Cardinality(A2) = Cardinality(at("Error")) + Cardinality(A3)
  BY <1>1, <1>5, Split
<1> HIDE DEF A3
<1>7. /\ IsFiniteSet(A4) /\ Cardinality(A4) \in Nat /\ Cardinality(at("Skipped")) \in Nat
      /\ Cardinality(A3) = Cardinality(at("Skipped")) + Cardinality(A4)
  BY <1>1, <1>6, Split
<1> HIDE DEF A4
<1>8. /\ IsFiniteSet(A5) /\ Cardinality(A5) \in Nat /\ Cardinality(at("Not_Applicable")) \in Nat
      /\ Cardinality(A4) = Cardinality(at("Not_Applicable")) + Cardinality(A5)
  BY <1>1, <1>7, Split
<1> HIDE DEF A5
<1>9. /\ Cardinality(at("Not_Reviewed")) \in Nat
      /\ Cardinality(A5) = Cardinality(at("Not_Reviewed")) + Cardinality(A6)
  BY <1>1, <1>8, Split
<1>10. Cardinality(A6) = 0
  BY <1>2, FS_EmptySet
<1> QED
  BY <1>3, <1>4, <1>5, <1>6, <1>7, <1>8, <1>9, <1>10 DEF Total

\* The counts of a report add up to its results.
LEMMA ResultsCounted ==
  ASSUME CountResults
  PROVE  RecordsAgree'
<1> DEFINE R == [device : {"d", "e"}, status : ReportStatuses]
<1>1. PICK results \in UpTo(3, R) :
        Parsed("report", results, [all |-> StatusCounts(results), devices |-> DeviceCounts(results)])
  BY Zenon DEF CountResults
<1> DEFINE devices == DeviceCounts(results)
           counts == StatusCounts(results)
           of(d) == {k \in DOMAIN results : results[k].device = d}
<1> HIDE DEF R
<1>2. /\ DOMAIN results = 1..Len(results) /\ Len(results) \in Nat /\ \A k \in DOMAIN results : results[k] \in R
  BY <1>1, UpToAreSequences
<1>3. IsFiniteSet(DOMAIN results) /\ Cardinality(DOMAIN results) = Len(results)
  <2>1. \A n \in Nat : IsFiniteSet(1..n) /\ Cardinality(1..n) = n
    BY FS_Interval
  <2> QED BY <1>2, <2>1
<1>4. \A k \in DOMAIN results : results[k].device \in {"d", "e"} /\ results[k].status \in ReportStatuses
  <2>1. \A r \in R : r.device \in {"d", "e"} /\ r.status \in ReportStatuses
    BY DEF R
  <2> QED BY <1>2, <2>1
<1>5. Total(counts) = Len(results)
  BY <1>3, <1>4, CountsAddUp DEF StatusCounts
<1>6. DOMAIN devices = {results[k].device : k \in DOMAIN results}
      /\ \A d \in DOMAIN devices : devices[d] = CountsAmong(results, of(d))
  <2>1. ToSet(results) = {results[k] : k \in DOMAIN results}
    BY <1>2 DEF ToSet
  <2> QED BY <2>1 DEF DeviceCounts
<1> HIDE DEF devices, counts
<1>7. ASSUME NEW s \in ReportStatuses, NEW d \in {"d", "e"}
      PROVE  CountOf(devices, d, s) = Cardinality({k \in of(d) : results[k].status = s})
  <2>1. CASE d \in DOMAIN devices
    BY <1>6, <2>1 DEF CountOf, CountsAmong
  <2>2. CASE d \notin DOMAIN devices
    <3>1. {k \in of(d) : results[k].status = s} = {}
      BY <1>6, <2>2
    <3> QED BY <2>2, <3>1, FS_EmptySet DEF CountOf
  <2> QED BY <2>1, <2>2
<1>8. ASSUME NEW s \in ReportStatuses
      PROVE  counts[s] = CountOf(devices, "d", s) + CountOf(devices, "e", s)
  <2> DEFINE all == {k \in DOMAIN results : results[k].status = s}
             ds == {k \in of("d") : results[k].status = s}
             es == {k \in of("e") : results[k].status = s}
  <2>1. counts[s] = Cardinality(all)
    BY DEF counts, StatusCounts, CountsAmong
  <2>2. ds \subseteq all /\ es = all \ ds /\ all \subseteq DOMAIN results
    BY <1>4
  <2>3. CountOf(devices, "d", s) = Cardinality(ds) /\ CountOf(devices, "e", s) = Cardinality(es)
    BY <1>7
  <2> HIDE DEF all, ds, es
  <2>4. IsFiniteSet(all)
    BY <1>3, <2>2, FS_Subset
  <2>5. Cardinality(all) = Cardinality(ds) + Cardinality(all \ ds)
    BY <2>2, <2>4, Split
  <2> QED BY <2>1, <2>2, <2>3, <2>5
<1>9. type' = "report" /\ input' = results /\ outcome'.value.all = counts /\ outcome'.value.devices = devices
  BY <1>1 DEF Parsed, Evaluated, counts, devices
<1>10. ReportsAddUp'
  BY <1>5, <1>8, <1>9, Zenon DEF ReportsAddUp
<1>11. ChecklistsAgree'
  BY <1>9 DEF ChecklistsAgree
<1> QED BY <1>10, <1>11 DEF RecordsAgree

\* What is written and counted of a run agrees with its results, in every case of the model
\* (write_completed_ckl, populate_cklb, build_json_report).
THEOREM RecordsStayAgreed == Spec => []RecordsAgree
<1>1. Init => RecordsAgree
  BY DEF Init, RecordsAgree, ChecklistsAgree, ReportsAddUp
<1>2. RecordsAgree /\ [Next]_vars => RecordsAgree'
  <2> SUFFICES ASSUME RecordsAgree, [Next]_vars PROVE RecordsAgree'
    OBVIOUS
  <2>1. CASE WriteChecklists \/ RoundTripCklb \/ CountResults \/ CountCompliance
    BY <2>1, RunsWritten, ReadsBack, ResultsCounted, ComplianceShown
  <2>2. CASE type' \notin {"checklists", "cklb", "report", "compliance"}
    <3>1. type' # "checklists" /\ type' # "cklb" /\ type' # "report" /\ type' # "compliance"
      BY <2>2
    <3>2. ChecklistsAgree'
      BY <3>1, Zenon DEF ChecklistsAgree
    <3>3. ReportsAddUp'
      BY <3>1, Zenon DEF ReportsAddUp
    <3> QED BY <3>2, <3>3 DEF RecordsAgree
  <2>3. CASE UNCHANGED vars
    <3>1. type' = type /\ input' = input /\ outcome' = outcome
      BY <2>3, Zenon DEF vars
    <3>2. ChecklistsAgree /\ ReportsAddUp
      BY Zenon DEF RecordsAgree
    <3>3. ChecklistsAgree'
      BY <3>1, <3>2, Zenon DEF ChecklistsAgree
    <3>4. ReportsAddUp'
      BY <3>1, <3>2, Zenon DEF ReportsAddUp
    <3> QED BY <3>3, <3>4 DEF RecordsAgree
  <2> QED BY <2>1, <2>2, <2>3, Steps, KindOfStep DEF Compared
<1> QED BY <1>1, <1>2, PTL DEF Spec

------------------------------------------------------------------------------
(***************************************************************************)
(* The library of releases: its inductive invariant.                       *)
(***************************************************************************)
Releases == {Release(x[1], x[2]) : x \in Packages \X Families}

\* What an import works on, and an imported package among the releases.
LibraryRecords ==
  [cache : [Families -> SUBSET Packages], lib : Seq(Releases),
   imported : SUBSET (Packages \X Families), ok : BOOLEAN]

Kept(s) ==
  \A x \in s.imported : \E i \in 1..Len(s.lib) :
    s.lib[i].family = x[2] /\ s.lib[i].rules = x[1].rules

Sound(s) ==
  /\ s \in LibraryRecords
  /\ \A f \in Families : s.cache[f] = {} \/ \E p \in Packages : s.cache[f] = {p}
  /\ Kept(s)

\* Releases are only ever added.
Extended(s, t) ==
  /\ Len(s.lib) <= Len(t.lib)
  /\ \A i \in 1..Len(s.lib) : t.lib[i] = s.lib[i]

\* The rows of the mapping table are of rules that are there, one for a check
\* and a file; a row with the text of its rule was marked or claimed.
RowOK(m) ==
  /\ m = [release |-> m.release, rule |-> m.rule, vuln |-> m.vuln, file |-> m.file,
          fingerprint |-> m.fingerprint]
  /\ m.release \in 1..view
  /\ m.rule \in DOMAIN lib[m.release].rules
  /\ m.file \in Files
  /\ m.fingerprint = lib[m.release].rules[m.rule] =>
       <<m.release, m.rule>> \in marked \/ Claimed(m.rule, m.fingerprint)

RowsOK(rows) ==
  /\ \A m \in rows : RowOK(m)
  /\ \A m, n \in rows : SameMapping(m, n) => m = n

Shown ==
  /\ view \in 0..Len(lib)
  /\ shown \in (0..view) \X (0..view)

\* The generated file, where there is one, holds starters.
Checks ==
  /\ files \in [main : Edits, generated : SUBSET (SUBSET {Starter(v) : v \in UNION {DOMAIN p.rules : p \in Packages}})]
  /\ files.main \in held
  /\ edited \in BOOLEAN

LibraryInv == Sound(Library) /\ Shown /\ RowsOK(mappings) /\ Checks /\ GeneratedLoads
-----------------------------------------------------------------------------
(***************************************************************************)
(* Imports.                                                                *)
(***************************************************************************)
LEMMA StoredKeeps ==
  ASSUME NEW releases \in Seq(Releases), NEW p \in Packages, NEW f \in Families
  PROVE  LET t == Stored(releases, Release(p, f)) IN
         /\ t \in Seq(Releases)
         /\ Len(releases) <= Len(t)
         /\ \A i \in 1..Len(releases) : t[i] = releases[i]
         /\ \E i \in 1..Len(t) : t[i].family = f /\ t[i].rules = p.rules
<1> DEFINE r == Release(p, f)
           t == Stored(releases, r)
<1>1. r \in Releases /\ r.family = f /\ r.rules = p.rules /\ r.sha256 = p.revision
  <2>1. <<p, f>> \in Packages \X Families
    OBVIOUS
  <2>2. r \in Releases
    BY <2>1 DEF Releases
  <2> QED BY <2>2 DEF Release
<1>2. CASE \E i \in DOMAIN releases : SameRelease(releases[i], r)
  <2>1. t = releases
    BY <1>2 DEF Stored
  <2>2. PICK i \in DOMAIN releases : SameRelease(releases[i], r)
    BY <1>2
  <2>3. i \in 1..Len(releases) /\ releases[i] \in Releases
    BY <2>2
  <2>4. PICK x \in Packages \X Families : releases[i] = Release(x[1], x[2])
    BY <2>3 DEF Releases
  <2>5. x[1] \in Packages /\ releases[i].sha256 = x[1].revision /\ releases[i].rules = x[1].rules
    BY <2>4 DEF Release
  <2>6. x[1].revision = p.revision /\ releases[i].family = f
    BY <1>1, <2>2, <2>5 DEF SameRelease, Compatible
  <2>7. releases[i].rules = p.rules
    BY <2>5, <2>6, PackagesAssumption
  <2> QED BY <2>1, <2>3, <2>6, <2>7
<1>3. CASE ~ \E i \in DOMAIN releases : SameRelease(releases[i], r)
  <2>1. t = Append(releases, r)
    BY <1>3 DEF Stored
  <2> HIDE DEF r, t
  <2>2. t \in Seq(Releases) /\ Len(t) = Len(releases) + 1 /\ t[Len(t)] = r
        /\ Len(releases) \in Nat
        /\ \A i \in 1..Len(releases) : t[i] = releases[i]
    BY <1>1, <2>1
  <2> QED BY <1>1, <2>2 DEF t, r
<1> QED
  BY <1>2, <1>3

\* Installing a package keeps the library sound and only adds to it.
LEMMA InstallKeeps ==
  ASSUME NEW s, Sound(s), NEW p \in Packages, NEW f \in Families
  PROVE  Sound(Install(s, p, f)) /\ Extended(s, Install(s, p, f))
<1> DEFINE releases == Stored(s.lib, Release(p, f))
           cached   == [s EXCEPT !.cache[f] = {p}]
           refused  == [cached EXCEPT !.ok = FALSE]
           done     == [cached EXCEPT !.lib = releases, !.imported = @ \cup {<<p, f>>}]
<1>1. /\ s \in LibraryRecords
      /\ s.cache \in [Families -> SUBSET Packages] /\ s.lib \in Seq(Releases)
      /\ s.imported \in SUBSET (Packages \X Families) /\ s.ok \in BOOLEAN
      /\ \A g \in Families : s.cache[g] = {} \/ \E q \in Packages : s.cache[g] = {q}
      /\ Kept(s)
  BY DEF Sound, LibraryRecords
<1>2. /\ releases \in Seq(Releases)
      /\ Len(s.lib) <= Len(releases)
      /\ \A i \in 1..Len(s.lib) : releases[i] = s.lib[i]
      /\ \E i \in 1..Len(releases) : releases[i].family = f /\ releases[i].rules = p.rules
  <2>1. s.lib \in Seq(Releases)
    BY <1>1
  <2> QED BY <2>1, StoredKeeps, Zenon
<1> HIDE DEF releases
<1>3. /\ cached.cache = [s.cache EXCEPT ![f] = {p}]
      /\ cached.cache \in [Families -> SUBSET Packages]
      /\ \A g \in Families : cached.cache[g] = {} \/ \E q \in Packages : cached.cache[g] = {q}
      /\ cached.lib = s.lib /\ cached.imported = s.imported /\ cached.ok = s.ok
      /\ cached \in LibraryRecords
  BY <1>1 DEF LibraryRecords
<1> HIDE DEF cached
<1>4. Len(s.lib) \in Nat
  BY <1>1
<1>5. Sound(refused) /\ Extended(s, refused)
  <2>1. refused \in LibraryRecords /\ refused.cache = cached.cache /\ refused.lib = s.lib
        /\ refused.imported = s.imported
    BY <1>3 DEF LibraryRecords
  <2> HIDE DEF refused
  <2> QED BY <1>1, <1>3, <1>4, <2>1 DEF Sound, Kept, Extended
<1>6. Sound(done) /\ Extended(s, done)
  <2>1. done.cache = cached.cache /\ done.lib = releases
        /\ done.imported = s.imported \cup {<<p, f>>}
        /\ done \in LibraryRecords
    <3>1. s.imported \cup {<<p, f>>} \in SUBSET (Packages \X Families)
      BY <1>1
    <3> QED BY <1>2, <1>3, <3>1 DEF LibraryRecords
  <2> HIDE DEF done
  <2>2. Kept(done)
    <3> SUFFICES ASSUME NEW x \in done.imported
                 PROVE  \E i \in 1..Len(releases) :
                          releases[i].family = x[2] /\ releases[i].rules = x[1].rules
      BY <2>1 DEF Kept
    <3>1. CASE x = <<p, f>>
      BY <1>2, <3>1
    <3>2. CASE x \in s.imported
      <4>1. PICK i \in 1..Len(s.lib) : s.lib[i].family = x[2] /\ s.lib[i].rules = x[1].rules
        BY <1>1, <3>2 DEF Kept
      <4>2. Len(releases) \in Nat
        BY <1>2
      <4> QED BY <1>2, <1>4, <4>1, <4>2
    <3> QED BY <2>1, <3>1, <3>2
  <2> QED BY <1>2, <1>3, <2>1, <2>2 DEF Sound, Extended
<1>7. CASE ~s.ok
  BY <1>4, <1>7 DEF Install, Extended
<1>8. CASE s.ok
  <2>1. Install(s, p, f) = IF ~Belongs(p, f) THEN refused ELSE done
    BY <1>8 DEF Install, releases, cached
  <2> QED BY <1>5, <1>6, <2>1
<1> QED
  BY <1>7, <1>8

\* Extension is transitive.
LEMMA ExtendedTwice ==
  ASSUME NEW s, NEW t, NEW u, Sound(s), Sound(t), Sound(u), Extended(s, t), Extended(t, u)
  PROVE  Extended(s, u)
<1>1. Len(s.lib) \in Nat /\ Len(t.lib) \in Nat /\ Len(u.lib) \in Nat
  BY DEF Sound, LibraryRecords
<1> QED
  BY <1>1 DEF Extended

\* Rows, diffs and the tree stay right while releases are added.
LEMMA FinishKeeps ==
  ASSUME LibraryInv, NEW s, Sound(s), Extended(Library, s), Finish(s)
  PROVE  LibraryInv'
<1>1. /\ cache' = s.cache /\ lib' = s.lib /\ imported' = s.imported
      /\ view' = IF s.ok THEN Len(s.lib) ELSE view
      /\ UNCHANGED <<mappings, files, loaded, shown, marked, held, edited, edits>>
  BY DEF Finish
<1>2. s.lib \in Seq(Releases) /\ Len(s.lib) \in Nat /\ s \in LibraryRecords
  BY DEF Sound, LibraryRecords
<1>3. lib \in Seq(Releases) /\ Len(lib) \in Nat /\ Len(lib) <= Len(s.lib)
      /\ \A i \in 1..Len(lib) : s.lib[i] = lib[i]
  BY DEF LibraryInv, Sound, LibraryRecords, Library, Extended
<1>4. Sound(Library)'
  <2>1. Library' = [cache |-> s.cache, lib |-> s.lib, imported |-> s.imported, ok |-> TRUE]
    BY <1>1 DEF Library
  <2>2. Library' \in LibraryRecords /\ Library'.cache = s.cache /\ Library'.lib = s.lib
        /\ Library'.imported = s.imported
    BY <1>2, <2>1 DEF LibraryRecords
  <2> QED BY <2>2 DEF Sound, Kept
<1>5. view \in 0..Len(lib) /\ view <= view' /\ view' \in 0..Len(lib')
  BY <1>1, <1>2, <1>3 DEF LibraryInv, Shown
<1>6. Shown'
  BY <1>1, <1>2, <1>3, <1>5 DEF LibraryInv, Shown
<1>7. RowsOK(mappings)'
  <2>1. \A i \in 1..view : i \in 1..view' /\ lib'[i] = lib[i]
    BY <1>1, <1>2, <1>3, <1>5
  <2>2. \A m \in mappings : RowOK(m) => RowOK(m)'
    BY <1>1, <2>1 DEF RowOK, Claimed
  <2> QED BY <1>1, <2>2 DEF LibraryInv, RowsOK, SameMapping
<1>8. Checks' /\ GeneratedLoads'
  BY <1>1 DEF LibraryInv, Checks, GeneratedLoads, Loadable, OnDisk, Generated
<1> QED
  BY <1>4, <1>6, <1>7, <1>8 DEF LibraryInv

\* Importing a source keeps the invariant.
LEMMA ImportKeeps ==
  ASSUME LibraryInv, NEW p \in Packages, NEW f \in Families, ImportStigSource(p, f)
  PROVE  LibraryInv'
  BY InstallKeeps, FinishKeeps DEF LibraryInv, ImportStigSource

\* Downloading the core STIGs keeps the invariant.
LEMMA DownloadKeeps ==
  ASSUME LibraryInv, NEW p \in Packages, NEW second \in {{}} \cup {{q} : q \in Packages},
         DownloadCoreStigs(p, second)
  PROVE  LibraryInv'
<1> DEFINE one == Install(Library, p, Layer2)
           failed == [one EXCEPT !.ok = FALSE]
           q == CHOOSE q \in second : TRUE
<1>1. Sound(Library) /\ Layer2 \in Families /\ Management \in Families
  BY DEF LibraryInv, Families
<1>2. Sound(one) /\ Extended(Library, one)
  BY <1>1, InstallKeeps
<1> HIDE DEF one
<1>3. CASE second = {}
  <2>1. failed \in LibraryRecords /\ failed.cache = one.cache /\ failed.lib = one.lib
        /\ failed.imported = one.imported
    BY <1>2 DEF Sound, LibraryRecords
  <2>2. Finish(failed)
    BY <1>3 DEF DownloadCoreStigs, one
  <2> HIDE DEF failed
  <2>3. Sound(failed) /\ Extended(Library, failed)
    BY <1>2, <2>1 DEF Sound, Kept, Extended
  <2> QED BY <2>2, <2>3, FinishKeeps
<1>4. CASE second # {}
  <2>1. q \in Packages
    BY <1>4
  <2>2. Finish(Install(one, q, Management))
    BY <1>4 DEF DownloadCoreStigs, one
  <2> HIDE DEF q
  <2>3. Sound(Install(one, q, Management)) /\ Extended(one, Install(one, q, Management))
    BY <1>1, <1>2, <2>1, InstallKeeps
  <2>4. Extended(Library, Install(one, q, Management))
    BY <1>1, <1>2, <2>3, ExtendedTwice
  <2> QED BY <2>2, <2>3, <2>4, FinishKeeps
<1> QED
  BY <1>3, <1>4
-----------------------------------------------------------------------------
(***************************************************************************)
(* Comparisons, coverage and reviews.                                      *)
(***************************************************************************)
\* A set of release numbers that is not empty has a last one.
LEMMA Latest ==
  ASSUME NEW n \in Nat, NEW S \in SUBSET (1..n), S # {}
  PROVE  \E j \in S : \A k \in S : k <= j
<1> DEFINE R == {ss \in Nat \X Nat : ss[1] < ss[2]}
           D == {n - j : j \in S}
<1>1. IsWellFoundedOn(R, Nat)
  BY NatLessThanWellFounded DEF OpToRel
<1>2. \A a, b \in Nat : a < b => <<a, b>> \in R
  OBVIOUS
<1>3. D \subseteq Nat /\ D # {}
  <2>1. \A j \in 1..n : n - j \in Nat
    OBVIOUS
  <2>2. D \subseteq Nat
    BY <2>1
  <2> QED BY <2>2
<1> HIDE DEF R, D
<1>4. PICK d \in D : \A a \in D : ~ (<<a, d>> \in R)
  BY <1>1, <1>3, WFMin
<1>5. PICK j \in S : d = n - j
  BY DEF D
<1>6. \A k \in S : n - k \in D
  BY DEF D
<1>7. \A k \in S : k <= j
  <2> SUFFICES ASSUME NEW k \in S, ~ (k <= j) PROVE FALSE
    OBVIOUS
  <2>1. k \in 1..n /\ j \in 1..n
    OBVIOUS
  <2>2. n - k < n - j /\ n - k \in Nat /\ n - j \in Nat
    BY <2>1
  <2> QED BY <1>2, <1>4, <1>5, <1>6, <2>2
<1> QED
  BY <1>7

\* The previous release stands earlier in the library.
LEMMA PreviousEarlier ==
  ASSUME NEW i \in Nat \ {0}
  PROVE  Previous(lib, i) \in 0..(i - 1)
<1> DEFINE earlier == {j \in 1..(i - 1) : Compatible(lib[j], lib[i])}
<1>1. CASE earlier = {}
  BY <1>1 DEF Previous
<1>2. CASE earlier # {}
  <2>1. i - 1 \in Nat /\ earlier \in SUBSET (1..(i - 1))
    OBVIOUS
  <2>2. Previous(lib, i) = CHOOSE j \in earlier : \A k \in earlier : k <= j
    BY <1>2 DEF Previous
  <2> HIDE DEF earlier
  <2>3. \E j \in earlier : \A k \in earlier : k <= j
    BY <1>2, <2>1, Latest
  <2>4. Previous(lib, i) \in earlier
    BY <2>2, <2>3
  <2>5. 1..(i - 1) \subseteq 0..(i - 1)
    OBVIOUS
  <2>6. earlier \subseteq 1..(i - 1)
    BY <2>1
  <2> QED BY <2>4, <2>5, <2>6
<1> HIDE DEF earlier
<1> QED
  BY <1>1, <1>2

\* A step that only shows another diff.
LEMMA ShowKeeps ==
  ASSUME LibraryInv, NEW d \in (0..view) \X (0..view), shown' = d,
         UNCHANGED <<cache, lib, mappings, files, loaded, view, imported, marked, held, edited, edits>>
  PROVE  LibraryInv'
<1>1. Sound(Library)'
  BY DEF LibraryInv, Sound, Library, Kept
<1>2. Shown'
  BY DEF LibraryInv, Shown
<1>3. RowsOK(mappings)'
  BY DEF LibraryInv, RowsOK, RowOK, Claimed, SameMapping
<1>4. Checks' /\ GeneratedLoads'
  BY DEF LibraryInv, Checks, GeneratedLoads, Loadable, OnDisk, Generated
<1> QED
  BY <1>1, <1>2, <1>3, <1>4 DEF LibraryInv

\* Either comparison keeps the invariant.
LEMMA CompareKeeps ==
  /\ \A i \in 1..view : LibraryInv /\ CompareToPrevious(i) => LibraryInv'
  /\ \A i, j \in 1..view : LibraryInv /\ CompareSelected(i, j) => LibraryInv'
<1>1. ASSUME NEW i \in 1..view, LibraryInv, CompareToPrevious(i) PROVE LibraryInv'
  <2>1. view \in Nat
    BY <1>1 DEF LibraryInv, Sound, Library, LibraryRecords, Shown
  <2>2. Previous(lib, i) \in 0..(i - 1)
    BY <2>1, PreviousEarlier
  <2>3. <<Previous(lib, i), i>> \in (0..view) \X (0..view)
    BY <2>1, <2>2
  <2> QED BY <1>1, <2>3, ShowKeeps DEF CompareToPrevious
<1>2. ASSUME NEW i \in 1..view, NEW j \in 1..view, LibraryInv, CompareSelected(i, j) PROVE LibraryInv'
  <2>1. view \in Nat
    BY <1>2 DEF LibraryInv, Sound, Library, LibraryRecords, Shown
  <2>2. <<j, i>> \in (0..view) \X (0..view)
    BY <2>1
  <2> QED BY <1>2, <2>2, ShowKeeps DEF CompareSelected
<1> QED
  BY <1>1, <1>2

\* A file holds one check of a rule, and a check found there speaks for itself.
LEMMA FilesHold ==
  ASSUME Checks, NEW name \in Files
  PROVE  /\ \A c, d \in ChecksIn(files, name) : c.vuln = d.vuln => c = d
         /\ \A v : \A c \in ChecksIn(files, name) :
              MatchesRule(c, v) /\ c.reviewed # "" => Claimed(v, c.reviewed)
<1>1. files.main \in Edits /\ files.main \in held
  BY DEF Checks
<1>2. \A c \in Generated(files) : \E v : c = Starter(v)
  BY DEF Checks, Generated
<1>3. CASE name = "main"
  BY <1>1, <1>3, EditsAssumption DEF ChecksIn, Claimed
<1>4. CASE name # "main"
  <2>1. ChecksIn(files, name) = Generated(files)
    BY <1>4 DEF ChecksIn
  <2>2. \A c \in Generated(files) : c = Starter(c.vuln) /\ c.reviewed = ""
    <3> SUFFICES ASSUME NEW c \in Generated(files) PROVE c = Starter(c.vuln) /\ c.reviewed = ""
      OBVIOUS
    <3>1. PICK v : c = Starter(v)
      BY <1>2
    <3>2. c = [vuln |-> v, named |-> v, automated |-> FALSE, reviewed |-> ""]
      BY <3>1 DEF Starter, Check
    <3>3. c.vuln = v /\ c.reviewed = ""
      BY <3>2
    <3> QED BY <3>1, <3>3
  <2>3. \A c, d \in Generated(files) : c.vuln = d.vuln => c = d
    BY <2>2, Zenon
  <2> QED BY <2>1, <2>2, <2>3
<1> QED
  BY <1>3, <1>4

\* The mappings of a release on disk, and with them those a synchronisation
\* leaves, are right.
LEMMA SyncKeeps ==
  ASSUME LibraryInv, NEW i \in 1..view
  PROVE  RowsOK(SyncCheckMappings(i))
<1> DEFINE added == {n \in RowsOnDisk(i) : \A m \in mappings : ~SameMapping(m, n)}
<1>1. RowsOK(mappings) /\ Checks
  BY DEF LibraryInv
<1>2. ASSUME NEW n \in RowsOnDisk(i)
      PROVE  \E name \in Files : \E c \in ChecksIn(files, name), v \in DOMAIN lib[i].rules :
               n = Mapping(i, name, c, v) /\ {w \in DOMAIN lib[i].rules : MatchesRule(c, w)} = {v}
  BY <1>2 DEF RowsOnDisk
<1>3. \A name \in Files : \A c \in ChecksIn(files, name), v \in DOMAIN lib[i].rules :
        LET n == Mapping(i, name, c, v) IN
        /\ n = [release |-> i, rule |-> v, vuln |-> c.vuln, file |-> name, fingerprint |-> c.reviewed]
        /\ n.release = i /\ n.rule = v /\ n.vuln = c.vuln /\ n.file = name
        /\ n.fingerprint = c.reviewed
  BY DEF Mapping
<1>4. \A v \in DOMAIN lib[i].rules : lib[i].rules[v] # ""
  <2>1. lib[i] \in Releases
    BY DEF LibraryInv, Sound, Library, LibraryRecords, Shown
  <2>2. PICK x \in Packages \X Families : lib[i] = Release(x[1], x[2])
    BY <2>1 DEF Releases
  <2>3. x[1] \in Packages /\ lib[i].rules = x[1].rules
    BY <2>2 DEF Release
  <2> QED BY <2>3, PackagesAssumption
<1>5. ASSUME NEW n \in RowsOnDisk(i) PROVE RowOK(n)
  <2>1. PICK name \in Files : \E c \in ChecksIn(files, name), v \in DOMAIN lib[i].rules :
          n = Mapping(i, name, c, v) /\ {w \in DOMAIN lib[i].rules : MatchesRule(c, w)} = {v}
    BY <1>2
  <2>2. PICK c \in ChecksIn(files, name), v \in DOMAIN lib[i].rules :
          n = Mapping(i, name, c, v) /\ MatchesRule(c, v)
    BY <2>1
  <2>3. n = [release |-> i, rule |-> v, vuln |-> c.vuln, file |-> name, fingerprint |-> c.reviewed]
        /\ n.release = i /\ n.rule = v /\ n.file = name /\ n.fingerprint = c.reviewed
    BY <1>3, <2>2
  <2>4. n.fingerprint = lib[i].rules[v] => Claimed(v, c.reviewed)
    BY <1>1, <1>4, <2>2, <2>3, FilesHold
  <2> QED BY <2>2, <2>3, <2>4 DEF RowOK
<1>6. ASSUME NEW n \in RowsOnDisk(i), NEW k \in RowsOnDisk(i), SameMapping(n, k) PROVE n = k
  <2>1. PICK name \in Files : \E c \in ChecksIn(files, name), v \in DOMAIN lib[i].rules :
          n = Mapping(i, name, c, v)
    BY <1>2
  <2>2. PICK c \in ChecksIn(files, name), v \in DOMAIN lib[i].rules : n = Mapping(i, name, c, v)
    BY <2>1
  <2>3. PICK other \in Files : \E d \in ChecksIn(files, other), w \in DOMAIN lib[i].rules :
          k = Mapping(i, other, d, w)
    BY <1>2
  <2>4. PICK d \in ChecksIn(files, other), w \in DOMAIN lib[i].rules : k = Mapping(i, other, d, w)
    BY <2>3
  <2>5. c.vuln = d.vuln /\ name = other /\ v = w
    BY <1>3, <1>6, <2>2, <2>4 DEF SameMapping
  <2>6. c = d
    BY <1>1, <2>5, FilesHold
  <2> QED BY <2>2, <2>4, <2>5, <2>6
<1>7. SyncCheckMappings(i) = mappings \cup added /\ added \subseteq RowsOnDisk(i)
      /\ \A n \in added : \A m \in mappings : ~SameMapping(m, n) /\ ~SameMapping(n, m)
  BY DEF SyncCheckMappings, SameMapping
<1> HIDE DEF added
<1> QED
  BY <1>1, <1>5, <1>6, <1>7 DEF RowsOK

\* A coverage report keeps the invariant.
LEMMA CoverageKeeps ==
  ASSUME LibraryInv, NEW i \in 1..view, Coverage(i)
  PROVE  LibraryInv'
<1>1. RowsOK(mappings')
  BY SyncKeeps DEF Coverage
<1>2. UNCHANGED <<cache, lib, files, loaded, view, shown, imported, marked, held, edited>>
  BY DEF Coverage
<1>3. Sound(Library)' /\ Shown'
  BY <1>2 DEF LibraryInv, Sound, Library, Kept, Shown
<1>4. RowsOK(mappings)'
  BY <1>1, <1>2 DEF RowsOK, RowOK, Claimed, SameMapping
<1>5. Checks' /\ GeneratedLoads'
  BY <1>2 DEF LibraryInv, Checks, GeneratedLoads, Loadable, OnDisk, Generated
<1> QED
  BY <1>3, <1>4, <1>5 DEF LibraryInv

\* Marking a release reviewed keeps the invariant.
LEMMA MarkKeeps ==
  ASSUME LibraryInv, NEW i \in 1..view, NEW v, MarkReviewed(i, v)
  PROVE  LibraryInv'
<1> DEFINE rows == SyncCheckMappings(i)
           own  == {m \in rows : m.release = i /\ m.rule = v /\ m.vuln = v}
           after(m) == [m EXCEPT !.fingerprint = lib[i].rules[v]]
<1>1. RowsOK(rows)
  BY SyncKeeps
<1>2. UNCHANGED <<cache, lib, files, loaded, view, shown, imported, held, edited>>
      /\ \/ mappings' = rows /\ marked' = marked
         \/ /\ mappings' = (rows \ own) \cup {after(m) : m \in own}
            /\ marked' = marked \cup {<<i, v>>}
  BY DEF MarkReviewed
<1> HIDE DEF rows
<1>3. Sound(Library)' /\ Shown'
  BY <1>2 DEF LibraryInv, Sound, Library, Kept, Shown
<1>4. Checks' /\ GeneratedLoads'
  BY <1>2 DEF LibraryInv, Checks, GeneratedLoads, Loadable, OnDisk, Generated
<1>5. \A m : RowOK(m) => RowOK(m)'
  BY <1>2 DEF RowOK, Claimed
<1>6. ASSUME mappings' = rows PROVE RowsOK(mappings)'
  BY <1>1, <1>5, <1>6 DEF RowsOK, SameMapping
<1>7. ASSUME mappings' = (rows \ own) \cup {after(m) : m \in own},
             marked' = marked \cup {<<i, v>>}
      PROVE  RowsOK(mappings)'
  <2>1. ASSUME NEW m \in own
        PROVE  /\ after(m) = [release |-> i, rule |-> v, vuln |-> v, file |-> m.file,
                            fingerprint |-> lib[i].rules[v]]
               /\ after(m).release = i /\ after(m).rule = v /\ after(m).vuln = v /\ after(m).file = m.file
               /\ after(m).fingerprint = lib[i].rules[v]
               /\ m \in rows /\ RowOK(m) /\ m.release = i /\ m.rule = v /\ m.vuln = v
    <3>1. m \in rows /\ m.release = i /\ m.rule = v /\ m.vuln = v /\ RowOK(m)
      BY <1>1 DEF RowsOK
    <3>2. m = [release |-> i, rule |-> v, vuln |-> v, file |-> m.file, fingerprint |-> m.fingerprint]
      BY <3>1 DEF RowOK
    <3> QED BY <3>1, <3>2
  <2> HIDE DEF after
  <2>2. ASSUME NEW m \in own, NEW n, n = after(m) PROVE RowOK(n)'
    <3>1. i \in 1..view /\ v \in DOMAIN lib[i].rules /\ m.file \in Files
      BY <2>1 DEF RowOK
    <3>2. <<i, v>> \in marked' /\ UNCHANGED <<lib, view>>
      BY <1>2, <1>7
    <3>3. n = [release |-> i, rule |-> v, vuln |-> v, file |-> m.file, fingerprint |-> lib[i].rules[v]]
          /\ n.release = i /\ n.rule = v /\ n.vuln = v /\ n.file = m.file
          /\ n.fingerprint = lib[i].rules[v]
      BY <2>1, <2>2
    <3> QED BY <3>1, <3>2, <3>3 DEF RowOK
  <2>3. \A m, n \in own : SameMapping(after(m), after(n)) => after(m) = after(n)
    BY <2>1 DEF SameMapping
  <2>4. \A m \in own : \A n \in rows \ own :
          ~SameMapping(after(m), n) /\ ~SameMapping(n, after(m))
    BY <2>1 DEF SameMapping
  <2> HIDE DEF own
  <2>5. \A m \in mappings' : RowOK(m)'
    BY <1>1, <1>5, <1>7, <2>2 DEF RowsOK
  <2>6. \A m, n \in mappings' : SameMapping(m, n) => m = n
    BY <1>1, <1>7, <2>3, <2>4 DEF RowsOK
  <2> QED BY <2>5, <2>6 DEF RowsOK, SameMapping
<1> QED
  BY <1>2, <1>3, <1>4, <1>6, <1>7 DEF LibraryInv
-----------------------------------------------------------------------------
(***************************************************************************)
(* Starter checks, and the check files.                                    *)
(***************************************************************************)
\* A step that changes no release, mapping, import or diff, but perhaps how
\* many releases the tree shows.
LEMMA FilesKeep ==
  ASSUME LibraryInv, Checks', GeneratedLoads',
         UNCHANGED <<cache, lib, mappings, imported, marked>>, held \subseteq held',
         view' = view \/ view' = Len(lib), shown' = shown \/ shown' = NoDiff
  PROVE  LibraryInv'
<1>1. Len(lib) \in Nat /\ view \in 0..Len(lib) /\ shown \in (0..view) \X (0..view)
  BY DEF LibraryInv, Sound, Library, LibraryRecords, Shown
<1>2. view' \in 0..Len(lib) /\ view <= view'
  BY <1>1
<1>3. Sound(Library)'
  BY DEF LibraryInv, Sound, Library, Kept
<1>4. shown' \in (0..view') \X (0..view')
  BY <1>1, <1>2 DEF NoDiff
<1>5. RowsOK(mappings)'
  <2>1. \A k \in 1..view : k \in 1..view'
    BY <1>1, <1>2
  <2>2. \A m \in mappings : RowOK(m) => RowOK(m)'
    BY <2>1 DEF RowOK, Claimed
  <2> QED BY <2>2 DEF LibraryInv, RowsOK, SameMapping
<1> QED
  BY <1>2, <1>3, <1>4, <1>5 DEF LibraryInv, Shown

\* No starter is built for a rule with a loaded check; and while no edit is
\* pending, the loaded checks are those on disk: the main file stays apart.
LEMMA GenerateKeeps ==
  ASSUME LibraryInv, NEW rules \in SUBSET UNION {DOMAIN p.rules : p \in Packages},
         Generate(Missing(rules, loaded))
  PROVE  Checks' /\ GeneratedLoads'
<1> DEFINE starters == Missing(rules, loaded)
           after == [files EXCEPT !.generated = {starters}]
           RulesHeld == UNION {DOMAIN p.rules : p \in Packages}
<1>1. files' = after /\ Reload(after) /\ held' = held
  BY DEF Generate
<1>2. files.main \in Edits \cap held /\ edited \in BOOLEAN /\ DOMAIN files = {"main", "generated"}
      /\ files = [main |-> files.main, generated |-> files.generated]
  BY DEF LibraryInv, Checks
<1>3. after.main = files.main /\ after.generated = {starters}
  BY <1>2
<1>4. starters \subseteq {Starter(v) : v \in RulesHeld}
  BY DEF Missing
<1>5. Checks'
  <2>1. {starters} \in SUBSET (SUBSET {Starter(v) : v \in RulesHeld})
    BY <1>4
  <2>2. edited' \in BOOLEAN
    BY <1>1, <1>2 DEF Reload
  <2> HIDE DEF starters
  <2>3. after = [main |-> files.main, generated |-> {starters}]
    BY <1>2
  <2> HIDE DEF after
  <2> QED BY <1>1, <1>2, <2>1, <2>2, <2>3 DEF Checks
<1>6. ~edited => Loadable(after)
  <2> SUFFICES ASSUME ~edited PROVE Loadable(after)
    OBVIOUS
  <2>1. files.main \subseteq loaded
    BY DEF LibraryInv, GeneratedLoads, OnDisk
  <2>2. Generated(after) = starters
    BY <1>3 DEF Generated
  <2>3. \A c \in starters : c.vuln \notin VulnsOf(loaded)
    <3> SUFFICES ASSUME NEW c \in starters PROVE c.vuln \notin VulnsOf(loaded)
      OBVIOUS
    <3>1. PICK v \in rules \ VulnsOf(loaded) : c = Starter(v)
      BY DEF Missing
    <3>2. c.vuln = v
      BY <3>1 DEF Starter, Check
    <3> QED BY <3>1, <3>2
  <2> HIDE DEF after, starters
  <2>4. VulnsOf(files.main) \subseteq VulnsOf(loaded)
    BY <2>1 DEF VulnsOf
  <2>5. VulnsOf(starters) \cap VulnsOf(loaded) = {}
    BY <2>3 DEF VulnsOf
  <2> QED BY <1>3, <2>2, <2>4, <2>5 DEF Loadable
<1> HIDE DEF after
<1>7. GeneratedLoads'
  BY <1>1, <1>2, <1>6 DEF Reload, GeneratedLoads, Loadable, OnDisk, Generated
<1> QED
  BY <1>5, <1>7

\* Generating, editing and reloading the check files keep the invariant.
LEMMA FileSteps ==
  ASSUME LibraryInv,
         \/ GenerateFromSources \/ EditChecks \/ ReloadFromDisk \/ Restart
         \/ \E i \in 1..view : GenerateFromRelease(i)
  PROVE  LibraryInv'
<1> DEFINE RulesHeld == UNION {DOMAIN p.rules : p \in Packages}
<1>0. Checks /\ GeneratedLoads /\ edited \in BOOLEAN /\ lib \in Seq(Releases) /\ view \in 0..Len(lib)
      /\ cache \in [Families -> SUBSET Packages]
  BY DEF LibraryInv, Sound, Library, LibraryRecords, Shown, Checks
<1>1. CASE GenerateFromSources
  <2> DEFINE rules == UNION {DOMAIN p.rules : p \in UNION {cache[f] : f \in Families}}
  <2>1. rules \in SUBSET RulesHeld
    BY <1>0
  <2>2. Generate(Missing(rules, loaded)) /\ view' = Len(lib)
    BY <1>1 DEF GenerateFromSources
  <2> HIDE DEF rules
  <2> QED BY <2>1, <2>2, GenerateKeeps, FilesKeep DEF Generate
<1>2. ASSUME NEW i \in 1..view, GenerateFromRelease(i) PROVE LibraryInv'
  <2>1. DOMAIN lib[i].rules \in SUBSET RulesHeld
    <3>1. lib[i] \in Releases
      BY <1>0
    <3>2. PICK x \in Packages \X Families : lib[i] = Release(x[1], x[2])
      BY <3>1 DEF Releases
    <3>3. x[1] \in Packages /\ lib[i].rules = x[1].rules
      BY <3>2 DEF Release
    <3> QED BY <3>3
  <2>2. Generate(Missing(DOMAIN lib[i].rules, loaded)) /\ UNCHANGED view
    BY <1>2 DEF GenerateFromRelease
  <2> QED BY <2>1, <2>2, GenerateKeeps, FilesKeep DEF Generate
<1>3. CASE EditChecks
  <2>1. Checks' /\ GeneratedLoads'
    BY <1>0, <1>3 DEF EditChecks, Checks, GeneratedLoads
  <2> QED BY <1>3, <2>1, FilesKeep DEF EditChecks
<1>4. CASE ReloadFromDisk
  <2>1. Checks' /\ GeneratedLoads'
    BY <1>0, <1>4 DEF ReloadFromDisk, Reload, Checks, GeneratedLoads, Loadable, OnDisk, Generated
  <2> QED BY <1>4, <2>1, FilesKeep DEF ReloadFromDisk
<1>5. CASE Restart
  <2>1. Checks' /\ GeneratedLoads'
    BY <1>0, <1>5 DEF Restart, Checks, GeneratedLoads, Loadable, OnDisk, Generated
  <2> QED BY <1>5, <2>1, FilesKeep DEF Restart
<1> QED
  BY <1>1, <1>2, <1>3, <1>4, <1>5
-----------------------------------------------------------------------------

\* The library begins in the invariant.
LEMMA LibraryBegins == LibraryInit => LibraryInv
<1> SUFFICES ASSUME LibraryInit PROVE LibraryInv
  OBVIOUS
<1>1. /\ Library = [cache |-> [f \in Families |-> {}], lib |-> <<>>, imported |-> {}, ok |-> TRUE]
      /\ mappings = {} /\ view = 0 /\ shown = <<0, 0>>
  BY DEF LibraryInit, Library, NoDiff
<1>2. <<>> \in Seq(Releases) /\ Len(<<>>) = 0
  OBVIOUS
<1>3. Sound(Library)
  BY <1>1, <1>2 DEF Sound, LibraryRecords, Kept
<1>4. Shown /\ RowsOK(mappings)
  BY <1>1, <1>2 DEF LibraryInit, Shown, RowsOK
<1>5. files.main \in Edits /\ files.generated = {} /\ loaded = files.main
      /\ files = [main |-> files.main, generated |-> files.generated] /\ edited = FALSE
  BY DEF LibraryInit
<1>6. Checks
  BY <1>5 DEF LibraryInit, Checks
<1>7. GeneratedLoads
  BY <1>5 DEF GeneratedLoads, Loadable, OnDisk, Generated, VulnsOf
<1> QED
  BY <1>3, <1>4, <1>6, <1>7 DEF LibraryInv

\* Every step of the library keeps the invariant.
LEMMA LibrarySteps == LibraryInv /\ [LibraryNext]_libraryVars => LibraryInv'
<1> SUFFICES ASSUME LibraryInv, [LibraryNext]_libraryVars PROVE LibraryInv'
  OBVIOUS
<1>1. ASSUME NEW i \in 1..view, CompareToPrevious(i) PROVE LibraryInv'
  BY <1>1, CompareKeeps
<1>2. ASSUME NEW i \in 1..view, NEW j \in 1..view, CompareSelected(i, j) PROVE LibraryInv'
  BY <1>2, CompareKeeps
<1>3. ASSUME NEW i \in 1..view, Coverage(i) PROVE LibraryInv'
  BY <1>3, CoverageKeeps
<1>4. ASSUME NEW i \in 1..view, NEW v, MarkReviewed(i, v) PROVE LibraryInv'
  BY <1>4, MarkKeeps
<1>5. CASE UNCHANGED libraryVars
  <2>1. Checks' /\ GeneratedLoads'
    BY <1>5 DEF libraryVars, LibraryInv, Checks, GeneratedLoads, Loadable, OnDisk, Generated
  <2> QED BY <1>5, <2>1, FilesKeep DEF libraryVars
<1> QED
  BY <1>1, <1>2, <1>3, <1>4, <1>5, ImportKeeps, DownloadKeeps, FileSteps DEF LibraryNext

\* Releases, imports, mappings and check files stay as the invariant says.
THEOREM LibraryInvariant == LibrarySpec => []LibraryInv
  BY LibraryBegins, LibrarySteps, PTL DEF LibrarySpec

\* Diffs, mappings and the tree speak of releases that are there, and no rule
\* of a release is mapped twice in one file, however many there are.
THEOREM LibraryTypes == LibrarySpec => []TypeOK
<1>1. LibraryInv => TypeOK
  <2> SUFFICES ASSUME LibraryInv PROVE TypeOK
    OBVIOUS
  <2>1. \A f \in Families : Cardinality(cache[f]) <= 1
    <3> SUFFICES ASSUME NEW f \in Families PROVE Cardinality(cache[f]) <= 1
      OBVIOUS
    <3>1. cache[f] = {} \/ \E p \in Packages : cache[f] = {p}
      BY DEF LibraryInv, Sound, Library
    <3>2. CASE cache[f] = {}
      <4>1. Cardinality({}) = 0
        BY FS_EmptySet
      <4> QED BY <3>2, <4>1
    <3>3. ASSUME NEW p \in Packages, cache[f] = {p} PROVE Cardinality(cache[f]) <= 1
      <4>1. Cardinality({p}) = 1
        BY FS_Singleton
      <4> QED BY <3>3, <4>1
    <3> QED BY <3>1, <3>2, <3>3
  <2> QED BY <2>1 DEF LibraryInv, Shown, RowsOK, RowOK, TypeOK
<1> QED
  BY <1>1, LibraryInvariant, PTL

\* No import is lost or overwritten by a later one, whatever DISA republishes
\* under one version and in whatever order packages are imported.
THEOREM ImportsKept == LibrarySpec => []ImportedIsKept
<1>1. LibraryInv => ImportedIsKept
  BY DEF LibraryInv, Sound, Library, Kept, LibraryRecords, ImportedIsKept
<1> QED
  BY <1>1, LibraryInvariant, PTL

\* Coverage never counts a review nobody made of the rule's present text.
THEOREM ReviewsEarned == LibrarySpec => []ReviewIsEarned
<1>1. LibraryInv => ReviewIsEarned
  <2> SUFFICES ASSUME LibraryInv, NEW i \in 1..view, NEW v \in DOMAIN lib[i].rules,
                      ReviewedCurrent(i, v, SyncCheckMappings(i))
               PROVE  <<i, v>> \in marked \/ Claimed(v, lib[i].rules[v])
    BY DEF ReviewIsEarned
  <2>1. PICK m \in SyncCheckMappings(i) :
          m.release = i /\ m.rule = v /\ m.fingerprint = lib[i].rules[v]
    BY DEF ReviewedCurrent
  <2>2. RowOK(m)
    BY SyncKeeps DEF RowsOK
  <2> QED BY <2>1, <2>2 DEF RowOK
<1> QED
  BY <1>1, LibraryInvariant, PTL

\* Building starters never makes the check directory unloadable.
THEOREM StartersLoad == LibrarySpec => []GeneratedLoads
<1>1. LibraryInv => GeneratedLoads
  BY DEF LibraryInv
<1> QED
  BY <1>1, LibraryInvariant, PTL
==============================================================================
