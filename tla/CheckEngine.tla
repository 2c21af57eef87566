----------------------------- MODULE CheckEngine -----------------------------
(***************************************************************************)
(* The evaluators of CheckEngine as operators: what a check, a site profile*)
(* and a device, as the parsers see it, come out as.                       *)
(*                                                                         *)
(* Text is abstracted to what the regular expressions tell apart: a        *)
(* configuration is a set or a sequence of records, a pattern is the line  *)
(* it is found in.  A name is <<what it is when folded, its spelling>>.    *)
(* Where several are given a scalar is the set of it, and nothing is {}.   *)
(***************************************************************************)
EXTENDS Integers, FiniteSetsExt, Sequences

(***************************************************************************)
(* EvaluationOutcome.  "review" is the status Not_Reviewed, the others are *)
(* those that the check's result mapping gives for it.                     *)
(***************************************************************************)
Of(status, failed, passed) == [status |-> status, failed |-> failed, passed |-> passed]

Verdict(failed, passed) == Of(IF failed = {} THEN "pass" ELSE "fail", failed, passed)

Review == Of("review", {}, {})
Raised == Of("error", {}, {})

\* Fault: what failed is listed with what passed, too.
JudgeAll(S, bad) == Verdict(bad, S)

\* What does not fail passes.
Judge(S, bad) == Verdict(bad, S \ bad)

\* Objects of different kinds in one outcome.
Named(kind, S) == {<<kind, x>> : x \in S}

\* What is said of the device as a whole.
Flag(kind, holds) == IF holds THEN {<<kind, 1>>} ELSE {}

Fold(name)  == name[1]
Folded(S)   == {Fold(n) : n \in S}
-----------------------------------------------------------------------------
(***************************************************************************)
(* Conditions of trunk, DHCP snooping and ARP inspection checks.           *)
(***************************************************************************)
\* _condition_passes; a profile list that is not there is empty.
ConditionPasses(op, value, expected) ==
  CASE op \in {"equals", "equals_profile_value"}       -> value = expected
    [] op = "not_equals"                               -> value # expected
    [] op \in {"includes", "includes_profile_list"}    -> expected \subseteq value
    [] op \in {"excludes", "excludes_profile_list"}    -> value \cap expected = {}

ConditionsPass(field, conditions) ==
  \A c \in conditions : ConditionPasses(c.op, field[c.field], c.expected)

TrunkVlanPolicy(trunks, conditions) ==
  Judge(trunks, {t \in trunks : ~ConditionsPass(t, conditions)})

\* Required VLANs are named whatever the conditions say, which may still fail
\* without a failed object.
VlanServicePolicy(device, conditions, required, needsGlobal) ==
  LET missing == required \ device.vlans
      failed  == Flag("global", needsGlobal /\ ~device.enabled)
                   \cup Named("vlan", missing)
      ok      == ConditionsPass([vlans |-> device.vlans], conditions)
  IN  IF ok THEN Verdict(failed, Flag("all", failed = {})) ELSE Of("fail", failed, {})
-----------------------------------------------------------------------------
(***************************************************************************)
(* Patterns.                                                               *)
(***************************************************************************)
\* A pattern that is found in nothing but white space; stripped, it is no text.
Blank == <<"blank", 0>>

\* _profile_pattern_configs and _expand_pattern_configs: one pattern for each
\* value of the profile's list, after those written in the check.
Expanded(strings, template, values) == strings \cup {<<template, v>> : v \in values}

CommandPatternPolicy(text, required, alternatives, forbidden) ==
  LET missing   == required \ text
      found     == (forbidden \cap text) \ {Blank}
      unmatched == alternatives # {} /\ alternatives \cap text = {}
  IN  IF required \cup alternatives \cup forbidden = {} THEN Review
      ELSE IF unmatched THEN Of("fail", missing \cup found, {})
      ELSE Of(IF missing \cup found = {} THEN "pass" ELSE "fail", missing \cup found, {})

\* command_contains, command_regex, section_contains and their negations; a
\* command that was not collected has no output, a section that is not there no line.
ContainsPolicy(text, needle, expected) ==
  IF needle = {} THEN Raised
  ELSE Of(IF (needle \subseteq text) = expected THEN "pass" ELSE "fail", {}, {})

\* A check of the type manual_review has nothing to go by, and does not pass.
ManualReview == Of("fail", {}, {})
-----------------------------------------------------------------------------
(***************************************************************************)
(* Interfaces.                                                             *)
(***************************************************************************)
\* InterfaceView: the configuration, and where it says nothing the status.
AccessVlan(i) == IF i.configVlan # {} THEN i.configVlan ELSE i.statusVlan
Mode(i)       == IF i.configMode # {} THEN i.configMode
                 ELSE IF i.statusVlan # {} THEN {"access"} ELSE {}

\* A rule without a constraint allows everything; one rule suffices.
Includes(rule, i) ==
  /\ rule.physical => i.physical
  /\ rule.status # {} => i.status \in rule.status
  /\ rule.mode # {} => Mode(i) # {} /\ Mode(i) \subseteq rule.mode
  /\ rule.vlan # {} => AccessVlan(i) = rule.vlan

Candidates(interfaces, rules) == {i \in interfaces : \E r \in rules : Includes(r, i)}

InterfacePolicy(interfaces, rules, conditions) ==
  LET candidates == Candidates(interfaces, rules)
      fields(i)  == [access_vlan |-> AccessVlan(i), switchport_mode |-> Mode(i)]
  IN  Judge(candidates, {i \in candidates : ~ConditionsPass(fields(i), conditions)})

\* One of each group of any_patterns must be there; a field may not have the
\* value the profile gives, which for both being absent is so, too.
Violates(policy, i) ==
  /\ policy.exempt \cap i.lines = {}
  /\ \/ ~(policy.required \subseteq i.lines)
     \/ \E g \in policy.groups : g \cap i.lines = {}
     \/ policy.forbidden \cap i.lines # {}
     \/ \E f \in policy.forbiddenVlans : AccessVlan(i) = f

InterfaceConfigPolicy(running, interfaces, rules, policy) ==
  LET global     == policy.global \ running
      candidates == Candidates(interfaces, rules)
      failed     == {i \in candidates : Violates(policy, i)}
  IN  IF policy.global \cup policy.required \cup policy.forbidden = {}
         /\ policy.groups = {} /\ policy.forbiddenVlans = {}
        THEN Review
      ELSE IF policy.requireCandidates /\ candidates = {} THEN Raised
      ELSE Verdict(Named("global", global) \cup Named("interface", failed),
                   Named("interface", candidates \ failed))
-----------------------------------------------------------------------------
(***************************************************************************)
(* Access lists.  An address, a mask and a wildcard are the sets of their  *)
(* bits that are 1, 0 being the last; a mask's bits are fixed, a           *)
(* wildcard's are free.                                                    *)
(***************************************************************************)
CONSTANT Bits
ASSUME BitsAssumption == Bits \in Nat \ {0}

Positions == 0..(Bits - 1)
Masks     == {k..(Bits - 1) : k \in 0..Bits}
AnySource == <<{-1}, {-1}>>  \* no address
Unknown   == <<{-2}, {-2}>>

\* IPv4Network(strict=True): no bit of the host part is set.
Strict(n) == n.mask \in Masks /\ n.address \subseteq n.mask

Hostmask(n) == Positions \ n.mask

\* _acl_permit_source; what follows the address and is no wildcard is an option
\* of a standard statement, but puzzling in an extended one.
PermitSource(s) ==
  CASE s.form = "any"                               -> AnySource
    [] s.form \in {"host", "alone"}                 -> <<s.address, {}>>
    [] s.form \in {"wildcard", "wildcard bits"}     -> <<s.address, s.wildcard>>
    [] s.form = "followed" /\ s.type = "standard"   -> <<s.address, {}>>
    [] OTHER                                        -> Unknown

ManagementAccessPolicy(profile, vty, acls) ==
  LET expected == {<<n.address, Hostmask(n)>> : n \in profile.networks}
      permits  == {s \in {acls[k] : k \in DOMAIN acls} :
                     Fold(s.acl) = Fold(profile.acl) /\ s.action = "permit"
                     /\ s.type \in {"standard", "extended"}}
      open     == {v \in vty : Fold(v.accessClass) # Fold(profile.acl)}
      wrong    == {s \in permits : PermitSource(s) \notin expected}
      missing  == expected \ {PermitSource(s) : s \in permits}
  IN  IF profile.networks = {} \/ \E n \in profile.networks : ~Strict(n) THEN Raised
      ELSE IF vty = {} THEN Raised
      ELSE IF permits = {} THEN Of("fail", Named("vty", open) \cup Named("acl", {1}),
                                      Named("vty", vty \ open))
      ELSE Verdict(Named("vty", open) \cup Named("statement", wrong) \cup Named("network", missing),
                   Named("vty", vty \ open) \cup Named("statement", permits \ wrong))

\* Statements of the families in scope and, if so configured, of lists bound to
\* an interface.
AclDenyLoggingPolicy(acls, bound, settings) ==
  LET denies == {s \in acls : /\ s.action = "deny" /\ s.type \in settings.types
                              /\ settings.boundOnly => Fold(s.acl) \in Folded(bound)}
  IN  Judge(denies, {s \in denies : settings.keyword \notin s.keywords})
-----------------------------------------------------------------------------
(***************************************************************************)
(* NTP.  lines[s] are the keys, 0 for none, of the lines for server s.     *)
(***************************************************************************)
\* Fault: of a range the first key.
TrustedFirst(c) == {r[1] : r \in c.trusted}

TrustedKeys(c) == UNION {r[1]..r[2] : r \in c.trusted}

Authenticated(c, approved, k) == k \in TrustedKeys(c) /\ c.algorithm[k] \in approved

\* Fault: any key will do.
ServerUnkeyed(c, approved, s) == \A i \in DOMAIN c.lines[s] : c.lines[s][i] = 0

\* Only the first line that has a key is looked at.
ServerFails(c, approved, s) ==
  LET keyed == {i \in DOMAIN c.lines[s] : c.lines[s][i] # 0}
  IN  keyed = {} \/ ~Authenticated(c, approved, c.lines[s][Min(keyed)])

NtpAuthenticationPolicy(profile, c) ==
  LET bad == {s \in profile.servers : ServerFails(c, profile.approved, Fold(s))}
  IN  IF Cardinality(Folded(profile.servers)) < profile.minimum \/ profile.approved = {} THEN Raised
      ELSE Verdict(Named("server", bad) \cup Flag("global", ~c.authenticate),
                   Named("server", profile.servers \ bad) \cup Flag("global", c.authenticate))
-----------------------------------------------------------------------------
(***************************************************************************)
(* RADIUS.                                                                 *)
(***************************************************************************)
Ports == 1..65535

RadiusServerPolicy(profile, c) ==
  LET names    == profile.servers
      fails(n) == \/ Fold(n) \notin DOMAIN c.section
                  \/ c.section[Fold(n)].address # profile.address[Fold(n)]
                  \/ c.section[Fold(n)].ports # profile.ports
                  \/ ~c.section[Fold(n)].key
      bad      == {n \in names : fails(n)}
      group    == ~(Folded(names) \subseteq c.members)
  IN  IF \/ Cardinality(Folded(names)) < 2 \/ Cardinality(Folded(names)) # Cardinality(names)
         \/ ~(Folded(names) \subseteq DOMAIN profile.address)
         \/ ~({profile.ports[1], profile.ports[2]} \subseteq Ports)
        THEN Raised
      ELSE Verdict(Named("server", bad) \cup Flag("group", group),
                   Named("server", names \ bad) \cup Flag("group", ~group))
-----------------------------------------------------------------------------
(***************************************************************************)
(* VTY sessions.  A block has the first and the last line and its          *)
(* session-limit commands, -1 for one without a number.                    *)
(***************************************************************************)
VtySessionLimitPolicy(maximum, sections) ==
  LET backwards == {b \in sections : b.last < b.first}
      blocks    == sections \ backwards
      mode      == \E b \in blocks : b.limits # {}
      bad       == {b \in blocks : b.limits = {} \/ \E l \in b.limits : l < 0 \/ l > maximum}
      lines     == UNION {b.first..b.last : b \in blocks}
      exceeds   == Cardinality(lines) > maximum
  IN  IF maximum < 1 THEN Raised
      ELSE IF mode THEN Verdict(Named("section", backwards \cup bad), Named("section", blocks \ bad))
      ELSE Verdict(Named("section", backwards) \cup Flag("capacity", exceeds),
                   Flag("capacity", ~exceeds))
-----------------------------------------------------------------------------
(***************************************************************************)
(* Root Guard.  A host is <<name, domain>>, the domain "" for a short name.*)
(***************************************************************************)
Variants(h) == {h, <<h[1], "">>}

\* Fault: a device without CDP entries has no port to guard.
NoUpstreams(upstreams, neighbors) == upstreams = {}

NothingToCompare(upstreams, neighbors) == upstreams = {} \/ neighbors = {}

RootGuardNeighborPolicy(upstreams, neighbors, config, channels) ==
  LET exemptNames == UNION {Variants(u) : u \in upstreams}
      switches    == {n \in neighbors : n.switch}
      exempt      == {n \in switches : Variants(n.host) \cap exemptNames # {}}
      unresolved  == {n \in switches \ exempt : n.port = 0}
      targets     == switches \ (exempt \cup unresolved)
      guarded(n)  == /\ n.port \in DOMAIN config
                     /\ \/ config[n.port].guard
                        \/ config[n.port].channel \in channels
      failed      == {n \in targets : ~guarded(n)}
  IN  IF NothingToCompare(upstreams, neighbors) THEN Review
      ELSE IF failed # {} THEN Of("fail", failed, exempt \cup (targets \ failed))
      ELSE IF unresolved # {} THEN Of("review", unresolved, exempt \cup targets)
      ELSE Of("pass", {}, exempt \cup targets)
-----------------------------------------------------------------------------
(***************************************************************************)
(* The login banner.  A line may be the header of a banner; delimits says  *)
(* whether the delimiter is in it, after the header if it is one, and      *)
(* clauses what stands before that.                                        *)
(***************************************************************************)
EndsBody(l) == l.header \/ l.delimits

\* The scan goes on after a banner, and to the next line from any other: it
\* stands on the lines that are in every set it does not leave.
BannersFrom(lines) ==
  LET n == Len(lines)
      ends(i)  == {j \in (i + 1)..n : EndsBody(lines[j])}
      ended(i) == lines[i].header /\ (lines[i].delimits \/ ends(i) # {})
      last(i)  == IF lines[i].delimits THEN i ELSE Min(ends(i))
      next(i)  == IF ended(i) THEN last(i) + 1 ELSE i + 1
      stands   == {i \in 1..n : \A P \in SUBSET (1..(n + 1)) :
                     1 \in P /\ (\A j \in P \ {n + 1} : next(j) \in P) => i \in P}
      body(i)  == lines[i].clauses \cup
                  UNION {lines[k].clauses : k \in {k \in (i + 1)..last(i) : ~lines[k].header}}
  IN  {body(i) : i \in {j \in stands : ended(j)}}

DodBannerPolicy(lines, required) ==
  LET banners == BannersFrom(lines)
  IN  IF \E b \in banners : required \subseteq b THEN Of("pass", {}, {"banner"})
      ELSE Of("fail", {"banner"}, {})
-----------------------------------------------------------------------------
(***************************************************************************)
(* evaluate: what was not collected is an error, an exception is one, too, *)
(* and the first exception rule that applies forces its status on both.    *)
(***************************************************************************)
Like(pattern, value) == pattern = "*" \/ pattern = value

\* Fault: the object a rule names is not looked for.
RuleAppliesToDevice(rule, host, outcome) == Like(rule.host, host)

RuleApplies(rule, host, outcome) ==
  /\ Like(rule.host, host)
  /\ \/ rule.type = "*" /\ rule.object = "*"
     \/ \E o \in outcome.failed \cup outcome.passed :
          Like(rule.type, o.type) /\ Like(rule.object, o.name)

ApplyExceptions(rules, host, outcome) ==
  LET applying == {k \in DOMAIN rules : RuleApplies(rules[k], host, outcome)}
      first    == CHOOSE k \in applying : \A j \in applying : k <= j
  IN  IF applying = {} THEN outcome ELSE [outcome EXCEPT !.status = rules[first].status]

Evaluate(commands, collected, outcome, rules, host) ==
  ApplyExceptions(rules, host, IF commands \subseteq collected THEN outcome ELSE Raised)
-----------------------------------------------------------------------------
(***************************************************************************)
(* Commands.  A command is written in some spelling; the registry knows    *)
(* one, and loading a check library turns every one into that.             *)
(***************************************************************************)
\* Fault: an approved command is returned as it was written.
AsWritten(registry, command) == IF Fold(command) \in Folded(registry) THEN {command} ELSE {}

\* CommandPolicy.validate: {} is UnsafeCommandError.
Canonical(registry, command) == {r \in registry : Fold(r) = Fold(command)}

\* CheckDefinition: every command of a check, also in its conditions.
Loads(registry, check) == \A c \in check.commands \cup check.nested : Canonical(registry, c) # {}

Loaded(registry, check) ==
  [commands |-> UNION {Canonical(registry, c) : c \in check.commands},
   nested   |-> UNION {Canonical(registry, c) : c \in check.nested}]

\* plan_commands.
PlanCommands(registry, pagination, defaults, checks, runAll) ==
  IF runAll THEN defaults
  ELSE {pagination} \cup UNION {Loaded(registry, c).commands : c \in checks}
=============================================================================
