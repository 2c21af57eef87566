--------------------------- MODULE CheckSoundness ---------------------------
(***************************************************************************)
(* The evaluators of CheckEngine against what they claim: a behaviour is   *)
(* the evaluation of one check, picked with its site profile and the       *)
(* device's configuration from small sets that hold the awkward cases.     *)
(***************************************************************************)
EXTENDS CheckEngine, ReleaseCases

Init == type = "" /\ input = {} /\ outcome = Review

AtMostTwo(S) == {{}} \cup {{a, b} : a, b \in S}

Small(n, S) == {<<>>} \cup UNION {[1..k -> S] : k \in 1..n}

-----------------------------------------------------------------------------
(***************************************************************************)
(* _evaluate_by_type, with the inputs of each type.                        *)
(***************************************************************************)
TrunkPolicy ==
  \E trunks \in AtMostTwo([allowed_vlans : SUBSET {1, 2}, native_vlan : {{1}, {2}}]),
     op \in {"includes_profile_list", "excludes_profile_list", "excludes"},
     vlans \in SUBSET {1, 2}, native \in {{}, {1}} :
    LET conditions == {[field |-> "allowed_vlans", op |-> op, expected |-> vlans],
                          [field |-> "native_vlan", op |-> "equals_profile_value", expected |-> native],
                          [field |-> "native_vlan", op |-> "not_equals", expected |-> {2}]}
       IN Evaluated("trunk", [trunks |-> trunks, op |-> op, vlans |-> vlans, native |-> native],
                    TrunkVlanPolicy(trunks, conditions))

SnoopingPolicy ==
  \E vlans, required, asked \in SUBSET {1, 2}, enabled, dhcp \in BOOLEAN :
    Evaluated("snooping",
              [vlans |-> vlans, required |-> required, asked |-> asked, enabled |-> enabled, dhcp |-> dhcp],
              VlanServicePolicy([vlans |-> vlans, enabled |-> enabled],
                                {[field |-> "vlans", op |-> "includes", expected |-> asked]},
                                required, dhcp))

PatternPolicy ==
  \E text, required, alternatives, forbidden \in SUBSET {<<"a", 0>>, Blank}, values \in SUBSET {1, 2},
     present \in SUBSET {1, 2} :
    LET needed == Expanded(required, "vlan", values)
        all    == text \cup {<<"vlan", v>> : v \in present}
    IN Evaluated("pattern",
                 [text |-> all, needed |-> needed, alternatives |-> alternatives, forbidden |-> forbidden],
                 CommandPatternPolicy(all, needed, alternatives, forbidden))

SectionPolicy ==
  \E text \in SUBSET {"a", "b"}, needle \in {{}, {"a"}}, expected \in BOOLEAN :
    Evaluated("section", [text |-> text, needle |-> needle, expected |-> expected],
              ContainsPolicy(text, needle, expected))

ManualCheck == \E text \in SUBSET {"a", "b"} : Evaluated("manual", [text |-> text], ManualReview)

Interfaces == [physical : BOOLEAN, status : {"connected", "disabled"}, configVlan : {{}, {1}, {2}},
               statusVlan : {{}, {1}}, configMode : {{}, {"trunk"}}, lines : SUBSET {"p", "q"}]

Rules == [physical : BOOLEAN, status : {{}, {"disabled"}}, mode : {{}, {"access"}}, vlan : {{}, {1}}]

InterfaceCheck ==
  \E i \in Interfaces, rule \in Rules, native \in {{}, {1}} :
    Evaluated("interface", [interface |-> i, rule |-> rule, native |-> native],
              InterfacePolicy({i}, {rule},
                {[field |-> "access_vlan", op |-> "equals_profile_value", expected |-> native]}))

Policies == [global : {{}, {"g"}}, exempt : {{}, {"q"}}, required : {{}, {"p"}}, groups : {{}, {{"p", "q"}}},
             forbidden : {{}, {"q"}}, forbiddenVlans : SUBSET {{}, {1}}, requireCandidates : BOOLEAN]

InterfaceConfigCheck ==
  \E i \in [physical : BOOLEAN, status : {"connected"}, configVlan : {{}, {1}}, statusVlan : {{}},
            configMode : {{}}, lines : SUBSET {"p", "q"}],
     running \in {{}, {"g"}}, policy \in Policies, there \in BOOLEAN :
    LET interfaces == IF there THEN {i} ELSE {}
        rules == {[physical |-> TRUE, status |-> {}, mode |-> {}, vlan |-> {}]}
    IN Evaluated("interface config", [interfaces |-> interfaces, running |-> running, policy |-> policy],
                 InterfaceConfigPolicy(running, interfaces, rules, policy))

\* Networks as profiles have them, with host bits and masks that are none, too.
Networks == [address : SUBSET Positions, mask : {Positions, Positions \ {0}, {0}}]

Statements ==
  [acl : {<<"m", 1>>}, type : {"standard"}, action : {"permit", "deny"}, form : {"wildcard"},
   address : {{}, {1}}, wildcard : SUBSET Positions]
  \cup [acl : {<<"m", 2>>, <<"x", 1>>}, type : {"standard", "extended", "ipv6"}, action : {"permit"},
        form : {"any", "host", "followed"}, address : {{1}}, wildcard : {{}}]

ManagementCheck ==
  \E networks \in {{n} : n \in Networks} \cup {{}, {[address |-> {}, mask |-> Positions],
                                                      [address |-> {1}, mask |-> Positions \ {0}]}},
     acls \in Small(2, Statements), vty \in {{}, {<<"m", 1>>}, {<<"m", 1>>, <<"x", 1>>}} :
    LET profile == [networks |-> networks, acl |-> <<"m", 1>>]
        classes == {[accessClass |-> v] : v \in vty}
    IN Evaluated("management", [profile |-> profile, acls |-> acls, vty |-> classes],
                 ManagementAccessPolicy(profile, classes, acls))

AclLoggingCheck ==
  \E keywords \in SUBSET {"log", "log-input"}, action \in {"permit", "deny"}, kind \in {"standard", "ipv6"},
     bound \in SUBSET {<<"m", 2>>}, only \in BOOLEAN :
    LET statement == [acl |-> <<"m", 1>>, type |-> kind, action |-> action, keywords |-> keywords]
    IN Evaluated("acl logging", [statement |-> statement, bound |-> bound, only |-> only],
                 AclDenyLoggingPolicy({statement}, bound,
                   [types |-> {"standard", "extended"}, boundOnly |-> only, keyword |-> "log-input"]))

\* Two names of one server, and two servers.
Servers == {{<<"a", 1>>}, {<<"a", 1>>, <<"a", 2>>}, {<<"a", 1>>, <<"b", 1>>}}

NtpCheck ==
  \E servers \in Servers, minimum \in {1, 2},
     approved \in {{}, {"sha"}}, a \in Small(2, 0..2), b \in Small(1, 0..1),
     algorithm \in [1..2 -> {"none", "md5", "sha"}], trusted \in SUBSET {<<1, 1>>, <<1, 2>>, <<2, 1>>},
     on \in BOOLEAN :
    LET profile == [servers |-> servers, minimum |-> minimum, approved |-> approved]
        config  == [lines |-> [s \in {"a", "b"} |-> IF s = "a" THEN a ELSE b], algorithm |-> algorithm,
                    trusted |-> trusted, authenticate |-> on]
    IN Evaluated("ntp", [profile |-> profile, config |-> config], NtpAuthenticationPolicy(profile, config))

RadiusSections == [address : {7, 8}, ports : {<<1812, 1813>>, <<1, 2>>}, key : BOOLEAN]

\* A port of a profile that is none, too.
RadiusPorts == {<<1812, 1813>>, <<0, 1813>>, <<1812, 65536>>}

RadiusCheck ==
  \E servers \in Servers,
     addressed \in {{"a"}, {"a", "b"}}, ports \in RadiusPorts,
     there \in SUBSET {"a", "b"}, a, b \in RadiusSections, members \in SUBSET {"a", "b"} :
    LET profile == [servers |-> servers, address |-> [n \in addressed |-> 7], ports |-> ports]
        config  == [section |-> [n \in there |-> IF n = "a" THEN a ELSE b], members |-> members]
    IN Evaluated("radius", [profile |-> profile, config |-> config], RadiusServerPolicy(profile, config))

VtySections == [first : 0..1, last : 0..2, limits : {{}, {-1}, {2}, {1, 3}}]

VtyCheck ==
  \E maximum \in 0..3, sections \in AtMostTwo(VtySections) :
    Evaluated("vty", [maximum |-> maximum, sections |-> sections],
                 VtySessionLimitPolicy(maximum, sections))

Hosts     == {"core", "access"} \X {"", "site"}
Neighbors == [host : Hosts, switch : BOOLEAN, port : 0..1]

RootGuardCheck ==
  \E upstreams \in SUBSET Hosts, neighbors \in AtMostTwo(Neighbors), configured \in BOOLEAN, guard \in BOOLEAN,
     channel \in {0, 1}, channels \in SUBSET {1} :
    LET config == [p \in IF configured THEN {1} ELSE {} |-> [guard |-> guard, channel |-> channel]]
    IN Evaluated("root guard",
                    [upstreams |-> upstreams, neighbors |-> neighbors, config |-> config, channels |-> channels],
                    RootGuardNeighborPolicy(upstreams, neighbors, config, channels))

BannerCheck ==
  \E lines \in Small(3, [header : BOOLEAN, delimits : BOOLEAN, clauses : {{}, {1}, {2}, {1, 2}}]) :
    Evaluated("banner", [lines |-> lines], DodBannerPolicy(lines, {1, 2}))

Object(n)  == [type |-> "interface", name |-> n]
Exceptions == [host : {"*", "h"}, type : {"*", "interface"}, object : {"*", "i1", "i2"}, status : {"pass", "fail"}]

ExceptionCheck ==
  \E rules \in Small(2, Exceptions), failed \in SUBSET {Object("i1")}, passed \in SUBSET {Object("i2")},
     collected \in SUBSET {"run", "cdp"}, host \in {"h", "g"} :
    LET before == Verdict(failed, passed)
    IN Evaluated("exception", [rules |-> rules, before |-> before, collected |-> collected, host |-> host],
                 Evaluate({"run", "cdp"}, collected, before, rules, host))

Registry == {<<"terminal", 1>>, <<"run", 1>>, <<"cdp", 1>>}

PlanCheck ==
  \E checks \in AtMostTwo([commands : SUBSET {<<"run", 1>>, <<"run", 2>>, <<"reload", 1>>},
                        nested : {{}, {<<"run", 2>>}, {<<"reload", 1>>}}]), all \in BOOLEAN :
    LET loaded  == {c \in checks : Loads(Registry, c)}
        planned == PlanCommands(Registry, <<"terminal", 1>>, Registry, loaded, all)
    IN Evaluated("plan", [checks |-> {Loaded(Registry, c) : c \in loaded}, planned |-> planned], Review)

Next ==
  /\ type = ""
  /\ \/ TrunkPolicy \/ SnoopingPolicy \/ PatternPolicy \/ SectionPolicy \/ ManualCheck
     \/ InterfaceCheck \/ InterfaceConfigCheck
     \/ ManagementCheck \/ AclLoggingCheck \/ NtpCheck \/ RadiusCheck \/ VtyCheck
     \/ RootGuardCheck \/ BannerCheck \/ ExceptionCheck \/ PlanCheck \/ Parse \/ Compare

Spec == Init /\ [][Next]_vars
-----------------------------------------------------------------------------
(***************************************************************************)
(* What the checks are for, said of the device and not of its text.        *)
(***************************************************************************)
\* Addresses a network has, and addresses a statement speaks of.
In(x, n) == x \cap n.mask = n.address \cap n.mask

SpeaksOf(s, x) ==
  CASE s.form = "any"      -> TRUE
    [] s.form \in {"wildcard", "wildcard bits"} -> x \ s.wildcard = s.address \ s.wildcard
    [] OTHER               -> x = s.address

\* The first statement of the IPv4 list that speaks of an address decides.
Admits(acls, name, x) ==
  LET speaking == {k \in DOMAIN acls : /\ Fold(acls[k].acl) = Fold(name) /\ acls[k].type # "ipv6"
                                       /\ SpeaksOf(acls[k], x)}
  IN  \E k \in speaking : acls[k].action = "permit" /\ \A j \in speaking : k <= j

OnlyApprovedManage(i) ==
  /\ \A v \in i.vty : Fold(v.accessClass) = Fold(i.profile.acl)
  /\ \A x \in SUBSET Positions : Admits(i.acls, i.profile.acl, x) => \E n \in i.profile.networks : In(x, n)

SyncsAuthenticated(i) ==
  /\ i.config.authenticate
  /\ \A s \in i.profile.servers : \E k \in DOMAIN i.config.lines[Fold(s)] :
       LET key == i.config.lines[Fold(s)][k] IN
       /\ key # 0 /\ i.config.algorithm[key] \in i.profile.approved
       /\ \E r \in i.config.trusted : r[1] <= key /\ key <= r[2]

TwoServersOfGroup(i) ==
  \E a, b \in i.profile.servers : Fold(a) # Fold(b) /\
    \A n \in {a, b} :
      /\ Fold(n) \in i.config.members
      /\ Fold(n) \in DOMAIN i.config.section
      /\ i.config.section[Fold(n)] = [address |-> i.profile.address[Fold(n)],
                                      ports |-> i.profile.ports, key |-> TRUE]

Limited(i) ==
  \/ \A s \in i.sections : s.first <= s.last /\ s.limits # {} /\ s.limits \subseteq 0..i.maximum
  \/ /\ \A s \in i.sections : s.first <= s.last /\ s.limits = {}
     /\ Cardinality(UNION {s.first..s.last : s \in i.sections}) <= i.maximum

\* A switch that is no upstream switch is behind a guarded port, or its port
\* channel is guarded.  Domains do not tell hosts apart.
Guarded(i) ==
  \A n \in i.neighbors :
    n.switch /\ ~(\E u \in i.upstreams : u[1] = n.host[1]) =>
      /\ n.port \in DOMAIN i.config
      /\ i.config[n.port].guard \/ i.config[n.port].channel \in i.channels

\* Some banner is there from its header to its delimiter with every clause.
Consents(i) ==
  \E a \in DOMAIN i.lines : \E z \in a..Len(i.lines) :
    /\ i.lines[a].header /\ EndsBody(i.lines[z])
    /\ \A k \in (a + 1)..(z - 1) : ~EndsBody(i.lines[k])
    /\ {1, 2} \subseteq UNION {i.lines[k].clauses : k \in a..z}

TrunksPruned(i) ==
  \A t \in i.trunks :
    /\ t.native_vlan = i.native /\ 2 \notin t.native_vlan
    /\ \A v \in i.vlans : (i.op = "includes_profile_list") <=> v \in t.allowed_vlans

VlansServed(i) == i.required \cup i.asked \subseteq i.vlans /\ (i.dhcp => i.enabled)

LogsDenies(i) ==
  i.statement.action = "deny" /\ i.statement.type # "ipv6" /\ (i.only => i.bound # {}) =>
    "log-input" \in i.statement.keywords

Holds ==
  CASE type = "management"  -> OnlyApprovedManage(input)
    [] type = "ntp"         -> SyncsAuthenticated(input)
    [] type = "radius"      -> TwoServersOfGroup(input)
    [] type = "vty"         -> Limited(input)
    [] type = "root guard"  -> Guarded(input)
    [] type = "banner"      -> Consents(input)
    [] type = "trunk"       -> TrunksPruned(input)
    [] type = "snooping"    -> VlansServed(input)
    [] type = "acl logging" -> LogsDenies(input)
    [] OTHER                -> TRUE
-----------------------------------------------------------------------------
(***************************************************************************)
(* Properties.                                                             *)
(***************************************************************************)
Specified == {"ntp", "radius", "vty", "root guard", "trunk", "snooping", "acl logging"}

\* A check that passes is true of the device: for example, the management list
\* lets no address in that is in none of the profile's networks, whatever order
\* permits, denies and wildcards come in.
PassIsSound == outcome.status = "pass" => Holds

\* Where there was nothing to look at nobody is told that a check passed: not
\* one without strings, neighbours, networks, VTY sections or banners, and not a
\* manual one.
NothingSeenNothingPassed ==
  CASE type = "root guard" -> input.upstreams = {} \/ input.neighbors = {} => outcome.status = "review"
    [] type = "pattern"    -> input.needed \cup input.alternatives \cup input.forbidden = {} =>
                                outcome.status = "review"
    [] type = "section"    -> input.needle = {} => outcome.status = "error"
    [] type = "manual"     -> outcome.status = "fail"
    [] type = "management" -> input.vty = {} \/ input.profile.networks = {} => outcome.status = "error"
    [] type = "interface config" ->
         /\ input.policy.requireCandidates /\ {i \in input.interfaces : i.physical} = {} =>
              outcome.status \in {"error", "review"}
         /\ outcome.status = "pass" => input.policy.global \subseteq input.running
    [] type = "banner"     -> (\A k \in DOMAIN input.lines : ~input.lines[k].header) => outcome.status = "fail"
    [] OTHER               -> TRUE

\* A check that comes out Open is not true of the device, where the code does
\* not ask for one way of writing it; root guard and NTP are wrong in no way the
\* configuration can be right.
OpenIsReal ==
  outcome.status = "fail" /\ type \in Specified =>
    \/ ~Holds
    \/ type = "vty"  \* sections with and without a limit are mixed
       /\ \E s \in input.sections : s.limits = {}
    \/ type = "ntp"  \* another line of the server came first
       /\ \E s \in {"a", "b"} : Len(input.config.lines[s]) > 1

\* What is wrong is named: an Open result of these types has the objects at
\* fault, and none of them is among the objects that passed.
OpenIsExplained ==
  outcome.status = "fail" =>
    /\ outcome.failed \cap outcome.passed = {}
    /\ type \in Specified \cup {"interface", "management", "banner"} =>
         outcome.failed # {} \/ (type = "snooping" /\ ~(input.asked \subseteq input.vlans))

\* An Open finding is true, and says what it is about.
OpenIsTrue == OpenIsReal /\ OpenIsExplained

\* A result that is an error for lack of output stays one unless an exception
\* excuses the whole check on that device; one for an object does not, nor one
\* for another device.
ErrorSurvives ==
  type = "exception" /\ ~({"run", "cdp"} \subseteq input.collected) =>
    \/ outcome.status = "error"
    \/ \E k \in DOMAIN input.rules : input.rules[k].host \in {"*", input.host}
                                     /\ input.rules[k].type = "*" /\ input.rules[k].object = "*"

\* A plan collects what every check it was made for declares, in the spelling it
\* is looked up by, and no command the registry does not have.
PlanSuffices ==
  type = "plan" =>
    input.planned \subseteq Registry /\ \A c \in input.checks : c.commands \subseteq input.planned

\* A pass is earned: by a device that is as the check says, never by the lack of
\* something to look at. Output that a check needs is collected for it, and where
\* it is lacking all the same the result says so.
PassIsEarned == PassIsSound /\ NothingSeenNothingPassed /\ PlanSuffices /\ ErrorSurvives

\* "missing/invalid values must produce an explicit error or review outcome rather
\* than a false pass" (CHECK_AUTHORING_GUIDE.md): a check of VLANs against a list
\* that the profile does not have does not pass.
MissingValueNeverPasses == type = "snooping" /\ input.required = {} => outcome.status # "pass"
=============================================================================
