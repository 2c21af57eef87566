---------------------------- MODULE IosxeParsers ----------------------------
(***************************************************************************)
(* The parsers that turn command output into what CheckEngine evaluates:   *)
(* each goes through the lines once and keeps a little state, so each is a *)
(* fold of a step over lines.  A line is a record of what the parser's     *)
(* tests tell apart: the kind of line and the values in it.                *)
(***************************************************************************)
EXTENDS Integers, SequencesExt

CONSTANT MaxVlan  \* bound: VLANs are 1..MaxVlan (4094 in the code)
ASSUME VlanAssumption == MaxVlan \in Nat

Vlans == 1..MaxVlan

\* parse_vlan_list: numbers and ranges; what is neither, and what is out of
\* bounds, is skipped.
VlanList(tokens) == UNION {t[1]..t[2] : t \in tokens} \cap Vlans
-----------------------------------------------------------------------------
(***************************************************************************)
(* parse_running_config.  A section without lines is a global line.        *)
(***************************************************************************)
NoSection == [header |-> "", lines |-> <<>>, sections |-> <<>>, globals |-> <<>>]

\* Of sections with the same header the last one is kept.
Closed(p) ==
  IF p.header = "" THEN p
  ELSE IF p.lines = <<>> THEN [p EXCEPT !.globals = Append(@, p.header), !.header = ""]
  ELSE [p EXCEPT !.sections = Append(SelectSeq(@, LAMBDA s : s.header # p.header),
                                     [header |-> p.header, lines |-> p.lines]),
                 !.header = "", !.lines = <<>>]

\* Fault: the lines of a section end at the next header only.
ConfigStepNoBang(p, l) ==
  IF l.indented \/ l.text = "!" THEN (IF p.header = "" THEN p ELSE [p EXCEPT !.lines = Append(@, l.text)])
  ELSE [Closed(p) EXCEPT !.header = l.text]

ConfigStep(p, l) ==
  IF l.text = "!" THEN Closed(p)
  ELSE IF l.indented THEN (IF p.header = "" THEN p ELSE [p EXCEPT !.lines = Append(@, l.text)])
  ELSE [Closed(p) EXCEPT !.header = l.text]

RunningConfig(lines) == Closed(FoldLeft(ConfigStep, NoSection, lines))

\* _parse_interface: {} is None.
NoInterface == [shutdown |-> FALSE, vlan |-> {}, mode |-> {}, allowed |-> {}]

Base(allowed) == IF allowed \in {{}, {{}}} THEN Vlans ELSE UNION allowed

InterfaceStep(c, l) ==
  CASE l.kind = "shutdown"    -> [c EXCEPT !.shutdown = TRUE]
    [] l.kind = "no shutdown" -> [c EXCEPT !.shutdown = FALSE]
    [] l.kind = "vlan"        -> IF l.vlans = {} THEN c ELSE [c EXCEPT !.vlan = l.vlans]
    [] l.kind = "mode"        -> [c EXCEPT !.mode = l.vlans]
    [] l.kind \in {"allowed", "add"} -> [c EXCEPT !.allowed = {UNION @ \cup l.vlans}]
    [] l.kind = "remove"      -> [c EXCEPT !.allowed = {Base(@) \ l.vlans}]
    [] l.kind = "except"      -> [c EXCEPT !.allowed = {Vlans \ l.vlans}]
    [] OTHER                  -> c

InterfaceConfig(lines) == FoldLeft(InterfaceStep, NoInterface, lines)
-----------------------------------------------------------------------------
(***************************************************************************)
(* parse_acls: the running configuration, then show ip access-lists.       *)
(***************************************************************************)
NoAcl == [acl |-> "", statements |-> <<>>]

Statement(acl, l) == [acl |-> acl, text |-> l.text]

\* A numbered list's statement is one line and leaves a named list open.
ConfigAclStep(p, l) ==
  CASE l.kind = "!"      -> [p EXCEPT !.acl = ""]
    [] l.kind = "named"  -> [p EXCEPT !.acl = l.acl]
    [] l.kind = "global" -> [p EXCEPT !.statements = Append(@, Statement(l.acl, l))]
    [] l.kind = "statement" /\ p.acl # "" /\ l.indented ->
                            [p EXCEPT !.statements = Append(@, Statement(p.acl, l))]
    [] OTHER             -> p

ShownAclStep(p, l) ==
  CASE l.kind = "named" -> [p EXCEPT !.acl = l.acl]
    [] l.kind = "statement" /\ p.acl # "" -> [p EXCEPT !.statements = Append(@, Statement(p.acl, l))]
    [] OTHER            -> p

\* Of equal statements the first one stays.
Unique(s) == FoldLeft(LAMBDA u, x : IF x \in {u[k] : k \in DOMAIN u} THEN u ELSE Append(u, x), <<>>, s)

Acls(config, shown) ==
  Unique(FoldLeft(ConfigAclStep, NoAcl, config).statements
         \o FoldLeft(ShownAclStep, NoAcl, shown).statements)
-----------------------------------------------------------------------------
(***************************************************************************)
(* parse_dhcp_snooping and parse_arp_inspection: what either output says.  *)
(***************************************************************************)
\* at: the interface whose section this is, or the lists and tables that are open.
NoSnooping == [enabled |-> FALSE, vlans |-> {}, trusted |-> {}, at |-> {}]

SnoopingConfigStep(p, l) ==
  CASE l.kind = "!"         -> [p EXCEPT !.at = {}]
    [] l.kind = "interface" -> [p EXCEPT !.at = {l.name}]
    [] l.kind = "global"    -> [p EXCEPT !.enabled = TRUE]
    [] l.kind = "vlan"      -> [p EXCEPT !.vlans = @ \cup l.vlans]
    [] l.kind = "trust"     -> [p EXCEPT !.trusted = @ \cup p.at]
    [] OTHER                -> p

\* A VLAN list ends at an empty line and hides the interface table, which no
\* line ends.
SnoopingShowStep(p, l) ==
  CASE l.kind = "empty"    -> [p EXCEPT !.at = @ \ {"vlans"}]
    [] l.kind = "enabled"  -> [p EXCEPT !.enabled = TRUE]
    [] l.kind = "disabled" -> [p EXCEPT !.enabled = FALSE]
    [] l.kind \in {"vlans", "table"}      -> [p EXCEPT !.at = @ \cup {l.kind}]
    [] l.kind = "row" /\ "vlans" \in p.at -> [p EXCEPT !.vlans = @ \cup l.vlans]
    [] l.kind = "row" /\ p.at = {"table"} /\ l.trusted -> [p EXCEPT !.trusted = @ \cup {l.name}]
    [] OTHER               -> p

\* parse_arp_inspection's tables end one another.
ArpShowStep(p, l) ==
  CASE l.kind \in {"vlans", "table"}    -> [p EXCEPT !.at = {l.kind}]
    [] l.kind = "row" /\ p.at = {"vlans"} /\ l.trusted -> [p EXCEPT !.vlans = @ \cup l.vlans]
    [] l.kind = "row" /\ p.at = {"table"} /\ l.trusted -> [p EXCEPT !.trusted = @ \cup {l.name}]
    [] OTHER            -> p

Either(a, b) == [enabled |-> a.enabled \/ b.enabled, vlans |-> a.vlans \cup b.vlans,
                 trusted |-> a.trusted \cup b.trusted]

Snooping(config, shown) == Either(FoldLeft(SnoopingConfigStep, NoSnooping, config),
                                  FoldLeft(SnoopingShowStep, NoSnooping, shown))

ArpInspection(config, shown) == Either(FoldLeft(SnoopingConfigStep, NoSnooping, config),
                                       FoldLeft(ArpShowStep, NoSnooping, shown))
-----------------------------------------------------------------------------
(***************************************************************************)
(* parse_interfaces_trunk and parse_cdp_neighbors_detail.                  *)
(***************************************************************************)
Tables  == {"mode", "allowed", "active", "forwarding"}
NoTrunk == [at |-> "", trunk |-> <<>>]

\* A row names its interface in any table; a header that is none of the known
\* ends them.
TrunkStep(p, l) ==
  CASE l.kind = "header" -> [p EXCEPT !.at = l.table]
    [] l.kind = "row" /\ p.at \in Tables ->
         [p EXCEPT !.trunk = [x \in Tables \X {l.name} |-> IF x[1] = p.at THEN l.vlans
                                ELSE IF x \in DOMAIN @ THEN @[x] ELSE {}] @@ @]
    [] OTHER             -> p

Trunks(lines) == FoldLeft(TrunkStep, NoTrunk, lines).trunk

\* A block goes from a Device ID line to the next; in it the first line of each
\* field counts.
CdpStep(blocks, l) ==
  CASE l.kind = "device" -> Append(blocks, [device |-> l.name, port |-> {}, switch |-> {}])
    [] blocks = <<>>     -> blocks
    [] l.kind = "interface" /\ blocks[Len(blocks)].port = {} ->
         [blocks EXCEPT ![Len(blocks)].port = {l.name}]
    [] l.kind = "platform" /\ blocks[Len(blocks)].switch = {} ->
         [blocks EXCEPT ![Len(blocks)].switch = {l.switch}]
    [] OTHER             -> blocks

CdpNeighbors(lines) == FoldLeft(CdpStep, <<>>, lines)
=============================================================================
