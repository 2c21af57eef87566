----------------------------- MODULE ParserCases -----------------------------
(***************************************************************************)
(* The parsers of IosxeParsers against what their lines say one by one: a  *)
(* step parses one output, picked line by line from small alphabets.       *)
(***************************************************************************)
EXTENDS IosxeParsers

VARIABLES type,    \* check_type or parser that was run, "" before
          input,   \* what it was given
          outcome  \* what it returned

vars == <<type, input, outcome>>

UpTo(n, S) == UNION {[1..k -> S] : k \in 0..n}

Evaluated(t, i, o) == type' = t /\ input' = i /\ outcome' = o

Parsed(t, i, v) == Evaluated(t, i, [status |-> "parsed", failed |-> {}, passed |-> {}, value |-> v])
-----------------------------------------------------------------------------
ConfigLines == [text : {"g", "h"}, indented : {FALSE}] \cup [text : {"a"}, indented : {TRUE}]
               \cup {[text |-> "!", indented |-> FALSE]}

ParseConfig ==
  \E lines \in UpTo(5, ConfigLines) : Parsed("config", lines, RunningConfig(lines))

InterfaceLines == [kind : {"shutdown", "no shutdown"}, vlans : {{}}]
                  \cup [kind : {"vlan", "mode"}, vlans : {{}, {1}}]
                  \cup [kind : {"allowed", "add", "remove", "except"}, vlans : {{1}, {1, 2}}]

ParseInterface ==
  \E lines \in UpTo(3, InterfaceLines) : Parsed("switchport", lines, InterfaceConfig(lines))

AclLines == {[kind |-> "!", acl |-> "", text |-> "", indented |-> FALSE]}
            \cup [kind : {"named"}, acl : {"m", "n"}, text : {""}, indented : {FALSE}]
            \cup [kind : {"global"}, acl : {"m"}, text : {"s"}, indented : {FALSE}]
            \cup [kind : {"statement"}, acl : {""}, text : {"s"}, indented : BOOLEAN]

ParseAcls ==
  \E config \in UpTo(4, AclLines), shown \in UpTo(2, {l \in AclLines : l.kind \in {"named", "statement"}}) :
    Parsed("acl", [config |-> config, shown |-> shown], Acls(config, shown))

ServiceLines == [kind : {"!", "global", "trust"}, name : {""}, vlans : {{}}]
                \cup [kind : {"interface"}, name : {"p", "q"}, vlans : {{}}]
                \cup [kind : {"vlan"}, name : {""}, vlans : {{1}}]

ShownLines == [kind : {"empty", "enabled", "disabled", "vlans", "table"}, name : {""}, vlans : {{}}, trusted : {FALSE}]
              \cup [kind : {"row"}, name : {"p"}, vlans : {{2}}, trusted : BOOLEAN]

ParseSnooping ==
  \E config \in UpTo(3, ServiceLines), shown \in UpTo(3, ShownLines), arp \in BOOLEAN :
    /\ config = <<>> \/ shown \in UpTo(1, ShownLines)
    /\ Parsed(IF arp THEN "arp output" ELSE "dhcp output", [config |-> config, shown |-> shown],
                 IF arp THEN ArpInspection(config, shown) ELSE Snooping(config, shown))

TrunkLines == [kind : {"header"}, table : {"mode", "allowed", "unknown"}, name : {""}, vlans : {{}}]
              \cup [kind : {"row"}, table : {""}, name : {"p", "q"}, vlans : {{1}, {2}}]

ParseTrunks == \E lines \in UpTo(4, TrunkLines) : Parsed("trunk output", lines, Trunks(lines))

CdpLines == [kind : {"device", "interface"}, name : {"x", "y"}, switch : {FALSE}]
            \cup [kind : {"platform"}, name : {""}, switch : BOOLEAN]

ParseCdp == \E lines \in UpTo(4, CdpLines) : Parsed("cdp output", lines, CdpNeighbors(lines))

Parse == ParseConfig \/ ParseInterface \/ ParseAcls \/ ParseSnooping \/ ParseTrunks \/ ParseCdp
-----------------------------------------------------------------------------
(***************************************************************************)
(* What the lines say.                                                     *)
(***************************************************************************)
\* The latest line before k that is one of the given kinds, as a set.
Owner(lines, k, kinds) ==
  {lines[j] : j \in {i \in 1..(k - 1) : lines[i].kind \in kinds
                     /\ \A m \in (i + 1)..(k - 1) : lines[m].kind \notin kinds}}

At(lines, kinds) == {k \in DOMAIN lines : lines[k].kind \in kinds}

\* A section is a header and the indented lines right below it.
Header(lines, k) == ~lines[k].indented /\ lines[k].text # "!"

Below(lines, k) == {m \in (k + 1)..Len(lines) : \A j \in (k + 1)..m : lines[j].indented}

SectionsRight(lines, p) ==
  /\ {s.header : s \in Range(p.sections)} =
       {lines[k].text : k \in {i \in DOMAIN lines : Header(lines, i) /\ Below(lines, i) # {}}}
  /\ \A s \in Range(p.sections) :
       LET k == CHOOSE i \in DOMAIN lines :
                  /\ Header(lines, i) /\ lines[i].text = s.header /\ Below(lines, i) # {}
                  /\ \A j \in (i + 1)..Len(lines) :
                       ~(Header(lines, j) /\ lines[j].text = s.header /\ Below(lines, j) # {})
       IN  Len(s.lines) = Cardinality(Below(lines, k)) /\ "!" \notin Range(s.lines)
  /\ Len(p.globals) = Cardinality({i \in DOMAIN lines : Header(lines, i) /\ Below(lines, i) = {}})

\* The last line that decides a VLAN says whether the trunk carries it.
Decides(l, v) == l.kind = "except" \/ (l.kind \in {"allowed", "add", "remove"} /\ v \in l.vlans)

\* A remove with nothing left to remove from starts from every VLAN again.
StartsOver(lines) ==
  \E k \in At(lines, {"remove"}) : InterfaceConfig(SubSeq(lines, 1, k - 1)).allowed = {{}}

InterfaceRight(lines, c) ==
  /\ c.shutdown <=> \E k \in At(lines, {"shutdown"}) : At(lines, {"no shutdown"}) \cap (k..Len(lines)) = {}
  /\ ~StartsOver(lines) => \A v \in Vlans, allowed \in c.allowed :
       LET deciding == {k \in DOMAIN lines : Decides(lines[k], v)}
           changing == At(lines, {"allowed", "add", "remove", "except"})
           last     == lines[CHOOSE k \in deciding : \A j \in deciding : j <= k]
           first    == lines[CHOOSE k \in changing : \A j \in changing : k <= j]
       IN  v \in allowed <=> IF deciding = {} THEN first.kind = "remove"
                             ELSE IF last.kind = "except" THEN v \notin last.vlans
                             ELSE last.kind # "remove"

\* Whose statements: a numbered line's own list, the list whose header is above.
Says(lines, indented) ==
  {Statement(lines[k].acl, lines[k]) : k \in At(lines, {"global"})}
  \cup UNION {{Statement(o.acl, lines[k]) : o \in {h \in Owner(lines, k, {"named", "!"}) : h.kind = "named"}} :
              k \in {i \in At(lines, {"statement"}) : indented => lines[i].indented}}

AclsRight(i, statements) ==
  /\ Range(statements) = Says(i.config, TRUE) \cup Says(i.shown, FALSE)
  /\ Len(statements) = Cardinality(Range(statements))
  /\ \A a, b \in DOMAIN statements :  \* the configuration's come first
       statements[a] \notin Says(i.config, TRUE) /\ statements[b] \in Says(i.config, TRUE) => b < a

Trusts(i) ==
  UNION {{o.name : o \in {h \in Owner(i.config, k, {"interface", "!"}) : h.kind = "interface"}} :
         k \in At(i.config, {"trust"})}

SnoopingRight(i, p) ==
  LET hidden == {k \in At(i.shown, {"row"}) : \E o \in Owner(i.shown, k, {"vlans", "empty"}) : o.kind = "vlans"}
      switch == At(i.shown, {"enabled", "disabled"})
  IN  /\ p.enabled <=> At(i.config, {"global"}) # {}
                       \/ \E k \in switch : i.shown[k].kind = "enabled" /\ \A j \in switch : j <= k
      /\ p.vlans = UNION {i.config[k].vlans : k \in At(i.config, {"vlan"})}
                   \cup UNION {i.shown[k].vlans : k \in hidden}
      /\ p.trusted = Trusts(i)
                     \cup {i.shown[k].name : k \in {r \in At(i.shown, {"row"}) \ hidden :
                             i.shown[r].trusted /\ Owner(i.shown, r, {"table"}) # {}}}

ArpRight(i, p) ==
  LET under(kind) == {k \in At(i.shown, {"row"}) : i.shown[k].trusted
                        /\ \E o \in Owner(i.shown, k, {"vlans", "table"}) : o.kind = kind}
  IN  /\ p.vlans = UNION {i.config[k].vlans : k \in At(i.config, {"vlan"})}
                   \cup UNION {i.shown[k].vlans : k \in under("vlans")}
      /\ p.trusted = Trusts(i) \cup {i.shown[k].name : k \in under("table")}

\* What the last row of a port in a table says.
TrunksRight(lines, trunk) ==
  LET rows(t, p) == {k \in At(lines, {"row"}) : lines[k].name = p
                       /\ \E h \in Owner(lines, k, {"header"}) : h.table = t}
      ports      == {p \in {"p", "q"} : \E t \in Tables : rows(t, p) # {}}
  IN  /\ DOMAIN trunk = Tables \X ports
      /\ \A t \in Tables, p \in ports :
           trunk[t, p] = UNION {lines[k].vlans : k \in {r \in rows(t, p) : \A j \in rows(t, p) : j <= r}}

\* A neighbour has the first port and the first capabilities below its name.
CdpRight(lines, blocks) ==
  LET devices == At(lines, {"device"}) IN
  /\ Len(blocks) = Cardinality(devices)
  /\ \A d \in devices :
       LET b     == blocks[Cardinality({e \in devices : e <= d})]
           below == {k \in (d + 1)..Len(lines) : devices \cap ((d + 1)..k) = {}}
           first(kind) == {k \in below : lines[k].kind = kind
                             /\ \A j \in (d + 1)..(k - 1) : lines[j].kind # kind}
       IN  /\ b.device = lines[d].name
           /\ b.port = {lines[k].name : k \in first("interface")}
           /\ b.switch = {lines[k].switch : k \in first("platform")}

\* Nothing a parser returns is put to the wrong owner: a line counts for the
\* section, list, table, port or neighbour it stands under, in whatever order the
\* headers, separators and repeated lines come, and of repeated ones the right
\* one wins.
ParsersFaithful ==
  CASE type = "config"       -> SectionsRight(input, outcome.value)
    [] type = "switchport"   -> InterfaceRight(input, outcome.value)
    [] type = "acl"          -> AclsRight(input, outcome.value)
    [] type = "dhcp output"  -> SnoopingRight(input, outcome.value)
    [] type = "arp output"   -> ArpRight(input, outcome.value)
    [] type = "trunk output" -> TrunksRight(input, outcome.value)
    [] type = "cdp output"   -> CdpRight(input, outcome.value)
    [] OTHER                 -> TRUE
=============================================================================
