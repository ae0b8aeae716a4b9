----------------------------- MODULE StageTools -----------------------------
(***************************************************************************)
(* recon/tools.py and recon/parsers.py of the legacy orchestrator: its     *)
(* seven tools, the stage each belongs to, what its command line names,    *)
(* and what its parser makes of the lines a program printed.               *)
(*                                                                         *)
(* A line is [form, value].  Blank lines, repetitions and the order of the *)
(* lines are left out: but for nuclei, the parsers ignore them.            *)
(***************************************************************************)
EXTENDS Naturals, Sequences

CONSTANTS
    Domain,   \* target_domain
    Value,    \* names, URLs, host:port pairs and vulnerabilities
    NoFile

Form == {"plain", "host_port", "json", "odd_json", "ports"}
Line == [form : Form, value : Value]

FindingKind == {"subdomain", "open_port", "live_host", "vulnerability",
                "host_ports"}
Evidence == [type : FindingKind, value : Value]

Spec_(stage, requires, parser) ==
    [stage |-> stage, requires_files |-> requires, parser_name |-> parser]

TOOL_SPECS ==
    [subfinder   |-> Spec_(1, {}, "line"),
     assetfinder |-> Spec_(1, {}, "line"),
     amass       |-> Spec_(1, {}, "line"),
     nmap        |-> Spec_(1, {}, "nmap"),
     naabu       |-> Spec_(1, {}, "naabu"),
     httpx       |-> Spec_(2, {"subdomains"}, "httpx"),
     nuclei      |-> Spec_(3, {"live_hosts"}, "nuclei")]

ToolNames == DOMAIN TOOL_SPECS
StageOf(tool) == TOOL_SPECS[tool].stage
Stages == {1, 2, 3}

(* The hosts a command line names: the domain, or a file of an earlier     *)
(* stage.                                                                  *)
Argument(tool, files) ==
    CASE tool = "httpx"  -> files.subdomains
      [] tool = "nuclei" -> files.live_hosts
      [] OTHER           -> {Domain}

AllTools ==
    <<"subfinder", "assetfinder", "amass", "nmap", "naabu", "httpx", "nuclei">>

(* sorted() is stable: place i is for the tool at p[i].                    *)
Sorts(p, tools) ==
    \A i, j \in DOMAIN tools : i < j =>
        \/ StageOf(tools[p[i]]) < StageOf(tools[p[j]])
        \/ StageOf(tools[p[i]]) = StageOf(tools[p[j]]) /\ p[i] < p[j]

Named(enabled_tools) == {enabled_tools[i] : i \in DOMAIN enabled_tools}

(* With "all" among them the other names are not looked at.                *)
Known(enabled_tools) ==
    "all" \in Named(enabled_tools) \/ Named(enabled_tools) \subseteq ToolNames

(* The one sorted list; a name given twice is kept twice.                  *)
expand_tool_selection(enabled_tools) ==
    LET places == DOMAIN enabled_tools
    IN  IF "all" \in Named(enabled_tools)
        THEN {AllTools}
        ELSE {[i \in places |-> enabled_tools[p[i]]] :
                p \in {q \in [places -> places] : Sorts(q, enabled_tools)}}

-----------------------------------------------------------------------------
(* The parsers                                                             *)

Findings(type, lines) == {[type |-> type, value |-> l.value] : l \in lines}
Of(forms, out) == {l \in out : l.form \in forms}

(* Every line is a finding, a banner or a warning too.                     *)
LineParser(out) == Findings("subdomain", out)

NaabuParser(out) == Findings("open_port", Of({"host_port"}, out))

(* JSON whose fields have other types raises; the caller then has nothing. *)
HttpxParser(out) ==
    IF Of({"odd_json"}, out) # {}
    THEN {}
    ELSE Findings("live_host", Of({"json"}, out))

NucleiParser(out) ==
    IF Of({"odd_json"}, out) # {}
    THEN {}
    ELSE Findings("vulnerability", Of({"json"}, out))

NmapParser(out) == Findings("host_ports", Of({"ports"}, out))

parse_findings(tool, out) ==
    LET parser == TOOL_SPECS[tool].parser_name
    IN  CASE parser = "line"   -> LineParser(out)
          [] parser = "naabu"  -> NaabuParser(out)
          [] parser = "httpx"  -> HttpxParser(out)
          [] parser = "nuclei" -> NucleiParser(out)
          [] parser = "nmap"   -> NmapParser(out)
=============================================================================
