--------------------------- MODULE MCStageRunner ---------------------------
(***************************************************************************)
(* Selections that name stages out of order, a tool twice, an unknown tool *)
(* and none; two permits, two attempts, two names.                         *)
(***************************************************************************)
EXTENDS StageRunner

CONSTANTS a, b

Flags(tools, dry) == [tools |-> tools, dry_run |-> dry]

MCOption ==
    {Flags(<<"nuclei", "httpx", "subfinder", "amass">>, FALSE),
     Flags(<<"nmap", "naabu", "nmap">>, FALSE),
     Flags(<<"httpx", "naabu">>, FALSE),
     Flags(Unset, TRUE), Flags(<<"nikto", "all">>, TRUE),
     Flags(<<>>, FALSE), Flags(<<"nikto">>, FALSE)}

MCPrints(tool, argument) ==
    CASE tool \in {"subfinder", "amass"} ->
            {{}, {[form |-> "plain", value |-> IF tool = "amass" THEN a ELSE b]}}
      [] tool = "httpx" ->
            {{}, {[form |-> "json", value |-> v] : v \in argument}}
      [] tool = "nuclei" ->
            {{[form |-> "json", value |-> v] : v \in argument}}
      [] tool = "nmap" -> {{[form |-> "ports", value |-> a]}}
      [] OTHER -> {{[form |-> "host_port", value |-> a]}}
=============================================================================
