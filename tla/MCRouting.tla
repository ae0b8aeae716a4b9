------------------------------ MODULE MCRouting ------------------------------
(***************************************************************************)
(* A small world for Routing: a live name, a dead one outside of the       *)
(* namespace, two URLs, and workflows cut from the files under workflows/, *)
(* which together have every tool, per target so that the tools run.       *)
(***************************************************************************)
EXTENDS Routing, TLC

CONSTANTS live, dead, ip, tcp, page, app, t1, t2

MCNamespace == [t \in Target |-> {live}]
MCHostOf == [u \in Url |-> live]
MCAddressOf == [n \in Name |-> ip]
MCOpen == {<<live, tcp>>}

Step(tool, once, params, broken, depends_on, when) ==
    [tool |-> tool, once |-> once, params |-> params, broken |-> broken,
     depends_on |-> depends_on, when |-> when]

Each(tool, depends_on, when) == Step(tool, FALSE, {}, FALSE, depends_on, when)

Names == "names" :> Each("subfinder", {}, {})
Resolve == "resolve" :> Each("massdns", {"names"}, {})
Probe == "probe" :> Each("httpx", {"resolve"}, {})
Crawl == "crawl" :> Step("katana", FALSE, {"depth"}, FALSE, {"probe"}, {})

Chain == Names @@ Resolve @@ Probe

OneTarget ==
    {Names @@ Resolve @@ ("ports" :> Each("naabu", {"resolve"}, {}))
        @@ ("services" :> Each("nmap", {"ports"}, {"open_port"})),
     ("names" :> Step("amass", FALSE, {"timeout_min"}, TRUE, {}, {}))
        @@ ("archive" :> Each("waybackurls", {"names"}, {})),
     ("names" :> Each("amass", {}, {}))
        @@ ("archive" :> Each("waybackurls", {"names"}, {}))
        @@ ("xss" :> Each("dalfox", {"archive"}, {"url_param"})),
     Chain @@ ("bypass" :> Each("routing.bypass403", {"probe"}, {"http_403"})),
     Chain @@ ("cms" :> Each("wpscan", {"probe"}, {"wordpress"})),
     Chain @@ ("cors" :> Each("corsy", {"probe"}, {"api_surface"})),
     Chain @@ ("shots" :> Each("gowitness", {"probe"}, {"live_host"})),
     Chain @@ ("content" :> Each("ffuf", {"probe"}, {})),
     Chain @@ ("vulns" :> Each("nuclei", {"probe"}, {})),
     Chain @@ ("mine" :> Each("arjun", {"probe"}, {"api_surface"}))
        @@ ("sql" :> Each("sqlmap", {"mine"}, {"url_param"})),
     ("names" :> Each("assetfinder", {}, {}))
        @@ ("archive" :> Each("waybackurls", {"names"}, {}))
        @@ ("secrets" :> Each("trufflehog", {"archive"}, {"js_url"})),
     ("crawl" :> Each("katana", {}, {"live_host"}))
        @@ ("oob" :> Each("interactsh", {"crawl"}, {"url_param"})),
     ("exposed" :> Each("uncover", {}, {}))
        @@ ("services" :> Each("nmap", {"exposed"}, {"open_port"})),
     ("names" :> Each("assetfinder", {}, {}))
        @@ ("addresses" :> Each("dnsx", {"names"}, {}))
        @@ ("echo" :> Step("builtin.noop", TRUE, {"message"}, FALSE, {"addresses"}, {}))}

TwoTargets ==
    {Names @@ ("archive" :> Each("waybackurls", {"names"}, {})),
     Names @@ Resolve @@ ("services" :> Step("nmap", TRUE, {}, FALSE, {"resolve"}, {}))}

(* Steps of workflows/recon.yaml, as that file writes them.                *)
Recon ==
    Names @@ Resolve @@ ("ports" :> Each("naabu", {"resolve"}, {}))
        @@ ("services" :> Step("nmap", TRUE, {}, FALSE, {"ports"}, {"open_port"}))

ReconRequest == {[steps |-> Recon, targets |-> {t1}]}

MCRequest ==
    [steps : OneTarget, targets : {{t1}}]
        \cup [steps : TwoTargets, targets : {{t1, t2}}]
=============================================================================
