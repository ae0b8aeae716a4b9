------------------------------- MODULE Tools -------------------------------
(***************************************************************************)
(* The tool wrappers of worker/tools: which findings a tool reads, which   *)
(* params it takes, and what its parse makes of the program's output.      *)
(*                                                                         *)
(* A value is what the findings table keeps: a host name, an address, a    *)
(* URL, <<host, port>>, or a composite such as <<template, url>>.  What    *)
(* the programs may print is the environment's choice (Prints), bounded by *)
(* what is true of the targets (the constants below).                      *)
(***************************************************************************)
CONSTANTS
    Target,      \* targets of the scan
    Name,        \* host names
    Address,     \* IP addresses
    Port,
    Url,
    Namespace,   \* per target: the names under it
    HostOf,      \* host of a URL
    AddressOf,   \* what a name resolves to
    Resolves,    \* names that resolve
    Open,        \* <<host, port>> that accept connections
    RiskyPort,   \* ports of data stores
    WithQuery, Script, WordPress, Blocked, Login, Api,  \* kinds of URLs
    Param        \* keys of params

ASSUME WorldAssumption ==
    /\ Namespace \in [Target -> SUBSET Name]
    /\ HostOf \in [Url -> Name]
    /\ AddressOf \in [Name -> Address]
    /\ Resolves \subseteq Name
    /\ Open \subseteq (Name \cup Address) \X Port
    /\ RiskyPort \subseteq Port
    /\ {WithQuery, Script, WordPress, Blocked, Login, Api} \subseteq SUBSET Url

Found(type, values) == [type : {type}, value : values]

(* The class attributes the worker looks at.                               *)
Wrapper(consumes, produces, needs_input_file, allowed_params) ==
    [consumes |-> consumes, produces |-> produces,
     needs_input_file |-> needs_input_file, allowed_params |-> allowed_params]

-----------------------------------------------------------------------------
(* Enumeration                                                             *)

SubfinderTool == Wrapper({}, {"subdomain"}, FALSE, {"all_sources"})
SubfinderParse(out) == Found("subdomain", out)

AssetfinderTool == Wrapper({}, {"subdomain"}, FALSE, {})
AssetfinderParse(out) == Found("subdomain", out)

AmassTool == Wrapper({}, {"subdomain"}, FALSE, {"timeout_min"})
AmassParse(target, out) == Found("subdomain", out \cap Namespace[target])

(* The subdomains it appends have no "value" and its _dedupe drops them;   *)
(* an address without a host name is kept.                                 *)
UncoverTool == Wrapper({}, {"subdomain", "open_port"}, FALSE, {"providers"})
UncoverParse(target, out) ==
    Found("open_port", {o \in out : o[1] \in Namespace[target] \cup Address})

-----------------------------------------------------------------------------
(* Resolution, probing and ports                                           *)

MassdnsTool == Wrapper({"subdomain"}, {"resolved_host"}, TRUE, {})
MassdnsParse(out) == Found("resolved_host", out)

DnsxTool == Wrapper({"subdomain"}, {"ip"}, TRUE, {})
DnsxParse(out) == Found("ip", {AddressOf[n] : n \in out})

HttpxTool ==
    Wrapper({"resolved_host"},
            {"live_host", "wordpress", "http_403", "login_page", "api_surface"},
            TRUE, {})

(* Variant: any answer counts as a refusal.                                *)
HttpxParseAnyStatus(out) ==
    UNION {Found("live_host", out), Found("wordpress", out \cap WordPress),
           Found("http_403", out), Found("login_page", out \cap Login),
           Found("api_surface", out \cap Api)}

HttpxParse(out) ==
    UNION {Found("live_host", out),
           Found("wordpress", out \cap WordPress),
           Found("http_403", out \cap Blocked),
           Found("login_page", out \cap Login),
           Found("api_surface", out \cap Api)}

NaabuTool == Wrapper({"resolved_host"}, {"open_port"}, TRUE, {})
NaabuParse(out) == Found("open_port", out)

NmapTool == Wrapper({"open_port"}, {"service", "exposed_service"}, TRUE, {})

(* _split_open_ports: nmap visits every port of the union on every host.   *)
SplitOpenPorts(values) ==
    [hosts |-> {v[1] : v \in values}, ports |-> {v[2] : v \in values}]

(* nmap prints the address of a host it was given by name.                 *)
NmapParse(out) ==
    LET service(o) == <<IF o[1] \in Name THEN AddressOf[o[1]] ELSE o[1], o[2]>>
    IN  Found("service", {service(o) : o \in out}) \cup
        Found("exposed_service", {service(o) : o \in {x \in out : x[2] \in RiskyPort}})

-----------------------------------------------------------------------------
(* URLs                                                                    *)

Links(urls) ==
    Found("url_param", urls \cap WithQuery) \cup Found("js_url", urls \cap Script)

WaybackurlsTool ==
    Wrapper({"subdomain"}, {"archive_url", "url_param", "js_url"}, FALSE, {})

(* Variant: its URLs are taken for crawled ones.                           *)
WaybackurlsParseAsUrl(out) == Found("url", out) \cup Links(out)

WaybackurlsParse(out) == Found("archive_url", out) \cup Links(out)

KatanaTool ==
    Wrapper({"live_host"}, {"url", "url_param", "js_url"}, TRUE,
            {"depth", "concurrency"})
KatanaParse(out) == Found("url", out) \cup Links(out)

GowitnessTool == Wrapper({"live_host"}, {"screenshot"}, TRUE, {"timeout_secs"})
GowitnessParse(out) == Found("screenshot", out)

(* Both classes of this name are registered; the second one stays.         *)
FfufTool ==
    Wrapper({"live_host"}, {"discovered_url"}, FALSE, {"wordlist", "threads"})
FfufParse(out) == Found("discovered_url", out)

ArjunTool ==
    Wrapper({"live_host", "api_surface"}, {"url_param"}, TRUE, {"threads"})
ArjunParse(out) == Found("url_param", {"fuzz"} \X out)

-----------------------------------------------------------------------------
(* Checks                                                                  *)

NucleiTool == Wrapper({"live_host"}, {"vulnerability"}, TRUE, {"severity"})
NucleiParse(out) == Found("vulnerability", {"template"} \X out)

DalfoxTool == Wrapper({"url_param"}, {"vulnerability"}, TRUE, {"workers"})
DalfoxParse(out) == Found("vulnerability", {"dalfox-xss"} \X out)

Bypass403Tool == Wrapper({"http_403"}, {"vulnerability"}, TRUE, {})
Bypass403Parse(out) == Found("vulnerability", {"bypass403"} \X out)

(* The value names the parameter, not the URL it was found on.             *)
SqlmapTool ==
    Wrapper({"url_param"}, {"vulnerability"}, TRUE, {"level", "risk", "max_urls"})
SqlmapParse(out) == Found("vulnerability", {"sqlmap"} \X {o[2] : o \in out})

(* The value names the plugin, not the site.                               *)
WpscanTool ==
    Wrapper({"wordpress"}, {"vulnerability"}, TRUE, {"max_urls", "enumerate"})
WpscanParse(out) == Found("vulnerability", {"wpscan"} \X {o[2] : o \in out})

CorsyTool == Wrapper({"api_surface"}, {"cors_misconfig"}, TRUE, {"threads"})
CorsyParse(out) == Found("cors_misconfig", out)

TrufflehogTool ==
    Wrapper({"js_url"}, {"secret"}, TRUE, {"max_files", "max_file_bytes"})
TrufflehogParse(out) == Found("secret", {"secret"} \X out)

InteractshTool ==
    Wrapper({"url_param"}, {"vulnerability"}, TRUE,
            {"server", "duration_secs", "max_urls", "request_timeout"})
InteractshParse(out) == Found("vulnerability", {"interactsh-oob"} \X out)

(* Its validate_params keeps the message and drops every other key; what   *)
(* it echoes has no value record_findings could identify.                  *)
BuiltinNoop == Wrapper({}, {"noop_echo"}, FALSE, Param)
NoopParse(out) == {}

-----------------------------------------------------------------------------
(* The registry                                                            *)

ToolName ==
    {"subfinder", "assetfinder", "amass", "uncover", "massdns", "dnsx", "httpx",
     "naabu", "nmap", "waybackurls", "katana", "gowitness", "ffuf", "arjun",
     "nuclei", "dalfox", "routing.bypass403", "sqlmap", "wpscan", "corsy",
     "trufflehog", "interactsh", "builtin.noop"}

Tool(name) ==
    CASE name = "subfinder" -> SubfinderTool
      [] name = "assetfinder" -> AssetfinderTool
      [] name = "amass" -> AmassTool
      [] name = "uncover" -> UncoverTool
      [] name = "massdns" -> MassdnsTool
      [] name = "dnsx" -> DnsxTool
      [] name = "httpx" -> HttpxTool
      [] name = "naabu" -> NaabuTool
      [] name = "nmap" -> NmapTool
      [] name = "waybackurls" -> WaybackurlsTool
      [] name = "katana" -> KatanaTool
      [] name = "gowitness" -> GowitnessTool
      [] name = "ffuf" -> FfufTool
      [] name = "arjun" -> ArjunTool
      [] name = "nuclei" -> NucleiTool
      [] name = "dalfox" -> DalfoxTool
      [] name = "routing.bypass403" -> Bypass403Tool
      [] name = "sqlmap" -> SqlmapTool
      [] name = "wpscan" -> WpscanTool
      [] name = "corsy" -> CorsyTool
      [] name = "trufflehog" -> TrufflehogTool
      [] name = "interactsh" -> InteractshTool
      [] name = "builtin.noop" -> BuiltinNoop

FindingType == UNION {Tool(n).produces : n \in ToolName}

Parse(name, target, out) ==
    CASE name = "subfinder" -> SubfinderParse(out)
      [] name = "assetfinder" -> AssetfinderParse(out)
      [] name = "amass" -> AmassParse(target, out)
      [] name = "uncover" -> UncoverParse(target, out)
      [] name = "massdns" -> MassdnsParse(out)
      [] name = "dnsx" -> DnsxParse(out)
      [] name = "httpx" -> HttpxParse(out)
      [] name = "naabu" -> NaabuParse(out)
      [] name = "nmap" -> NmapParse(out)
      [] name = "waybackurls" -> WaybackurlsParse(out)
      [] name = "katana" -> KatanaParse(out)
      [] name = "gowitness" -> GowitnessParse(out)
      [] name = "ffuf" -> FfufParse(out)
      [] name = "arjun" -> ArjunParse(out)
      [] name = "nuclei" -> NucleiParse(out)
      [] name = "dalfox" -> DalfoxParse(out)
      [] name = "routing.bypass403" -> Bypass403Parse(out)
      [] name = "sqlmap" -> SqlmapParse(out)
      [] name = "wpscan" -> WpscanParse(out)
      [] name = "corsy" -> CorsyParse(out)
      [] name = "trufflehog" -> TrufflehogParse(out)
      [] name = "interactsh" -> InteractshParse(out)
      [] name = "builtin.noop" -> NoopParse(out)

(* What the programs may print, given the values of each type they read.   *)
Prints(name, in) ==
    CASE name \in {"subfinder", "assetfinder", "amass"} -> Name
      [] name = "uncover" -> (Name \cup Address) \X Port
      [] name \in {"massdns", "dnsx"} -> in["subdomain"] \cap Resolves
      [] name = "httpx" -> {u \in Url : HostOf[u] \in in["resolved_host"]}
      [] name = "naabu" -> {o \in Open : o[1] \in in["resolved_host"]}
      [] name = "nmap" -> LET plan == SplitOpenPorts(in["open_port"])
                          IN  Open \cap (plan.hosts \X plan.ports)
      [] name = "waybackurls" -> {u \in Url : HostOf[u] \in in["subdomain"]}
      [] name = "katana" -> Url
      [] name = "gowitness" -> {HostOf[u] : u \in in["live_host"]}
      [] name \in {"ffuf", "nuclei"} -> in["live_host"]
      [] name = "arjun" -> in["live_host"] \cup in["api_surface"]
      [] name \in {"dalfox", "interactsh"} -> in["url_param"]
      [] name = "routing.bypass403" -> in["http_403"]
      [] name = "sqlmap" -> in["url_param"] \X {"parameter"}
      [] name = "wpscan" -> in["wordpress"] \X {"plugin"}
      [] name = "corsy" -> in["api_surface"]
      [] name = "trufflehog" -> in["js_url"]
      [] name = "builtin.noop" -> {}
=============================================================================
