--------------------------- MODULE RoutingProofs ---------------------------
(***************************************************************************)
(* What flows from tool to tool keeps its meaning, every step sees all its *)
(* dependencies found, and a gated step is never without input: for every  *)
(* workflow, set of targets and bound.                                     *)
(***************************************************************************)
EXTENDS Routing, TLAPS

-----------------------------------------------------------------------------
(* A wrapper reports no other types than it declares.                      *)
LEMMA ParseProduces ==
    ASSUME NEW name \in ToolName, NEW target, NEW out,
           NEW f \in Parse(name, target, out)
    PROVE  f.type \in Tool(name).produces
<1>1. CASE name = "subfinder"
  BY <1>1 DEF Parse, Tool, SubfinderTool, SubfinderParse, Found, Wrapper
<1>2. CASE name = "assetfinder"
  BY <1>2 DEF Parse, Tool, AssetfinderTool, AssetfinderParse, Found, Wrapper
<1>3. CASE name = "amass"
  BY <1>3 DEF Parse, Tool, AmassTool, AmassParse, Found, Wrapper
<1>4. CASE name = "uncover"
  BY <1>4 DEF Parse, Tool, UncoverTool, UncoverParse, Found, Wrapper
<1>5. CASE name = "massdns"
  BY <1>5 DEF Parse, Tool, MassdnsTool, MassdnsParse, Found, Wrapper
<1>6. CASE name = "dnsx"
  BY <1>6 DEF Parse, Tool, DnsxTool, DnsxParse, Found, Wrapper
<1>7. CASE name = "httpx"
  BY <1>7 DEF Parse, Tool, HttpxTool, HttpxParse, Found, Wrapper
<1>8. CASE name = "naabu"
  BY <1>8 DEF Parse, Tool, NaabuTool, NaabuParse, Found, Wrapper
<1>9. CASE name = "nmap"
  BY <1>9 DEF Parse, Tool, NmapTool, NmapParse, Found, Wrapper
<1>10. CASE name = "waybackurls"
  BY <1>10 DEF Parse, Tool, WaybackurlsTool, WaybackurlsParse, Links, Found, Wrapper
<1>11. CASE name = "katana"
  BY <1>11 DEF Parse, Tool, KatanaTool, KatanaParse, Links, Found, Wrapper
<1>12. CASE name = "gowitness"
  BY <1>12 DEF Parse, Tool, GowitnessTool, GowitnessParse, Found, Wrapper
<1>13. CASE name = "ffuf"
  BY <1>13 DEF Parse, Tool, FfufTool, FfufParse, Found, Wrapper
<1>14. CASE name = "arjun"
  BY <1>14 DEF Parse, Tool, ArjunTool, ArjunParse, Found, Wrapper
<1>15. CASE name = "nuclei"
  BY <1>15 DEF Parse, Tool, NucleiTool, NucleiParse, Found, Wrapper
<1>16. CASE name = "dalfox"
  BY <1>16 DEF Parse, Tool, DalfoxTool, DalfoxParse, Found, Wrapper
<1>17. CASE name = "routing.bypass403"
  BY <1>17 DEF Parse, Tool, Bypass403Tool, Bypass403Parse, Found, Wrapper
<1>18. CASE name = "sqlmap"
  BY <1>18 DEF Parse, Tool, SqlmapTool, SqlmapParse, Found, Wrapper
<1>19. CASE name = "wpscan"
  BY <1>19 DEF Parse, Tool, WpscanTool, WpscanParse, Found, Wrapper
<1>20. CASE name = "corsy"
  BY <1>20 DEF Parse, Tool, CorsyTool, CorsyParse, Found, Wrapper
<1>21. CASE name = "trufflehog"
  BY <1>21 DEF Parse, Tool, TrufflehogTool, TrufflehogParse, Found, Wrapper
<1>22. CASE name = "interactsh"
  BY <1>22 DEF Parse, Tool, InteractshTool, InteractshParse, Found, Wrapper
<1>23. CASE name = "builtin.noop"
  BY <1>23 DEF Parse, Tool, BuiltinNoop, NoopParse, Found, Wrapper
<1>. QED  BY <1>1, <1>2, <1>3, <1>4, <1>5, <1>6, <1>7, <1>8, <1>9, <1>10, <1>11, <1>12, <1>13, <1>14, <1>15, <1>16, <1>17, <1>18, <1>19, <1>20, <1>21, <1>22, <1>23 DEF ToolName

-----------------------------------------------------------------------------
(* The plan of a scan never changes.                                       *)
LEMMA SamePlan ==
    ASSUME [Next]_vars
    PROVE  /\ request' = request
           /\ Task' = Task /\ Steps' = Steps /\ Meaning' = Meaning
           /\ \A t : /\ ToolOf(t)' = ToolOf(t)
                     /\ StepOf(t)' = StepOf(t)
                     /\ DependsOn(t)' = DependsOn(t)
<1>1. request' = request
  BY DEF Next, vars, Insert, Dispatch, Handle, Crash, LoseCascade, RefuseTool,
         Raise, Refuse, Cascade, Launch, Report, LoseBatch, Finish, Retry, Exhaust
<1>2. Task' = Task /\ Steps' = Steps /\ Meaning' = Meaning
  BY <1>1 DEF Task, Steps, Groups, Meaning
<1>. QED  BY <1>1, <1>2 DEF ToolOf, StepOf, DependsOn

(* A task belongs to a step of the request, whose tool is registered.      *)
LEMMA TaskStep ==
    ASSUME request \in Request, NEW t \in Task
    PROVE  /\ t[1] \in Steps
           /\ StepOf(t).tool \in ToolName
           /\ StepOf(t).when \subseteq FindingType
           /\ DependsOn(t) \subseteq Task
<1>1. PICK s \in Steps : \E g \in Groups(s) : t = <<s, g>>
  BY DEF Task
<1>2. t[1] = s
  BY <1>1
<1>. QED  BY <1>1, <1>2, RoutingAssumption DEF Steps, StepOf, DependsOn

-----------------------------------------------------------------------------
(* What a wrapper makes of input of the right meaning has its meaning too. *)
LEMMA ParseMeans ==
    ASSUME NEW s \in Steps, NEW name \in ToolName, request.steps[s].tool = name,
           NEW target, NEW in,
           \A ty \in DOMAIN Meaning \cap Tool(name).consumes :
               in[ty] \subseteq Meaning[ty],
           NEW out \in SUBSET Prints(name, in),
           NEW f \in Parse(name, target, out),
           f.type \in DOMAIN Meaning
    PROVE  f.value \in Meaning[f.type]
<1>. DEFINE Signal == {"resolved_host", "live_host", "url_param", "http_403",
                       "wordpress", "api_surface", "open_port"}
<1>1. DOMAIN Meaning = Signal
  BY DEF Meaning
<1>2. CASE name \notin {"uncover", "massdns", "httpx", "naabu", "waybackurls",
                        "katana", "arjun"}
  <2>1. Tool(name).produces \cap Signal = {}
    BY <1>2 DEF Tool, ToolName, Wrapper, SubfinderTool, AssetfinderTool, AmassTool,
       DnsxTool, NmapTool, GowitnessTool, FfufTool, NucleiTool, DalfoxTool,
       Bypass403Tool, SqlmapTool, WpscanTool, CorsyTool, TrufflehogTool,
       InteractshTool, BuiltinNoop
  <2>. QED  BY <1>1, <2>1, ParseProduces
<1>3. CASE name = "uncover"
  <2>1. f.type = "open_port" /\ f.value \in out
    BY <1>3 DEF Parse, UncoverParse, Found
  <2>2. out \subseteq (Name \cup Address) \X Port
    BY <1>3 DEF Prints
  <2>. QED  BY <1>3, <2>1, <2>2 DEF Meaning
<1>4. CASE name = "massdns"
  <2>1. f.type = "resolved_host" /\ f.value \in out
    BY <1>4 DEF Parse, MassdnsParse, Found
  <2>2. out \subseteq Resolves
    BY <1>4 DEF Prints
  <2>. QED  BY <2>1, <2>2 DEF Meaning
<1>5. CASE name = "httpx"
  <2>1. out \subseteq Url
    BY <1>5 DEF Prints
  <2>2. f \in HttpxParse(out)
    BY <1>5 DEF Parse
  <2>3. \/ f.type = "live_host" /\ f.value \in out
        \/ f.type = "wordpress" /\ f.value \in WordPress
        \/ f.type = "http_403" /\ f.value \in Blocked
        \/ f.type = "login_page"
        \/ f.type = "api_surface" /\ f.value \in Api
    BY <2>2 DEF HttpxParse, Found
  <2>. QED  BY <1>1, <2>1, <2>3 DEF Meaning
<1>6. CASE name = "naabu"
  <2>1. f.type = "open_port" /\ f.value \in out
    BY <1>6 DEF Parse, NaabuParse, Found
  <2>2. out \subseteq Open
    BY <1>6 DEF Prints
  <2>. QED  BY <2>1, <2>2, WorldAssumption DEF Meaning
<1>7. CASE name \in {"waybackurls", "katana"}
  <2>1. \/ f.type = "url_param" /\ f.value \in WithQuery
        \/ f.type \in {"archive_url", "url", "js_url"}
    BY <1>7 DEF Parse, WaybackurlsParse, KatanaParse, Links, Found
  <2>. QED  BY <1>1, <2>1 DEF Meaning, Parameterized
<1>8. CASE name = "arjun"
  <2>1. f.type = "url_param" /\ f.value \in {"fuzz"} \X out
    BY <1>8 DEF Parse, ArjunParse, Found
  <2>2. Tool(name).consumes = {"live_host", "api_surface"}
    BY <1>8 DEF Tool, ArjunTool, Wrapper
  <2>3. in["live_host"] \subseteq Url /\ in["api_surface"] \subseteq Api
    BY <1>1, <2>2 DEF Meaning
  <2>4. out \subseteq in["live_host"] \cup in["api_surface"]
    BY <1>8 DEF Prints
  <2>5. out \subseteq Url
    BY <2>3, <2>4, WorldAssumption
  <2>. QED  BY <2>1, <2>5 DEF Meaning, Parameterized
<1>. QED  BY <1>2, <1>3, <1>4, <1>5, <1>6, <1>7, <1>8

-----------------------------------------------------------------------------
(* How a step moves tasks and findings.                                    *)

(* A task that was let go has its dependencies behind it, and its gate was *)
(* open if it has any: the others go without being asked.                  *)
LetGo(t) == at[t] \notin {"unplanned", "held", "aborted"}

Clear(t) ==
    /\ DependenciesDone(t)
    /\ StepOf(t).depends_on # {} => GateOpen(t)

Gated == \A t \in Task : LetGo(t) => Clear(t)

(* Rows only appear while a tool reports.                                  *)
Kept == /\ rows \subseteq rows'
        /\ \A r \in rows' :
              r \in rows \/ (r.task \in Task /\ at[r.task] = "launched")

(* A tool that is at work was at work with this input, or just started.    *)
Moved(t) ==
    /\ at[t] = "succeeded" => at'[t] = "succeeded"
    /\ LetGo(t)' => LetGo(t) \/ Clear(t)
    /\ AtWork(t)' => \/ AtWork(t) /\ input'[t] = input[t]
                     \/ input'[t] = Values(t) /\ rows' = rows

(* A cascade takes back no success and lets nothing go.                    *)
LEMMA CascadeMoves ==
    ASSUME NEW u \in Task, Cascade(u)
    PROVE  Kept /\ \A t \in Task : Moved(t)
<1>1. ASSUME NEW t \in Task
      PROVE  /\ at[t] = "succeeded" => at'[t] = "succeeded"
             /\ LetGo(t)' => LetGo(t)
             /\ AtWork(t)' => AtWork(t)
  BY DEF Cascade, Behind, LetGo, AtWork, Queued
<1>2. UNCHANGED <<input, rows>>
  BY DEF Cascade
<1>. QED  BY <1>1, <1>2 DEF Moved, Kept

LEMMA Moves ==
    ASSUME TypeOK, Next
    PROVE  Kept /\ \A t \in Task : Moved(t)
<1>. USE DEF TypeOK, Moved, Kept, LetGo, AtWork, Queued, Running, Terminal
<1>1. ASSUME NEW u \in Task, Dispatch(u)
      PROVE  Kept /\ \A t \in Task : Moved(t)
  BY <1>1 DEF Dispatch, Clear
<1>0. ASSUME NEW u \in Task, Insert(u)
      PROVE  Kept /\ \A t \in Task : Moved(t)
  <2>1. StepOf(u).depends_on = {} => Clear(u)
    BY DEF Clear, DependenciesDone, DependsOn
  <2>. QED  BY <1>0, <2>1 DEF Insert
<1>2. ASSUME NEW u \in Task, Raise(u)
      PROVE  Kept /\ \A t \in Task : Moved(t)
  BY <1>2 DEF Raise, Handed
<1>3. ASSUME NEW u \in Task, Refuse(u)
      PROVE  Kept /\ \A t \in Task : Moved(t)
  BY <1>3 DEF Refuse, Handed
<1>4. ASSUME NEW u \in Task, Launch(u)
      PROVE  Kept /\ \A t \in Task : Moved(t)
  BY <1>4 DEF Launch, Handed
<1>5. ASSUME NEW u \in Task, Report(u)
      PROVE  Kept /\ \A t \in Task : Moved(t)
  <2>1. /\ at[u] = "launched"
        /\ at' = [at EXCEPT ![u] = "recorded"]
        /\ input' = input
    BY <1>5 DEF Report
  <2>2. PICK found : Record(u, found)
    BY <1>5 DEF Report
  <2>3. Kept
    BY <2>1, <2>2 DEF Record
  <2>. QED  BY <2>1, <2>3
<1>6. ASSUME NEW u \in Task, LoseBatch(u)
      PROVE  Kept /\ \A t \in Task : Moved(t)
  BY <1>6 DEF LoseBatch
<1>7. ASSUME NEW u \in Task, Finish(u)
      PROVE  Kept /\ \A t \in Task : Moved(t)
  BY <1>7 DEF Finish
<1>8. ASSUME NEW u \in Task, Retry(u)
      PROVE  Kept /\ \A t \in Task : Moved(t)
  BY <1>8 DEF Retry
<1>9. ASSUME NEW u \in Task, Exhaust(u)
      PROVE  Kept /\ \A t \in Task : Moved(t)
  BY <1>9 DEF Exhaust
<1>10. ASSUME NEW u \in Task, Crash(u)
      PROVE  Kept /\ \A t \in Task : Moved(t)
  BY <1>10 DEF Crash
<1>11. ASSUME NEW u \in Task, RefuseTool(u)
       PROVE  Kept /\ \A t \in Task : Moved(t)
  BY <1>11 DEF RefuseTool, Handed
<1>12. ASSUME NEW u \in Task, LoseCascade(u)
       PROVE  Kept /\ \A t \in Task : Moved(t)
  BY <1>12 DEF LoseCascade
<1>. QED
  BY <1>0, <1>1, <1>2, <1>3, <1>4, <1>5, <1>6, <1>7, <1>8, <1>9, <1>10, <1>11,
     <1>12, CascadeMoves
  DEF Next, Handle

-----------------------------------------------------------------------------
(* Types                                                                   *)

State == {"unplanned"} \cup Queued \cup Running \cup Terminal

(* A cascade aborts what is queued, so that the dead stay dead and nothing *)
(* is put to work.                                                         *)
LEMMA CascadeTypes ==
    ASSUME TypeOK, NEW t \in Task, Cascade(t)
    PROVE  /\ at' \in [Task -> State]
           /\ \A u \in Task : AtWork(u)' => AtWork(u)
           /\ \A u \in due' : u \in Task /\ at'[u] \in Dead
<1>1. /\ at' = [u \in Task |->
                  IF u \in Behind(t, Queued) THEN "aborted" ELSE at[u]]
      /\ due' \subseteq due
  BY DEF Cascade
<1>2. /\ at \in [Task -> State]
      /\ \A u \in due : u \in Task /\ at[u] \in Dead
  BY DEF TypeOK, State
<1>3. \A u : u \in Behind(t, Queued) => at[u] \in Queued
  BY DEF Behind
<1>. QED  BY <1>1, <1>2, <1>3 DEF AtWork, State, Queued, Dead, Terminal

LEMMA TypeStep ==
    ASSUME TypeOK, [Next]_vars
    PROVE  TypeOK'
<1>. DEFINE AtOK == /\ at' \in [Task -> State]
                    /\ \A t \in due' : t \in Task /\ at'[t] \in Dead
                    /\ spared' \subseteq Task
            AttemptOK == attempt' \in [Task -> 1..MaxAttempts]
            InputOK == /\ DOMAIN input' = Task
                       /\ \A t \in Task : AtWork(t)' =>
                             DOMAIN input'[t] = ToolOf(t).consumes
            RowsOK == \A r \in rows' :
                         r.task \in Task /\ r.type \in ToolOf(r.task).produces
            CrashesOK == crashes' \in 0..MaxCrashes
<1>0. /\ MaxAttempts \in Nat \ {0} /\ MaxCrashes \in Nat
      /\ \A t : Values(t) = [ty \in ToolOf(t).consumes |->
                               {r.value : r \in {x \in rows : x.type = ty}}]
  BY RoutingAssumption DEF Values
<1>. SUFFICES AtOK /\ AttemptOK /\ InputOK /\ RowsOK /\ CrashesOK
  BY SamePlan DEF TypeOK, AtWork, State
<1>1. CASE UNCHANGED vars
  BY <1>1 DEF TypeOK, vars, AtWork, State
<1>12. ASSUME NEW t \in Task, Insert(t)
       PROVE  AtOK /\ AttemptOK /\ InputOK /\ RowsOK /\ CrashesOK
  BY <1>12 DEF Insert, TypeOK, AtWork, State, Queued, Running, Dead, Terminal
<1>13. ASSUME NEW t \in Task, RefuseTool(t)
       PROVE  AtOK /\ AttemptOK /\ InputOK /\ RowsOK /\ CrashesOK
  BY <1>13 DEF RefuseTool, Handed, Behind, TypeOK, AtWork, State, Dead, Terminal
<1>14. ASSUME NEW t \in Task, Cascade(t)
       PROVE  AtOK /\ AttemptOK /\ InputOK /\ RowsOK /\ CrashesOK
  <2>1. AtOK
    BY <1>14, CascadeTypes DEF Cascade, Behind, TypeOK
  <2>2. UNCHANGED <<attempt, input, rows, crashes>>
    BY <1>14 DEF Cascade
  <2>3. \A u \in Task : AtWork(u)' => AtWork(u)
    BY <1>14, CascadeTypes
  <2>4. InputOK
    BY <2>2, <2>3 DEF TypeOK, AtWork
  <2>. QED  BY <2>1, <2>2, <2>4 DEF TypeOK
<1>15. ASSUME NEW t \in Task, LoseCascade(t)
       PROVE  AtOK /\ AttemptOK /\ InputOK /\ RowsOK /\ CrashesOK
  BY <1>0, <1>15 DEF LoseCascade, Behind, TypeOK, AtWork, State
<1>2. ASSUME NEW t \in Task, Dispatch(t)
      PROVE  AtOK /\ AttemptOK /\ InputOK /\ RowsOK /\ CrashesOK
  BY <1>2 DEF Dispatch, TypeOK, AtWork, State, Queued, Dead
<1>3. ASSUME NEW t \in Task, Raise(t)
      PROVE  AtOK /\ AttemptOK /\ InputOK /\ RowsOK /\ CrashesOK
  <2>1. AttemptOnceHanded(t) \in 1..MaxAttempts
    BY <1>0 DEF AttemptOnceHanded, TypeOK
  <2>. QED  BY <1>3, <2>1
            DEF Raise, Again, Handed, TypeOK, AtWork, State, Running, Dead
<1>4. ASSUME NEW t \in Task, Refuse(t)
      PROVE  AtOK /\ AttemptOK /\ InputOK /\ RowsOK /\ CrashesOK
  BY <1>4 DEF Refuse, TypeOK, AtWork, State, Dead, Terminal
<1>5. ASSUME NEW t \in Task, Launch(t)
      PROVE  AtOK /\ AttemptOK /\ InputOK /\ RowsOK /\ CrashesOK
  <2>1. AttemptOnceHanded(t) \in 1..MaxAttempts
    BY <1>0 DEF AttemptOnceHanded, TypeOK
  <2>2. DOMAIN Values(t) = ToolOf(t).consumes
    BY <1>0
  <2>3. AtOK /\ AttemptOK /\ RowsOK /\ CrashesOK
    BY <1>5, <2>1 DEF Launch, Again, Handed, TypeOK, State, Running, Dead
  <2>4. InputOK
    BY <1>5, <2>2 DEF Launch, TypeOK, AtWork
  <2>. QED  BY <2>3, <2>4
<1>6. ASSUME NEW t \in Task, Report(t)
      PROVE  AtOK /\ AttemptOK /\ InputOK /\ RowsOK /\ CrashesOK
  <2>1. PICK target, out : Record(t, Parse(StepOf(t).tool, target, out))
    BY <1>6 DEF Report
  <2>2. RowsOK
    <3>1. StepOf(t).tool \in ToolName
      BY TaskStep DEF TypeOK
    <3>2. \A f \in Parse(StepOf(t).tool, target, out) : f.type \in ToolOf(t).produces
      BY <3>1, ParseProduces DEF ToolOf
    <3>3. \A r \in rows' : \/ r \in rows
                           \/ r.task = t /\ r.type \in ToolOf(t).produces
      BY <2>1, <3>2 DEF Record
    <3>. QED  BY <3>3 DEF TypeOK
  <2>3. AtOK /\ AttemptOK /\ InputOK /\ CrashesOK
    BY <1>6 DEF Report, TypeOK, AtWork, State, Running, Dead
  <2>. QED  BY <2>2, <2>3
<1>7. ASSUME NEW t \in Task, LoseBatch(t)
      PROVE  AtOK /\ AttemptOK /\ InputOK /\ RowsOK /\ CrashesOK
  BY <1>7 DEF LoseBatch, TypeOK, AtWork, State, Running, Dead
<1>8. ASSUME NEW t \in Task, Finish(t)
      PROVE  AtOK /\ AttemptOK /\ InputOK /\ RowsOK /\ CrashesOK
  BY <1>8 DEF Finish, TypeOK, AtWork, State, Terminal, Dead
<1>9. ASSUME NEW t \in Task, Retry(t)
      PROVE  AtOK /\ AttemptOK /\ InputOK /\ RowsOK /\ CrashesOK
  BY <1>0, <1>9 DEF Retry, TypeOK, AtWork, State, Queued, Dead
<1>10. ASSUME NEW t \in Task, Exhaust(t)
      PROVE  AtOK /\ AttemptOK /\ InputOK /\ RowsOK /\ CrashesOK
  BY <1>10 DEF Exhaust, TypeOK, AtWork, State, Dead, Terminal
<1>11. ASSUME NEW t \in Task, Crash(t)
      PROVE  AtOK /\ AttemptOK /\ InputOK /\ RowsOK /\ CrashesOK
  BY <1>0, <1>11 DEF Crash, TypeOK, AtWork, State, Running, Dead
<1>. QED
  BY <1>1, <1>2, <1>3, <1>4, <1>5, <1>6, <1>7, <1>8, <1>9, <1>10, <1>11,
     <1>12, <1>13, <1>14, <1>15
  DEF Next, Handle

(* The types are right: each finding is of a type its tool declares, and   *)
(* every started tool was given the types it consumes.                     *)
THEOREM RoutingTypeCorrect == Spec => []TypeOK
<1>1. Init => TypeOK
  <2>1. MaxAttempts \in Nat \ {0} /\ MaxCrashes \in Nat
    BY RoutingAssumption
  <2>. QED  BY <2>1 DEF Init, TypeOK
<1>2. TypeOK /\ [Next]_vars => TypeOK'
  BY TypeStep
<1>. QED  BY <1>1, <1>2, PTL DEF Spec

-----------------------------------------------------------------------------
(* The gate and the dependencies of a task that was let go stay behind it: *)
(* a success is final and no row goes away.                                *)
LEMMA GatedStep ==
    ASSUME TypeOK, Gated, [Next]_vars
    PROVE  Gated'
<1>1. CASE UNCHANGED vars
  BY <1>1, SamePlan
  DEF Gated, LetGo, Clear, DependenciesDone, GateOpen, Types, vars
<1>2. CASE Next
  <2>. SUFFICES ASSUME NEW t \in Task, LetGo(t)'
                PROVE  Clear(t)'
    BY SamePlan DEF Gated
  <2>1. Clear(t)
    BY <1>2, Moves DEF Gated, Moved
  <2>2. DependsOn(t) \subseteq Task
    BY TaskStep DEF TypeOK
  <2>3. DependenciesDone(t)'
    BY <1>2, <2>1, <2>2, Moves, SamePlan DEF Clear, DependenciesDone, Moved
  <2>4. Types \subseteq Types'
    BY <1>2, Moves DEF Kept, Types
  <2>5. (StepOf(t).depends_on # {} => GateOpen(t))'
    BY <2>1, <2>4, SamePlan DEF Clear, GateOpen
  <2>. QED  BY <2>3, <2>5 DEF Clear
<1>. QED  BY <1>1, <1>2

(* Values(t) are the values of the rows of the types that are consumed.    *)
LEMMA ValuesAre ==
    ASSUME NEW t, NEW ty \in ToolOf(t).consumes
    PROVE  Values(t)[ty] = {r.value : r \in {x \in rows : x.type = ty}}
BY DEF Values

LEMMA FeedStep ==
    ASSUME TypeOK, Gated, DependenciesFeed, [Next]_vars
    PROVE  DependenciesFeed'
<1>1. CASE UNCHANGED vars
  BY <1>1, SamePlan DEF DependenciesFeed, AtWork, vars
<1>2. CASE Next
  <2>. SUFFICES ASSUME NEW t \in Task, AtWork(t)', NEW r \in rows',
                       r.task \in DependsOn(t), r.type \in ToolOf(t).consumes
                PROVE  r.value \in input'[t][r.type]
    BY SamePlan DEF DependenciesFeed
  <2>1. CASE AtWork(t) /\ input'[t] = input[t]
    <3>1. at[r.task] = "succeeded"
      BY <2>1 DEF Gated, LetGo, AtWork, Clear, DependenciesDone
    <3>2. r \in rows
      BY <1>2, <3>1, Moves DEF Kept
    <3>. QED  BY <2>1, <3>2 DEF DependenciesFeed
  <2>2. CASE input'[t] = Values(t) /\ rows' = rows
    BY <2>2, ValuesAre
  <2>. QED  BY <1>2, <2>1, <2>2, Moves DEF Moved
<1>. QED  BY <1>1, <1>2

FeedInv == TypeOK /\ Gated /\ DependenciesFeed

LEMMA FeedInvariant == Spec => []FeedInv
<1>1. Init => FeedInv
  <2>1. Init => TypeOK
    BY RoutingAssumption DEF Init, TypeOK
  <2>. QED  BY <2>1 DEF FeedInv, Gated, LetGo, DependenciesFeed, AtWork, Init
<1>2. FeedInv /\ [Next]_vars => FeedInv'
  BY TypeStep, GatedStep, FeedStep DEF FeedInv
<1>. QED  BY <1>1, <1>2, PTL DEF Spec

(* A tool is started with everything the steps before it have found.       *)
THEOREM EverythingIsFed == Spec => []DependenciesFeed
BY FeedInvariant, PTL DEF FeedInv

(* A step that waits for a type its tool reads never finds an empty input: *)
(* the row that opened its gate is one of its input's, and rows stay.      *)
THEOREM NoGatedStepStarves == Spec => []GatedIsFed
<1>1. FeedInv => GatedIsFed
  <2>. SUFFICES ASSUME FeedInv, NEW t \in Task, StepOf(t).depends_on # {},
                       StepOf(t).when \cap ToolOf(t).consumes # {}, LetGo(t)
                PROVE  ~NoValues(t)
    BY DEF GatedIsFed, LetGo, Starved
  <2>1. PICK ty \in StepOf(t).when : ty \in ToolOf(t).consumes
    OBVIOUS
  <2>2. ty \in Types
    BY DEF FeedInv, Gated, Clear, GateOpen
  <2>3. PICK r \in rows : r.type = ty
    BY <2>2 DEF Types
  <2>4. r.value \in Values(t)[ty]
    BY <2>1, <2>3, ValuesAre
  <2>. QED  BY <2>1, <2>4 DEF NoValues
<1>. QED  BY <1>1, FeedInvariant, PTL

-----------------------------------------------------------------------------
(* A row means what its type says.                                         *)
RowsMean == \A r \in rows : r.type \in DOMAIN Meaning => r.value \in Meaning[r.type]

MeaningInv == TypeOK /\ RowsMean /\ RoutingRules

LEMMA RowsMeanStep ==
    ASSUME MeaningInv, [Next]_vars
    PROVE  RowsMean'
<1>1. CASE rows' = rows
  BY <1>1, SamePlan DEF MeaningInv, RowsMean
<1>2. ASSUME NEW t \in Task, Report(t)
      PROVE  RowsMean'
  <2>. DEFINE name == StepOf(t).tool
  <2>1. PICK target \in t[2], out \in SUBSET Prints(name, input[t]) :
            Record(t, Parse(name, target, out))
    BY <1>2 DEF Report
  <2>2. /\ t[1] \in Steps /\ name \in ToolName
        /\ request.steps[t[1]].tool = name
    BY TaskStep DEF MeaningInv, TypeOK, StepOf
  <2>3. \A ty \in DOMAIN Meaning \cap Tool(name).consumes :
            input[t][ty] \subseteq Meaning[ty]
    BY <1>2 DEF MeaningInv, RoutingRules, AtWork, Report, ToolOf
  <2>4. ASSUME NEW f \in Parse(name, target, out), f.type \in DOMAIN Meaning
        PROVE  f.value \in Meaning[f.type]
    BY <2>1, <2>2, <2>3, <2>4, ParseMeans
  <2>5. \A r \in rows' : \/ r \in rows
                         \/ \E f \in Parse(name, target, out) :
                               r.type = f.type /\ r.value = f.value
    BY <2>1 DEF Record
  <2>. QED  BY <2>4, <2>5, SamePlan DEF MeaningInv, RowsMean
<1>3. CASE UNCHANGED vars
  BY <1>1, <1>3 DEF vars
<1>. QED
  BY <1>1, <1>2, <1>3
  DEF Next, Handle, Insert, Dispatch, RefuseTool, Raise, Refuse, Cascade,
      LoseCascade, Launch, LoseBatch, Finish, Retry, Exhaust, Crash

LEMMA RulesStep ==
    ASSUME MeaningInv, [Next]_vars
    PROVE  RoutingRules'
<1>1. CASE UNCHANGED vars
  BY <1>1, SamePlan DEF MeaningInv, RoutingRules, AtWork, vars
<1>2. CASE Next
  <2>. SUFFICES ASSUME NEW t \in Task, AtWork(t)',
                       NEW ty \in DOMAIN Meaning \cap ToolOf(t).consumes
                PROVE  input'[t][ty] \subseteq Meaning[ty]
    BY SamePlan DEF RoutingRules
  <2>1. CASE AtWork(t) /\ input'[t] = input[t]
    BY <2>1 DEF MeaningInv, RoutingRules
  <2>2. CASE input'[t] = Values(t) /\ rows' = rows
    BY <2>2, ValuesAre DEF MeaningInv, RowsMean
  <2>. QED  BY <1>2, <2>1, <2>2, Moves DEF MeaningInv, Moved
<1>. QED  BY <1>1, <1>2

(* R1 to R6: whatever the tools report, an expensive one is only started   *)
(* on values that the signal it consumes is true of.                       *)
THEOREM SignalsKeepTheirMeaning == Spec => []RoutingRules
<1>1. Init => MeaningInv
  <2>1. Init => TypeOK
    BY RoutingAssumption DEF Init, TypeOK
  <2>. QED  BY <2>1 DEF MeaningInv, RowsMean, RoutingRules, AtWork, Init
<1>2. MeaningInv /\ [Next]_vars => MeaningInv'
  BY TypeStep, RowsMeanStep, RulesStep DEF MeaningInv
<1>3. MeaningInv => RoutingRules
  BY DEF MeaningInv
<1>. QED  BY <1>1, <1>2, <1>3, PTL DEF Spec
=============================================================================
