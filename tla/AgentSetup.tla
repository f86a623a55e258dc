----------------------------- MODULE AgentSetup -----------------------------
(***************************************************************************)
(* rowshape init --agent (cmd/init_agent*.go, cmd/atomicwrite.go,          *)
(* internal/agentrule): a run reads each of the files that wire a          *)
(* repository for an agent, decides, and writes, the user's own file by a  *)
(* temporary one and a rename, the others in place.  Runs follow each      *)
(* other, of one version or another; a run may be killed between any two   *)
(* steps and any read or write may fail.                                   *)
(*                                                                         *)
(* A version stands for all that a run makes of itself: the rule's and the *)
(* hook's version and the migration runner it has detected.                *)
(***************************************************************************)
EXTENDS Integers, Sequences, Functions

CONSTANTS
  Repos,     \* repositories: what each file holds, which markers there are, what .git is
  Versions,
  Theirs,    \* the servers and the hooks of others
  MaxRuns

VARIABLES
  origin,    \* the repository as the user left it
  fs,        \* the file system: what each file holds now
  run,       \* which run this is; 0 before the first
  version, force, env,   \* the run's version, --force, CLAUDECODE
  pc,        \* "idle", "scaffold", "clients", "rules", "hook"
  todo,      \* the files the phase has still to see to
  io,        \* the write under way: "none", "temp", "rename", "truncate", "fill"
  new,       \* what it writes
  failed,
  exit,      \* the exit code of the last run; "killed"; "none"
  faults     \* the files a write to which was cut off

args == <<version, force, env>>
vars == <<origin, fs, run, args, pc, todo, io, new, failed, exit, faults>>

Toml      == "rowshape.toml"
Framework == ".pre-commit-config.yaml"
Native    == ".git/hooks/pre-commit"

McpFiles  == {".mcp.json", ".cursor/mcp.json", ".vscode/mcp.json"}
RuleFiles == {"AGENTS.md", "CLAUDE.md", "rowshape.mdc"}
Files     == {Toml, Framework, Native} \union McpFiles \union RuleFiles

Absent    == [is |-> "absent"]
There(f)  == fs[f] # Absent

\* What a file may hold: a config that parses or not ("broken", or "shape" when its servers
\* are no object), text with marks, a hook of ours or another's, or what a write left of it.
Marks == [kind : {"begin", "rule", "end", "prose", "seed"}, v : Nat]

Scaffolds  == {[is |-> "users"], [is |-> "torn"]} \union [is : {"scaffold"}, v : Versions]
Configs    == {[is |-> "broken"], [is |-> "shape"]}
                \union [is : {"json"}, others : SUBSET Theirs, ours : {"none", "stale", "current"}]
Texts      == [is : {"text"}, text : Seq(Marks)]
Entries    == [hooks : SUBSET (Theirs \union {"rowshape"}), v : Nat]
Frameworks == {[is |-> "broken"]} \union [is : {"yaml"}, repos : Seq(Entries)]
Hooks      == [is : {"foreign"}, marked : {FALSE}, v : Nat, runs : BOOLEAN]
                \union [is : {"hook"}, marked : {TRUE}, v : Nat, runs : BOOLEAN]
                \union [is : {"torn"}, marked : BOOLEAN, runs : BOOLEAN]

Content(f) ==
  CASE f = Toml       -> Scaffolds
    [] f \in McpFiles  -> Configs
    [] f \in RuleFiles -> Texts
    [] f = Framework  -> Frameworks
    [] f = Native     -> Hooks

ASSUME VersionsAssumption == Versions \subseteq Nat /\ MaxRuns \in Nat

ASSUME ReposAssumption ==
  \A r \in Repos : DOMAIN r.files = Files /\ \A f \in Files : r.files[f] \in Content(f) \union {Absent}
-----------------------------------------------------------------------------
(* agentrule/version.go: a text is a sequence of marks and of pieces of prose *)

Mark(kind, v) == [kind |-> kind, v |-> v]
Block(v)      == <<Mark("begin", v), Mark("rule", v), Mark("end", 0)>>

\* FindBlock: from the first begin mark that an end mark follows to the first such end.
Begins(text) == {b \in DOMAIN text : text[b].kind = "begin" /\ \E e \in DOMAIN text : e > b /\ text[e].kind = "end"}
First(S)     == CHOOSE x \in S : \A y \in S : x <= y
Found(text)  == Begins(text) # {}
Start(text)  == First(Begins(text))
End(text)    == First({e \in DOMAIN text : e > Start(text) /\ text[e].kind = "end"})

\* Mutant of Upsert: the new block comes after the old one.
UpsertBeside(text, v) ==
  IF Found(text) /\ SubSeq(text, Start(text), End(text)) = Block(v) THEN text ELSE text \o Block(v)

\* Upsert
Upsert(text, v) ==
  IF Found(text)
  THEN SubSeq(text, 1, Start(text) - 1) \o Block(v) \o SubSeq(text, End(text) + 1, Len(text))
  ELSE text \o Block(v)
-----------------------------------------------------------------------------
(* What a run makes of each file: leave it, refuse it, or write it *)

Leave     == [do |-> "leave"]
Refuse    == [do |-> "refuse"]
Write(c)  == [do |-> "write", to |-> c]

\* runInit
Scaffolded == IF There(Toml) /\ ~force THEN Leave ELSE Write([is |-> "scaffold", v |-> version])

\* writeMCPConfig: what does not parse, and servers that are no object, are refused.
Registered(f) ==
  IF fs[f].is \in {"broken", "shape"} THEN Refuse
  ELSE IF There(f) /\ fs[f].ours = "current" THEN Leave
  ELSE Write([is |-> "json", others |-> IF There(f) THEN fs[f].others ELSE {}, ours |-> "current"])

\* writeRule: a Cursor rule that is new starts with its front matter.
Ruled(f) ==
  LET text == IF There(f) THEN fs[f].text
              ELSE IF f = "rowshape.mdc" THEN <<Mark("seed", 0)>> ELSE <<>>
      out  == Upsert(text, version)
  IN  IF Found(text) /\ out = text THEN Leave ELSE Write([is |-> "text", text |-> out])

\* findHookRepo: the first entry with our hook in it.
HookRepos(repos) == {n \in DOMAIN repos : "rowshape" \in repos[n].hooks}
OurEntry         == [hooks |-> {"rowshape"}, v |-> version]

\* writeFrameworkHook: the entry that holds our hook is replaced, another appended.
Framed ==
  IF fs[Framework].is = "broken" THEN Refuse
  ELSE LET repos == fs[Framework].repos IN
    IF HookRepos(repos) = {} THEN Write([is |-> "yaml", repos |-> Append(repos, OurEntry)])
    ELSE LET n == First(HookRepos(repos)) IN
      IF repos[n] = OurEntry THEN Leave
      ELSE Write([is |-> "yaml", repos |-> [repos EXCEPT ![n] = OurEntry]])

\* writeNativeHook: what does not carry our mark is refused.  The mode of a file that is
\* there stays as it is.
Hooked ==
  IF origin.git = "file" THEN Refuse
  ELSE IF There(Native) /\ ~fs[Native].marked THEN Refuse
  ELSE LET runs == IF There(Native) THEN fs[Native].runs ELSE TRUE
           want == [is |-> "hook", marked |-> TRUE, v |-> version, runs |-> runs]
       IN  IF fs[Native] = want THEN Leave ELSE Write(want)

\* detectMCPClients, detectRuleTargets, detectHookMode
ClientPresent(f) ==
  CASE f = ".mcp.json"        -> There(f) \/ There("CLAUDE.md") \/ ".claude" \in origin.markers \/ env
    [] f = ".cursor/mcp.json" -> ".cursor" \in origin.markers
    [] f = ".vscode/mcp.json" -> ".vscode" \in origin.markers
Client(f) == IF ClientPresent(f) THEN <<f>> ELSE <<>>
Clients ==
  LET found == Client(".mcp.json") \o Client(".cursor/mcp.json") \o Client(".vscode/mcp.json") IN
    IF found = <<>> THEN <<".mcp.json">> ELSE found

TargetPresent(f) == IF f = "rowshape.mdc" THEN ".cursor" \in origin.markers ELSE There(f)
Target(f) == IF TargetPresent(f) THEN <<f>> ELSE <<>>
Targets ==
  LET found == Target("AGENTS.md") \o Target("CLAUDE.md") \o Target("rowshape.mdc") IN
    IF found = <<>> THEN <<"AGENTS.md">> ELSE found

HookFiles ==
  IF There(Framework) THEN <<Framework>> ELSE IF origin.git = "none" THEN <<>> ELSE <<Native>>

Decision(f) ==
  CASE f = Toml               -> Scaffolded
    [] f \in McpFiles  -> Registered(f)
    [] f \in RuleFiles -> Ruled(f)
    [] f = Framework          -> Framed
    [] f = Native             -> Hooked

\* Mutant of Atomic: writeRule with os.WriteFile.
AtomicConfigs(f) == f \in McpFiles

\* The files that are written by writeFileAtomic.
Atomic(f) == f \in McpFiles \union RuleFiles

\* What a write in place that was cut off may leave: nothing at first, then any beginning.
Emptied(f, c) ==
  CASE f = Toml             -> [is |-> "torn"]
    [] f = Framework        -> [is |-> "broken"]
    [] f = Native           -> [is |-> "torn", marked |-> FALSE, runs |-> c.runs]
    [] f \in McpFiles  -> [is |-> "broken"]
    [] f \in RuleFiles -> [is |-> "text", text |-> <<>>]
Torn(f, c) ==
  {Emptied(f, c)}
    \union (IF f = Framework THEN {[c EXCEPT !.repos = SubSeq(c.repos, 1, n)] : n \in 1 .. Len(c.repos) - 1} ELSE {})
    \union (IF f = Native THEN {[is |-> "torn", marked |-> TRUE, runs |-> c.runs]} ELSE {})
-----------------------------------------------------------------------------
Init ==
  /\ origin \in Repos
  /\ fs = origin.files
  /\ run = 0 /\ version \in Versions /\ force = FALSE /\ env = FALSE
  /\ pc = "idle" /\ todo = <<>> /\ io = "none" /\ new = Absent
  /\ failed = FALSE /\ exit = "none" /\ faults = {}

\* A run starts: runInitAgent, whose first step is runInit.
Begin ==
  /\ pc = "idle" /\ run < MaxRuns
  /\ run' = run + 1
  /\ version' \in Versions /\ force' \in BOOLEAN /\ env' \in BOOLEAN
  /\ pc' = "scaffold" /\ todo' = <<Toml>>
  /\ failed' = FALSE /\ exit' = "none"
  /\ UNCHANGED <<origin, fs, io, new, faults>>

Ready == pc # "idle" /\ io = "none"

\* The next phase, once the files of this one are done.
Advance ==
  /\ Ready /\ todo = <<>>
  /\ \/ pc = "scaffold" /\ pc' = "clients" /\ todo' = Clients /\ UNCHANGED exit
     \/ pc = "clients" /\ pc' = "rules" /\ todo' = Targets /\ UNCHANGED exit
     \/ pc = "rules" /\ pc' = "hook" /\ todo' = HookFiles /\ UNCHANGED exit
     \/ pc = "hook" /\ pc' = "idle" /\ UNCHANGED todo /\ exit' = IF failed THEN "3" ELSE "0"
  /\ UNCHANGED <<origin, fs, run, args, io, new, failed, faults>>

\* Mutant of Fail: without a scaffold the command just returns.
FailSilently ==
  /\ io' = "none" /\ new' = Absent /\ failed' = TRUE
  /\ IF pc = "scaffold" THEN pc' = "idle" /\ todo' = <<>> /\ UNCHANGED exit
     ELSE UNCHANGED pc /\ todo' = Tail(todo) /\ UNCHANGED exit

\* An error is told and the others follow, but without a scaffold nothing does.
Fail ==
  /\ io' = "none" /\ new' = Absent /\ failed' = TRUE
  /\ IF pc = "scaffold" THEN pc' = "idle" /\ todo' = <<>> /\ exit' = "3"
     ELSE UNCHANGED pc /\ todo' = Tail(todo) /\ UNCHANGED exit

\* A file is read and decided about.
Read ==
  /\ Ready /\ todo # <<>>
  /\ LET d == Decision(Head(todo)) IN
       \/ d.do = "leave" /\ todo' = Tail(todo) /\ UNCHANGED <<pc, io, new, failed, exit>>
       \/ d.do = "refuse" /\ Fail
       \/ /\ d.do = "write" /\ new' = d.to
          /\ io' = IF Atomic(Head(todo)) THEN "temp" ELSE "truncate"
          /\ UNCHANGED <<pc, todo, failed, exit>>
  /\ UNCHANGED <<origin, fs, run, args, faults>>

\* A file that is there cannot be read, or a directory not be made.
ReadFails ==
  /\ Ready /\ todo # <<>>
  /\ pc = "scaffold" => ~There(Toml) \/ force
  /\ Fail
  /\ UNCHANGED <<origin, fs, run, args, faults>>

\* writeFileAtomic: the temporary file is complete and synced before it is renamed.
WriteTemp ==
  /\ io = "temp" /\ io' = "rename"
  /\ UNCHANGED <<origin, fs, run, args, pc, todo, new, failed, exit, faults>>

Written ==
  /\ fs' = [fs EXCEPT ![Head(todo)] = new]
  /\ io' = "none" /\ new' = Absent /\ todo' = Tail(todo)
  /\ UNCHANGED <<origin, run, args, pc, failed, exit, faults>>

Rename == io = "rename" /\ Written

\* os.WriteFile
Truncate ==
  /\ io = "truncate" /\ io' = "fill"
  /\ fs' = [fs EXCEPT ![Head(todo)] = Emptied(Head(todo), new)]
  /\ UNCHANGED <<origin, run, args, pc, todo, new, failed, exit, faults>>

Fill == io = "fill" /\ Written

\* The disk is full, or does not take the write.
WriteFails ==
  /\ io # "none" /\ Fail
  /\ IF io = "fill"
     THEN /\ \E c \in Torn(Head(todo), new) : fs' = [fs EXCEPT ![Head(todo)] = c]
          /\ faults' = faults \union {Head(todo)}
     ELSE UNCHANGED <<fs, faults>>
  /\ UNCHANGED <<origin, run, args>>

\* The process is killed.
Crash ==
  /\ pc # "idle"
  /\ IF io = "fill"
     THEN /\ \E c \in Torn(Head(todo), new) : fs' = [fs EXCEPT ![Head(todo)] = c]
          /\ faults' = faults \union {Head(todo)}
     ELSE UNCHANGED <<fs, faults>>
  /\ pc' = "idle" /\ todo' = <<>> /\ io' = "none" /\ new' = Absent /\ exit' = "killed"
  /\ UNCHANGED <<origin, run, args, failed>>

Ended == pc = "idle" /\ run = MaxRuns /\ UNCHANGED vars

Next ==
  \/ Begin \/ Advance \/ Read \/ ReadFails \/ WriteTemp \/ Rename \/ Truncate \/ Fill
  \/ WriteFails \/ Crash \/ Ended

Spec == Init /\ [][Next]_vars
-----------------------------------------------------------------------------
\* The type of the state: a write under way has something to write, and a run that is over
\* has an exit code.
TypeOK ==
  /\ origin \in Repos
  /\ DOMAIN fs = Files /\ \A f \in Files : fs[f] \in Content(f) \union {Absent}
  /\ run \in 0 .. MaxRuns
  /\ version \in Versions /\ force \in BOOLEAN /\ env \in BOOLEAN
  /\ pc \in {"idle", "scaffold", "clients", "rules", "hook"}
  /\ todo \in Seq(Files)
  /\ io \in {"none", "temp", "rename", "truncate", "fill"}
  /\ io # "none" => todo # <<>> /\ new \in Content(Head(todo))
  /\ failed \in BOOLEAN
  /\ exit \in {"none", "0", "3", "killed"}
  /\ (pc = "idle") <=> (run = 0 \/ exit # "none")
  /\ faults \subseteq {Toml, Framework, Native}

\* Marks as rowshape writes them: each begin mark has its end mark, with none of the user's
\* prose between them.
WellMarked(text) ==
  \A b \in DOMAIN text : text[b].kind = "begin" =>
    \E e \in DOMAIN text :
      e > b /\ text[e].kind = "end" /\ \A n \in b + 1 .. e - 1 : text[n].kind = "rule"

\* The same pieces of prose, in the same order.
Prose(text) == {n \in DOMAIN text : text[n].kind = "prose"}
SameProse(before, now) ==
  \E at \in [Prose(before) -> Prose(now)] :
    /\ \A n \in Prose(now) : \E m \in Prose(before) : at[m] = n
    /\ \A m, n \in Prose(before) : m < n => at[m] < at[n]
    /\ \A m \in Prose(before) : now[at[m]] = before[m]

\* The hooks of others, each at its entry.
Foreign(repos) ==
  {<<n, repos[n].hooks \ {"rowshape"}>> : n \in {m \in DOMAIN repos : repos[m].hooks \ {"rowshape"} # {}}}

\* The hooks of the user are in entries without ours.
Apart(repos) == \A n \in DOMAIN repos : "rowshape" \in repos[n].hooks => repos[n].hooks = {"rowshape"}

\* At every moment, whatever was cut off or killed and however often it is run, what the
\* user has in a file is there: the other servers, a config that does not parse, the prose
\* around a rule, a hook of another's, the other hooks of a framework (init_agent_mcp.go:
\* "leaves every other server ... exactly as it found them", version.go: "everything outside
\* the managed block is returned byte-for-byte").  Excepted are marks that the user has broken,
\* hooks beside ours in one entry, and a framework's config under a write in place.
UserContentSurvives ==
  /\ \A f \in McpFiles :
       /\ origin.files[f].is = "json" => fs[f].is = "json" /\ fs[f].others = origin.files[f].others
       /\ origin.files[f].is \in {"broken", "shape"} => fs[f] = origin.files[f]
  /\ \A f \in RuleFiles :
       origin.files[f].is = "text" /\ WellMarked(origin.files[f].text) =>
         SameProse(origin.files[f].text, fs[f].text)
  /\ origin.files[Native].is = "foreign" => fs[Native] = origin.files[Native]
  /\ (origin.files[Framework].is = "yaml" /\ Apart(origin.files[Framework].repos)
        /\ Framework \notin faults /\ ~(io = "fill" /\ Head(todo) = Framework)) =>
       Foreign(fs[Framework].repos) = Foreign(origin.files[Framework].repos)

\* A run that exits 0 leaves nothing for another of its version to do: every client and
\* target that is detected now has what this version writes, and the hook is where the
\* repository takes it (init_agent.go:21: "additive and idempotent, so init --agent is safe
\* to re-run").  A rule whose marks the user has broken is excepted.
Settled ==
  (pc = "idle" /\ exit = "0" /\ ~force) =>
    /\ Scaffolded = Leave
    /\ \A f \in Range(Clients) : Registered(f) = Leave
    /\ \A f \in Range(Targets) :
         (origin.files[f].is = "text" => WellMarked(origin.files[f].text)) => Ruled(f) = Leave
    /\ \A f \in Range(HookFiles) : Decision(f) = Leave

\* init_agent_hook.go: "only the bytes we actually change move": an upgrade takes none of the
\* user's hooks away.
OnlyOurBytesMove ==
  origin.files[Framework].is = "yaml" /\ faults = {} /\ io # "fill" =>
    Foreign(fs[Framework].repos) = Foreign(origin.files[Framework].repos)
=============================================================================
