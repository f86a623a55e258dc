---------------------------- MODULE MCAgentSetup ----------------------------
(* Repositories before rowshape, ones that an earlier version has wired, and *)
(* ones whose files the user has broken or made by hand.                     *)
EXTENDS AgentSetup, TLC

Mcp(others, ours) == [is |-> "json", others |-> others, ours |-> ours]
Text(text)        == [is |-> "text", text |-> text]
Prose1 == Mark("prose", 1)
Prose2 == Mark("prose", 2)
Hook(is, marked, v, runs) == [is |-> is, marked |-> marked, v |-> v, runs |-> runs]
Entry(hooks, v) == [hooks |-> hooks, v |-> v]
Yaml(repos)     == [is |-> "yaml", repos |-> repos]

Nothing == [f \in Files |-> Absent]
Repo(files, markers, git) == [files |-> files @@ Nothing, markers |-> markers, git |-> git]

Servers ==
  {Repo(".mcp.json" :> c, {}, "none") :
     c \in {Mcp({"a"}, "none"), Mcp({"a", "b"}, "stale"), Mcp({}, "current"), [is |-> "broken"], [is |-> "shape"]}}
  \union {Repo(".vscode/mcp.json" :> Mcp({"a"}, "stale"), {".vscode", ".claude"}, "none")}

Rules ==
  {Repo(f :> Text(t), m, "none") :
     f \in {"CLAUDE.md", "rowshape.mdc"}, m \in {{".cursor"}, {}},
     t \in {<<>>, <<Prose1>>, <<Prose1>> \o Block(1) \o <<Prose2>>, Block(2) \o <<Prose1>> \o Block(1),
            <<Mark("begin", 1), Mark("rule", 1), Prose1>>, <<Mark("end", 0), Prose1>>}}

Installed ==
  {Repo(Toml :> [is |-> "users"] @@ Native :> h, {}, g) :
     g \in {"dir", "file"},
     h \in {Absent, Hook("hook", TRUE, 1, TRUE), Hook("hook", TRUE, 1, FALSE), Hook("foreign", FALSE, 0, TRUE)}}
  \union {Repo(Framework :> c, {}, "dir") :
     c \in {[is |-> "broken"], Yaml(<<Entry({"lint"}, 0)>>),
            Yaml(<<Entry({"lint"}, 0), Entry({"rowshape"}, 1), Entry({"style"}, 0)>>),
            Yaml(<<Entry({"lint"}, 0), Entry({"rowshape", "style"}, 1)>>)}}

MCRepos == Servers \union Rules \union Installed
=============================================================================
