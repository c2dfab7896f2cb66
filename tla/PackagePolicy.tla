--------------------------- MODULE PackagePolicy ---------------------------
(* What an APPLICATION challenge may be configured to do, and what its       *)
(* coding agent may change: domains/application/models.py, packages.py,      *)
(* edits.py, sandbox.py and the package loader.                              *)
EXTENDS Checks

CONSTANTS
  Paths,         \* canonical workspace-relative paths: they normalise to themselves
  PageFiles,     \* .html and .css files
  ScriptFiles,   \* .ts, .tsx, .js, .jsx and .css files
  SourceFiles,   \* files under src/ that are no tests
  Contents,      \* what a file may contain
  Size,          \* [Contents -> Nat]: bytes of the content
  None           \* no sandbox policy

ASSUME PathAssumption == (PageFiles \cup ScriptFiles \cup SourceFiles) \subseteq Paths
ASSUME SizeAssumption == Size \in [Contents -> Nat]

Unique(s) == s \in Seq(Range(s)) /\ s # <<>> /\ IsInjective(s)
IdsOf(s) == {s[i].id : i \in DOMAIN s}
ById(s, id) == CHOOSE x \in Range(s) : x.id = id

---------------------------------------------------------------------------
(* The constructors of models.py and sandbox.py *)

Timeouts == {"agent_timeout_seconds", "build_timeout_seconds", "browser_timeout_seconds"}
SizeBounds == [max_file_bytes |-> 64000, max_files |-> 8, max_log_chars |-> 4000]

ValidLimits(l) ==
  /\ \A t \in Timeouts : l[t] \in 1..180
  /\ \A b \in DOMAIN SizeBounds : l[b] \in 1..SizeBounds[b]

ValidViewport(v) == v.width \in 280..1920 /\ v.height \in 320..1200

ValidViewports(vs) ==
  /\ Len(vs) \in 1..6 /\ Cardinality(IdsOf(vs)) = Len(vs)
  /\ \A i \in DOMAIN vs : ValidViewport(vs[i])
  /\ Cardinality({i \in DOMAIN vs : vs[i].screenshot}) \in 1..4

ValidConfig(c) ==
  /\ Range(c.editable_files) \cup {c.page_source, c.build_output} \subseteq Paths
  /\ Unique(c.editable_files)
  /\ Range(c.editable_files) \subseteq (IF c.execution_mode = "static" THEN PageFiles ELSE ScriptFiles)
  /\ c.execution_mode \in {"static", "sandboxed_executable"}
  /\ ValidViewports(c.viewports) /\ ValidLimits(c.limits)
  /\ c.build_command # <<>>
  /\ Unique(c.visible_checks) /\ Unique(c.hidden_checks)

ValidSandbox(s) ==
  /\ s.memory_mb \in 256..1024 /\ s.pids \in 32..256 /\ s.timeout_seconds \in 10..120
  /\ s.workspace_mb \in 8..64 /\ s.max_output_bytes \in 1024..8000000

---------------------------------------------------------------------------
(* ApplicationPackage.validate, conjunct by conjunct *)

HasSandbox(package) == package.sandbox # None

OwnedByPackage(package, c) ==
  /\ c.execution_mode = package.defaults.execution_mode
  /\ c.starter_project = package.id
  /\ c.page_source = package.defaults.page_source
  /\ c.build_command = package.defaults.build_command
  /\ c.build_output = package.defaults.build_output

FilesWithinPackage(package, c) ==
  /\ Range(c.editable_files) \subseteq Range(package.defaults.editable_files)
  /\ Range(c.editable_files) \cap package.protected_paths = {}
  /\ HasSandbox(package) => Range(package.defaults.editable_files) \subseteq SourceFiles

LimitsWithinPackage(package, c) ==
  \A l \in DOMAIN c.limits : c.limits[l] <= package.defaults.limits[l]

\* The views are the package's; a private one may not become a screenshot.
ViewsOfPackage(package, c) ==
  /\ IdsOf(c.viewports) = IdsOf(package.defaults.viewports)
  /\ \A v \in Range(c.viewports) :
       LET expected == ById(package.defaults.viewports, v.id)
       IN  /\ v.width = expected.width /\ v.height = expected.height
           /\ v.screenshot => expected.screenshot

ChecksWithinPackage(package, c) ==
  /\ Range(c.visible_checks) \subseteq Range(package.defaults.visible_checks)
  /\ Range(c.hidden_checks) \subseteq Range(package.defaults.hidden_checks)
  /\ Cardinality(IdsOf(package.checks)) = Len(package.checks)
  /\ \A id \in Range(c.visible_checks) \cup Range(c.hidden_checks) :
       /\ id \in IdsOf(package.checks)
       /\ ValidCheck(ById(package.checks, id))
       /\ Range(ById(package.checks, id).parameters.viewports) \subseteq IdsOf(c.viewports)

Accepts(package, c) ==
  /\ HasSandbox(package) = (package.defaults.execution_mode = "sandboxed_executable")
  /\ OwnedByPackage(package, c) /\ FilesWithinPackage(package, c)
  /\ LimitsWithinPackage(package, c) /\ ViewsOfPackage(package, c)
  /\ ChecksWithinPackage(package, c)

SelectedChecks(package, ids) == [i \in DOMAIN ids |-> ById(package.checks, ids[i])]

---------------------------------------------------------------------------
(* StarterProjectRepository: the packages of the repository *)

ExecutableFiles == {"package.json", "package-lock.json", "tsconfig.json", "src/main.tsx", "index.html"}

\* load: the manifest is the package's own, accepts its own defaults, and the
\* starter has every file it speaks of.
Loads(package, name) ==
  /\ package.id = name /\ ValidConfig(package.defaults)
  /\ Accepts(package, package.defaults)
  /\ package.defaults.build_command =
       IF HasSandbox(package) THEN <<"sandbox", "build">> ELSE <<"node", "build.mjs">>
  /\ HasSandbox(package) =>
       /\ ValidSandbox(package.sandbox)
       /\ ExecutableFiles \subseteq DOMAIN package.starter
       /\ package.approved_dependencies
  /\ Range(package.defaults.editable_files) \cup {package.defaults.page_source}
       \cup package.protected_paths \subseteq DOMAIN package.starter

\* validate: what an attempt asks of the packages before anything else.
Usable(packages, c) ==
  /\ c.starter_project \in DOMAIN packages
  /\ Loads(packages[c.starter_project], c.starter_project)
  /\ Accepts(packages[c.starter_project], c)

\* _application_config: what an author chooses replaces the package's defaults.
Authored(package, choice) ==
  [package.defaults EXCEPT !.editable_files = choice.editable_files,
                           !.visible_checks = choice.visible_checks,
                           !.hidden_checks = choice.hidden_checks,
                           !.viewports = choice.viewports,
                           !.limits = choice.limits]

---------------------------------------------------------------------------
(* parse_agent_edits.  A reply is [object |-> whether it is an object with   *)
(* files alone, files |-> sequence of edits [path, content, shaped]].        *)

\* The reason the code finds first for the edit, "none" for an edit it keeps.
EditTrouble(files, i, originals, limits) ==
  LET e == files[i]
  IN CASE ~e.shaped -> "malformed"
       [] e.shaped /\ e.path \notin Paths -> "unsafe_path"
       [] e.shaped /\ e.path \in Paths \ DOMAIN originals -> "forbidden_file"
       [] e.shaped /\ e.path \in Paths \cap DOMAIN originals ->
            IF \E j \in 1..(i - 1) : files[j].path = e.path THEN "duplicate_file"
            ELSE IF Size[e.content] > limits.max_file_bytes THEN "file_too_large"
            ELSE "none"

\* "accepted", or the code of the AgentOutputError.
ParseEdits(reply, originals, limits) ==
  LET files == reply.files
      Trouble(i) == EditTrouble(files, i, originals, limits)
      troubled == {i \in DOMAIN files : Trouble(i) # "none"}
  IN CASE ~reply.object -> "malformed"
       [] reply.object /\ files = <<>> -> "no_changes"
       [] reply.object /\ Len(files) > limits.max_files -> "too_many_files"
       [] reply.object /\ Len(files) \in 1..limits.max_files ->
            IF troubled # {}
            THEN Trouble(CHOOSE i \in troubled : \A j \in troubled : i <= j)
            ELSE IF \A i \in DOMAIN files : originals[files[i].path] = files[i].content
                 THEN "no_changes" ELSE "accepted"
=============================================================================
