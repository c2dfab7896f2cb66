----------------------------- MODULE MCAttempt -----------------------------
(* An instance of Attempt for TLC: a TEXT challenge of two versions, the     *)
(* second with a grader its author broke, and of two drafts, one of them     *)
(* with hidden tests only and one with none; and a static and an executable  *)
(* APPLICATION challenge.                                                    *)
EXTENDS Attempt, TLC

CONSTANTS yes, Yes, list, one, two, broken_schema

SomeTexts == {yes, Yes, list}
SomeOutputs == {Yes, list}
Casefold == (yes :> yes) @@ (Yes :> yes) @@ (list :> list)
Parsed == (yes :> NotJson) @@ (Yes :> NotJson) @@ (list :> [array |-> <<two, one>>])
NoSchema == <<>>

Case(id, expected, grader) == [id |-> id, expected |-> expected, grader |-> grader]
Folding == Case("v1", yes, [type |-> "case_insensitive_exact_match"])
Label == Case("h1", yes, [type |-> "allowed_label", labels |-> {Yes}])
Array == Case("h2", [array |-> <<one, two>>], [type |-> "array_comparison", ordered |-> FALSE])
Broken == Case("h1", yes, [type |-> "json_schema", schema |-> broken_schema])

MCScoring ==
  [accuracy_weight |-> 4, efficiency_weight |-> 1,
   efficiency_thresholds |->
     [tiers |-> <<[max_tokens |-> 60, score |-> 100], [max_tokens |-> 100, score |-> 90]>>,
      score_above_max |-> 40],
   star_thresholds |-> [one_star |-> 50, two_stars |-> 90, three_stars |-> 100,
                        three_star_max_prompt_tokens |-> 60]]

Tokens3 == [short |-> 50, longer |-> 80, too_long |-> 130]

---------------------------------------------------------------------------

Limits == [agent_timeout_seconds |-> 90, build_timeout_seconds |-> 20,
           browser_timeout_seconds |-> 20, max_file_bytes |-> 10, max_files |-> 2,
           max_log_chars |-> 100]
Mobile == [id |-> "mobile", width |-> 390, height |-> 800, screenshot |-> FALSE]
Desktop == [id |-> "desktop", width |-> 1280, height |-> 800, screenshot |-> TRUE]

StaticConfig ==
  [starter_project |-> "page", page_source |-> "page.html",
   editable_files |-> <<"page.html", "style.css">>, build_command |-> <<"node", "build.mjs">>,
   build_output |-> "page.html", visible_checks |-> <<"builds", "stacked">>,
   hidden_checks |-> <<"stacked", "kept", "header">>, viewports |-> <<Mobile, Desktop>>,
   limits |-> Limits, execution_mode |-> "static"]

ExecutableConfig ==
  [starter_project |-> "form", page_source |-> "src/page.css",
   editable_files |-> <<"src/page.css">>, build_command |-> <<"sandbox", "build">>,
   build_output |-> "src/page.css", visible_checks |-> <<"builds">>,
   hidden_checks |-> <<"works", "kept">>, viewports |-> <<Desktop>>,
   limits |-> Limits, execution_mode |-> "sandboxed_executable"]

Parameters ==
  [viewports |-> <<>>, selectors |-> <<>>, count |-> 1, min_width_ratio |-> 0,
   max_width_ratio |-> 0, tolerance |-> 2, above_fold |-> FALSE, texts |-> <<>>,
   tags |-> <<>>, steps |-> <<>>]

Check(id, implementation, p) == [id |-> id, implementation |-> implementation, parameters |-> p]
Stacked(views) == Check("stacked", "vertical_stack",
  [Parameters EXCEPT !.viewports = views, !.selectors = <<".card">>, !.count = 2])
Works == Check("works", "interaction",
  [Parameters EXCEPT !.viewports = <<"desktop">>, !.steps = <<[action |-> "click"]>>])
Header == Check("header", "protected_markup_unchanged", [Parameters EXCEPT !.tags = <<"header">>])
Others == <<Check("builds", "build_succeeds", Parameters),
            Check("kept", "protected_files_unchanged", Parameters), Works, Header>>

PagePackage(views) ==
  [id |-> "page", defaults |-> StaticConfig, checks |-> <<Stacked(views)>> \o Others,
   protected_paths |-> {"build.mjs"}, sandbox |-> None, approved_dependencies |-> TRUE,
   starter |-> [f \in {"page.html", "style.css", "build.mjs"} |-> "start"]]

FormPackage ==
  [id |-> "form", defaults |-> ExecutableConfig, checks |-> Others, protected_paths |-> {},
   sandbox |-> [memory_mb |-> 768, pids |-> 128, timeout_seconds |-> 60, workspace_mb |-> 32,
                max_output_bytes |-> 4000000],
   approved_dependencies |-> TRUE,
   starter |-> [f \in ExecutableFiles \cup {"src/page.css"} |-> "start"]]

\* In the second release an edited manifest no longer measures any viewport, and
\* the executable package is no longer registered.
MCPackages == [good |-> [page |-> PagePackage(<<"mobile">>), form |-> FormPackage],
               edited |-> [page |-> PagePackage(<<>>)]]

\* The author of the static challenge reordered its views and lowered a limit.
Chosen == [editable_files |-> <<"page.html", "style.css">>, visible_checks |-> <<"stacked">>,
           hidden_checks |-> <<"stacked", "kept", "header">>, viewports |-> <<Desktop, Mobile>>,
           limits |-> [Limits EXCEPT !.agent_timeout_seconds = 60]]

MCPages == {"page.html", "style.css"}
MCScripts == {"src/page.css", "src/main.tsx"}
MCPaths == MCPages \cup MCScripts \cup {"build.mjs", "package.json"}

Sizes == [start |-> 5, fixed |-> 5, bad |-> 5]
MCContents == DOMAIN Sizes

\* Cards are side by side in the starter and stacked in the fixed page.
Box(x, y) == [x |-> x, y |-> y, width |-> 100, height |-> 50, visible |-> TRUE]
Card(x, y) == [box |-> Box(x, y)]
Layout(content) ==
  [viewport_width |-> 390, viewport_height |-> 800, scroll_width |-> 390,
   elements |-> [s \in {".card"} |-> IF content = "fixed" THEN <<Card(0, 0), Card(0, 60)>>
                                     ELSE <<Card(0, 0), Card(110, 0)>>]]
MCRender(tree) ==
  LET page == IF "page.html" \in DOMAIN tree THEN tree["page.html"] ELSE tree["src/page.css"]
  IN [builds |-> page # "bad",
      layouts |-> [v \in {"mobile", "desktop"} |-> Layout(page)],
      behavior |-> [works |-> page = "fixed"]]
MCLandmarks(content) == [header |-> <<"header">>]

Edit(path, content) == [path |-> path, content |-> content, shaped |-> TRUE]
Reply(files) == [object |-> TRUE, files |-> files]
MCReplies ==
  {Reply(<<Edit("page.html", "fixed"), Edit("style.css", "fixed")>>),
   Reply(<<Edit("page.html", "bad")>>),
   Reply(<<Edit("page.html", "fixed"), Edit("build.mjs", "fixed")>>),
   Reply(<<Edit("src/page.css", "fixed")>>), Reply(<<Edit("src/page.css", "bad")>>),
   [object |-> FALSE, files |-> <<>>]}

---------------------------------------------------------------------------

TextVersion(visible, hidden) ==
  [challenge_type |-> "text", prompt_token_limit |-> 120, visible |-> visible, hidden |-> hidden,
   scoring |-> MCScoring, config |-> None]
AppVersion(config) ==
  [challenge_type |-> "application", prompt_token_limit |-> 120, visible |-> <<>>, hidden |-> <<>>,
   scoring |-> MCScoring, config |-> config]
MCVersion == [t1 |-> TextVersion(<<Folding>>, <<Label, Array>>), t2 |-> TextVersion(<<Folding>>, <<Broken>>),
              t3 |-> TextVersion(<<>>, <<Label>>), t4 |-> TextVersion(<<>>, <<>>),
              a1 |-> AppVersion(Authored(PagePackage(<<"mobile">>), Chosen)), a2 |-> AppVersion(ExecutableConfig)]
MCVersionsOf == [rewrite |-> {"t1", "t2", "t3", "t4"}, landing |-> {"a1"}, signup |-> {"a2"}]

\* One call may be anything, with a prompt of the shortest kind or one that is too
\* long; the other is a Submit of the TEXT challenge with a longer prompt, so that
\* two submissions to one version are compared.
CONSTANTS any, rival
MCWants ==
  (any :> {request \in Requests : request.prompt # "longer"}) @@
  (rival :> {[use |-> "submit", challenge |-> "rewrite", prompt |-> "longer"]})
=============================================================================
