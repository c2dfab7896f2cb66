------------------------------ MODULE Attempt ------------------------------
(***************************************************************************)
(* One Run, Submit or admin Test, from the challenge it was asked of to    *)
(* its answer: the TEXT executor asks the model once per test case and     *)
(* grades what it heard; the APPLICATION executor lets the coding agent    *)
(* edit a disposable copy of the package's starter, builds and measures it *)
(* and evaluates the selected checks.  A Submit is then scored and saved.  *)
(*                                                                         *)
(* A step is the code between two awaits: of the provider, the build and   *)
(* browser, or the database.  Who may attempt what, and how many APPLICA-  *)
(* TION attempts run at once, are AccessPolicy and ExecutionGuard; how a   *)
(* verdict is saved is Progression; the container is Sandbox.              *)
(***************************************************************************)
EXTENDS Grading, Scoring, PackagePolicy

CONSTANTS
  Calls, Wants,   \* Wants[c]: the requests one of which call c is
  Challenges,
  VersionsOf,     \* VersionsOf[ch]: the ids of the challenge's versions
  Version,        \* Version[v]: what version v says
  Prompts, Count, \* Count[p]: its tokens
  Outputs,        \* what the model may answer for a test case
  Replies,        \* what the coding agent may answer
  Render(_),      \* what the tree builds to: [builds, layouts, behavior]
  Landmarks(_),   \* the landmark blocks of a page
  Releases,       \* what may be deployed
  Packages,       \* Packages[r]: the packages of release r, by name
  StructuredOutputs   \* whether the provider enforces the shape of a reply

Uses == {"run", "submit", "test"}

\* What the constructors of a version and of its suites accept; a TEXT draft may
\* still lack either.
ValidVersion(v) ==
  /\ ValidScoring(v.scoring)
  /\ v.prompt_token_limit # Unlimited =>
       /\ v.prompt_token_limit \in Nat \ {0}
       /\ LET tiers == v.scoring.efficiency_thresholds.tiers
          IN  tiers[Len(tiers)].max_tokens <= v.prompt_token_limit
  /\ v.challenge_type \in {"text", "application"}
  /\ v.challenge_type = "text" =>
       \A suite \in {v.visible, v.hidden} : suite = <<>> \/ ValidSuite(suite)
  /\ v.challenge_type = "application" => ValidConfig(v.config)

\* What is published has both.
Publishable(v) == v.challenge_type = "text" => v.visible # <<>> /\ v.hidden # <<>>

ASSUME VersionsAssumption ==
  /\ DOMAIN VersionsOf = Challenges
  /\ \A ch \in Challenges :
       VersionsOf[ch] # {} /\ \A v \in VersionsOf[ch] : ValidVersion(Version[v])
Requests == [use : Uses, challenge : Challenges, prompt : Prompts]
ASSUME WantsAssumption == Wants \in [Calls -> SUBSET Requests]
ASSUME PromptsAssumption == Count \in [Prompts -> Nat] /\ Outputs \subseteq Texts
ASSUME RepliesAssumption == \A reply \in Replies : reply.files \in Seq(Range(reply.files))
ASSUME ViewportsAssumption ==
  \A r \in Releases : \A name \in DOMAIN Packages[r] :
    \A check \in Range(Packages[r][name].checks) :
      check.parameters.viewports \in Seq(Range(check.parameters.viewports))

VARIABLES
  pc,        \* pc[c]: where call c is
  job,       \* job[c]: its use, its prompt and the version it read
  heard,     \* heard[c]: what the provider has answered to it
  workspace, \* workspace[c]: the tree on disk, or None
  result,    \* result[c]: the evaluation it has asked to be saved, in a set
  answer,    \* answer[c]: what the client gets
  saved,     \* the submissions in the database
  current,   \* current[ch]: the published version
  release    \* what is deployed

caller == <<pc, job, heard, workspace, result, answer>>
world == <<saved, current, release>>
vars == <<caller, world>>

-----------------------------------------------------------------------------
(* Answers *)

ProviderErrors == {"llm_provider_error", "llm_rate_limit_error", "llm_timeout_error"}
Failures == ProviderErrors \cup
  {"prompt_too_long", "hidden_evaluation_unavailable", "persistence_error",
   "invalid_evaluation_configuration", "invalid_application_configuration",
   "sandbox_unavailable", "application_environment_unavailable",
   "admin_challenge_state_error"}

\* The exception handlers; what no handler names is a DomainError.
Status(failure) ==
  CASE failure = "prompt_too_long" -> 422
    [] failure = "llm_rate_limit_error" -> 429
    [] failure = "llm_provider_error" -> 502
    [] failure = "llm_timeout_error" -> 504
    [] failure \in {"hidden_evaluation_unavailable", "persistence_error",
                    "invalid_application_configuration", "sandbox_unavailable",
                    "application_environment_unavailable"} -> 503
    [] failure = "invalid_evaluation_configuration" -> 400
    [] failure = "admin_challenge_state_error" -> 409

Failed(failure) == [status |-> Status(failure), code |-> failure]
Scored(evaluation) == [status |-> 200, evaluation |-> evaluation]
IsScored(a) == a # None /\ a.status = 200

\* The results of all cases or checks, in order, and what they amount to.  A
\* Run is not scored.
Evaluation(j, build, passes) ==
  LET passed == Cardinality({i \in DOMAIN passes : passes[i]})
      score == Score(Count[j.prompt], PassRate(passed, Len(passes)), Version[j.version].scoring)
  IN [build |-> build, passes |-> passes, passed |-> passed, total |-> Len(passes),
      score |-> IF j.use = "run" THEN None ELSE score]

\* Mutant: nobody removes the workspace of a call that fails.
FailUncleaned(c, failure) ==
  /\ pc' = [pc EXCEPT ![c] = "answered"]
  /\ answer' = [answer EXCEPT ![c] = Failed(failure)]
  /\ UNCHANGED <<job, heard, workspace, result, world>>

\* The exception that ends a call; the workspace's finally runs on the way.
Fail(c, failure) ==
  /\ pc' = [pc EXCEPT ![c] = "answered"]
  /\ answer' = [answer EXCEPT ![c] = Failed(failure)]
  /\ workspace' = [workspace EXCEPT ![c] = None]
  /\ UNCHANGED <<job, heard, result, world>>

\* A Run or a Test answers at once, and nothing of it is kept.
Show(c, evaluation) ==
  /\ pc' = [pc EXCEPT ![c] = "answered"]
  /\ answer' = [answer EXCEPT ![c] = Scored(evaluation)]
  /\ UNCHANGED result

\* An execution that came to its end: a Submit saves it, the others show it.
Conclude(c, evaluation) ==
  /\ workspace' = [workspace EXCEPT ![c] = None]
  /\ \/ /\ job[c].use = "submit"
        /\ pc' = [pc EXCEPT ![c] = "saving"]
        /\ result' = [result EXCEPT ![c] = {evaluation}]
        /\ UNCHANGED answer
     \/ job[c].use # "submit" /\ Show(c, evaluation)
  /\ UNCHANGED <<job, world>>

-----------------------------------------------------------------------------
(* The request: the published version, or for a Test any selected one.  Only  *)
(* Submit and Test refuse a long prompt.                                      *)

Start(v) == IF Version[v].challenge_type = "text" THEN "suite" ELSE "package"

TooLong(request, v) ==
  /\ request.use # "run" /\ Version[v].prompt_token_limit # Unlimited
  /\ Count[request.prompt] > Version[v].prompt_token_limit

Admit(c, request, v) ==
  /\ pc[c] = "idle"
  /\ v \in VersionsOf[request.challenge]
  /\ request.use # "test" => v = current[request.challenge]
  /\ LET long == TooLong(request, v)
     IN /\ job' = [job EXCEPT ![c] = [use |-> request.use, prompt |-> request.prompt,
                                      version |-> v]]
        /\ pc' = [pc EXCEPT ![c] = IF long THEN "answered" ELSE Start(v)]
        /\ answer' = [answer EXCEPT ![c] = IF long THEN Failed("prompt_too_long") ELSE @]
  /\ UNCHANGED <<heard, workspace, result, world>>

-----------------------------------------------------------------------------
(* TEXT: TextChallengeExecutor, and the loop of the admin Test *)

\* Mutant: the hidden cases of the version that is published by now.
HiddenOfPublished(j) ==
  Version[current[CHOOSE ch \in Challenges : j.version \in VersionsOf[ch]]].hidden

HiddenOf(j) == Version[j.version].hidden

CasesOf(j) ==
  CASE j.use = "run" -> Version[j.version].visible
    [] j.use = "submit" -> HiddenOf(j)
    [] j.use = "test" -> Version[j.version].visible \o HiddenOf(j)

\* The hidden suite of the version that was read; only Submit asks for it here.
\* A Test of a draft without cases is refused.
ReadSuite(c) ==
  /\ pc[c] = "suite"
  /\ \/ /\ CasesOf(job[c]) # <<>>
        /\ pc' = [pc EXCEPT ![c] = "asking"]
        /\ UNCHANGED <<job, heard, workspace, result, answer, world>>
     \/ CasesOf(job[c]) = <<>> /\ Fail(c, "admin_challenge_state_error")
     \/ /\ job[c].use = "submit"
        /\ \E failure \in {"hidden_evaluation_unavailable", "persistence_error"} : Fail(c, failure)

\* The outputs by test case.
OutputsOf(cases, texts) ==
  [id \in IdsOf(cases) |-> texts[CHOOSE i \in DOMAIN cases : cases[i].id = id]]

\* Run and Submit grade the batch once every case is answered; a Test grades
\* each case as it goes.
GradesOf(j, texts) ==
  LET cases == CasesOf(j)
  IN IF j.use = "test"
     THEN [i \in DOMAIN texts |-> Grade(cases[i].expected, texts[i], cases[i].grader)]
     ELSE EvaluateBatch(cases, OutputsOf(cases, texts))

Passes(grades) == [i \in DOMAIN grades |-> grades[i] = "passed"]

\* The provider's answer for the next case.
ModelAnswers(c, output) ==
  LET texts == Append(heard[c], output)
      last == Len(texts) = Len(CasesOf(job[c]))
      graded == job[c].use = "test" \/ last
  IN /\ pc[c] = "asking"
     /\ heard' = [heard EXCEPT ![c] = texts]
     /\ \/ /\ graded /\ Misconfigured(GradesOf(job[c], texts))
           /\ pc' = [pc EXCEPT ![c] = "answered"]
           /\ answer' = [answer EXCEPT ![c] = Failed("invalid_evaluation_configuration")]
           /\ UNCHANGED <<job, workspace, result, world>>
        \/ /\ ~last /\ ~(graded /\ Misconfigured(GradesOf(job[c], texts)))
           /\ UNCHANGED <<pc, job, workspace, result, answer, world>>
        \/ /\ last /\ ~Misconfigured(GradesOf(job[c], texts))
           /\ Conclude(c, Evaluation(job[c], "none", Passes(GradesOf(job[c], texts))))

\* A provider error ends the call: nothing is graded.
ModelFails(c) ==
  /\ pc[c] = "asking"
  /\ \E failure \in ProviderErrors : Fail(c, failure)

-----------------------------------------------------------------------------
(* APPLICATION: ApplicationChallengeExecutor *)

Config(j) == Version[j.version].config
PackageOf(j) == Packages[release][Config(j).starter_project]

\* A Test evaluates the union, each check once.
Once(ids, id) == IF id \in Range(ids) THEN ids ELSE Append(ids, id)
Union(s, t) == FoldLeft(Once, s, t)
ChecksOf(j) ==
  LET c == Config(j)
  IN SelectedChecks(PackageOf(j),
       CASE j.use = "run" -> c.visible_checks
         [] j.use = "submit" -> c.hidden_checks
         [] j.use = "test" -> Union(c.visible_checks, c.hidden_checks))

\* The packages of this process must still know and accept the stored
\* configuration, and an executable one needs a sandbox; then the starter is copied.
PreparePackage(c) ==
  LET config == Config(job[c])
      registered == config.starter_project \in DOMAIN Packages[release]
      usable == registered /\ Usable(Packages[release], config)
  IN /\ pc[c] = "package"
     /\ \/ ~registered /\ Fail(c, "application_environment_unavailable")
        \/ registered /\ ~usable /\ Fail(c, "invalid_application_configuration")
        \/ usable /\ config.execution_mode # "static" /\ Fail(c, "sandbox_unavailable")
        \/ /\ usable
           /\ pc' = [pc EXCEPT ![c] = "agent"]
           /\ workspace' = [workspace EXCEPT ![c] = PackageOf(job[c]).starter]
           /\ UNCHANGED <<job, heard, result, answer, world>>

\* What the coding agent is shown: the editable files.
Originals(j, tree) == [f \in Range(Config(j).editable_files) |-> tree[f]]

\* The shape a provider with structured outputs holds the reply to.
Structural(reply, originals) ==
  /\ reply.object /\ Len(reply.files) \in 1..Cardinality(DOMAIN originals)
  /\ \A i \in DOMAIN reply.files : reply.files[i].shaped /\ reply.files[i].path \in DOMAIN originals

\* Mutant: only the first edit is written.
OverlayFirst(tree, files) == [tree EXCEPT ![files[1].path] = files[1].content]

\* The accepted edits, each a whole file.
Overlay(tree, files) ==
  [f \in DOMAIN tree |->
     IF \E i \in DOMAIN files : files[i].path = f
     THEN files[CHOOSE i \in DOMAIN files : files[i].path = f].content
     ELSE tree[f]]

NothingPasses(checks) == [i \in DOMAIN checks |-> FALSE]

\* Edits that are refused are a failed attempt: nothing is written or built.
AgentReplies(c, reply) ==
  LET originals == Originals(job[c], workspace[c])
      verdict == ParseEdits(reply, originals, Config(job[c]).limits)
  IN /\ pc[c] = "agent"
     /\ StructuredOutputs => Structural(reply, originals)
     /\ heard' = [heard EXCEPT ![c] = <<reply>>]
     /\ \/ /\ verdict # "accepted"
           /\ Conclude(c, Evaluation(job[c], "skipped", NothingPasses(ChecksOf(job[c]))))
        \/ /\ verdict = "accepted"
           /\ workspace' = [workspace EXCEPT ![c] = Overlay(@, reply.files)]
           /\ pc' = [pc EXCEPT ![c] = "inspect"]
           /\ UNCHANGED <<job, result, answer, world>>

\* Mutant: the wait for the agent has no end of its own.
AgentFailsOnceHeard(c) ==
  /\ pc[c] = "agent" /\ heard[c] # <<>>
  /\ \E failure \in ProviderErrors : Fail(c, failure)

\* The provider fails, answers out of shape, or not before the agent's timeout.
AgentFails(c) ==
  /\ pc[c] = "agent"
  /\ \E failure \in ProviderErrors : Fail(c, failure)

\* Every file that differs from the starter.
ModifiedPaths(tree, starter) == {f \in DOMAIN tree : tree[f] # starter[f]}

Facts(j, tree, built) ==
  LET starter == PackageOf(j).starter
      config == Config(j)
  IN [build_succeeded |-> built,
      protected_files_unchanged |-> ModifiedPaths(tree, starter) \subseteq Range(config.editable_files),
      starter_html |-> Landmarks(starter[config.page_source]),
      result_html |-> Landmarks(tree[config.page_source]),
      layouts |-> IF built /\ config.execution_mode = "static"
                  THEN [v \in IdsOf(config.viewports) |-> Render(tree).layouts[v]] ELSE <<>>,
      behavior_results |-> IF built /\ config.execution_mode # "static"
                           THEN Render(tree).behavior ELSE <<>>]

InspectionOf(j, tree, built) ==
  LET results == EvaluateChecks(ChecksOf(j), Facts(j, tree, built))
  IN Evaluation(j, IF built THEN "passed" ELSE "failed",
                [i \in DOMAIN results |-> results[i].passed])

\* The build ran and, if it succeeded, every view was measured.  A container
\* that was cut off or ran out of memory counts as a failed build.
Inspected(c, built) ==
  /\ pc[c] = "inspect"
  /\ \/ built = Render(workspace[c]).builds
     \/ ~built /\ Config(job[c]).execution_mode # "static"
  /\ Conclude(c, InspectionOf(job[c], workspace[c], built))
  /\ UNCHANGED heard

\* The build timed out, or the toolchain, the browser or the container failed.
InspectionFails(c) ==
  /\ pc[c] = "inspect"
  /\ Fail(c, "application_environment_unavailable")

-----------------------------------------------------------------------------
(* Saving, and the world around *)

Submission(c, evaluation) ==
  [call |-> c, version |-> job[c].version, evaluation |-> evaluation]

\* Mutant: the player is answered as if saved, whether anything was or not.
SaveUnsaved(c) ==
  /\ pc[c] = "saving"
  /\ saved' \in {saved, saved \cup {Submission(c, e) : e \in result[c]}}
  /\ pc' = [pc EXCEPT ![c] = "committed"]
  /\ UNCHANGED <<job, heard, workspace, result, answer, current, release>>

\* The transaction commits, or fails and is rolled back.
Save(c) ==
  /\ pc[c] = "saving"
  /\ \/ /\ saved' = saved \cup {Submission(c, e) : e \in result[c]}
        /\ pc' = [pc EXCEPT ![c] = "committed"]
        /\ UNCHANGED <<job, heard, workspace, result, answer, current, release>>
     \/ Fail(c, "persistence_error")

\* The process hears of the commit, or its connection is lost before it does.
Acknowledge(c) ==
  /\ pc[c] = "committed"
  /\ \/ \E e \in result[c] :
          /\ pc' = [pc EXCEPT ![c] = "answered"]
          /\ answer' = [answer EXCEPT ![c] = Scored(e)]
          /\ UNCHANGED <<job, heard, workspace, result, world>>
     \/ Fail(c, "persistence_error")

\* An editor publishes another version of the challenge.
Publish(ch, v) ==
  /\ v # current[ch] /\ Publishable(Version[v])
  /\ current' = [current EXCEPT ![ch] = v]
  /\ UNCHANGED <<caller, saved, release>>

Working(c) == pc[c] \notin {"idle", "answered", "killed"}

\* The process dies with its calls, and another release starts; temporary
\* directories stay behind.
Restart(r) ==
  /\ release' = r
  /\ pc' = [c \in Calls |-> IF Working(c) THEN "killed" ELSE pc[c]]
  /\ UNCHANGED <<job, heard, workspace, result, answer, saved, current>>

-----------------------------------------------------------------------------

Init ==
  /\ pc = [c \in Calls |-> "idle"]
  /\ job = [c \in Calls |-> None]
  /\ heard = [c \in Calls |-> <<>>]
  /\ workspace = [c \in Calls |-> None]
  /\ result = [c \in Calls |-> {}]
  /\ answer = [c \in Calls |-> None]
  /\ saved = {}
  /\ current \in {f \in [Challenges -> UNION {VersionsOf[ch] : ch \in Challenges}] :
                    \A ch \in Challenges :
                      f[ch] \in VersionsOf[ch] /\ Publishable(Version[f[ch]])}
  /\ release \in Releases

\* A static page is built, served and measured by calls of which only some have
\* a timeout; a container has a deadline.
Unbounded(c) == pc[c] = "inspect" /\ Config(job[c]).execution_mode = "static"

\* What a call does without waiting for long, and the deadlines of its waits.
Due(c) ==
  \/ ReadSuite(c) \/ PreparePackage(c) \/ Save(c) \/ Acknowledge(c)
  \/ ModelFails(c) \/ AgentFails(c)
  \/ ~Unbounded(c) /\ InspectionFails(c)

\* What it hears from the provider, and from the build and the browser.
Hears(c) ==
  \/ \E output \in Outputs : ModelAnswers(c, output)
  \/ \E reply \in Replies : AgentReplies(c, reply)
  \/ \E built \in BOOLEAN : Inspected(c, built)
  \/ Unbounded(c) /\ InspectionFails(c)

Next ==
  \/ \E c \in Calls : Due(c) \/ Hears(c)
  \/ \E c \in Calls, v \in DOMAIN Version : \E request \in Wants[c] : Admit(c, request, v)
  \/ \E ch \in Challenges : \E v \in VersionsOf[ch] : Publish(ch, v)
  \/ \E r \in Releases : Restart(r)

Spec == Init /\ [][Next]_vars

\* The provider's client, the agent's deadline and the container's end every wait
\* but the inspection of a static page; that anything answers before them is not
\* assumed.
FairSpec == Spec /\ \A c \in Calls : WF_vars(Due(c))

-----------------------------------------------------------------------------
(* Properties *)

Stages == {"idle", "suite", "asking", "package", "agent", "inspect", "saving", "committed",
           "answered", "killed"}

TypeOK ==
  /\ pc \in [Calls -> Stages]
  /\ DOMAIN job = Calls /\ DOMAIN workspace = Calls
  /\ \A c \in Calls : pc[c] # "idle" =>
       job[c].use \in Uses /\ job[c].prompt \in Prompts /\ job[c].version \in DOMAIN Version
  /\ release \in Releases

\* What has been evaluated for a call, shown or still to be saved.
Evaluated(c) ==
  IF pc[c] \in {"saving", "committed"} THEN result[c]
  ELSE IF IsScored(answer[c]) THEN {answer[c].evaluation} ELSE {}

IsTextCall(c) == Version[job[c].version].challenge_type = "text"

\* Nothing partial is ever graded (execution/text.py: "nothing is graded unless
\* every call succeeds"): a TEXT verdict counts every case of the version it is
\* attributed to, each with an answer of the model, whatever is published meanwhile.
ScoredWhole ==
  /\ \A c \in Calls : Evaluated(c) # {} /\ IsTextCall(c) =>
       LET v == Version[job[c].version]
           size == CASE job[c].use = "run" -> Len(v.visible)
                     [] job[c].use = "submit" -> Len(v.hidden)
                     [] job[c].use = "test" -> Len(v.visible) + Len(v.hidden)
       IN Len(heard[c]) = size /\ \A e \in Evaluated(c) : e.total = size
  /\ \A row \in saved : LET v == Version[row.version] IN
       row.evaluation.total = IF v.challenge_type = "text" THEN Len(v.hidden)
                              ELSE Len(v.config.hidden_checks)

\* What is built is the starter with every accepted edit in it and no other
\* change: protected files are the package's, however the agent answered.
EvaluatedWhole ==
  \A c \in Calls : pc[c] = "inspect" =>
    LET starter == PackageOf(job[c]).starter
        edits == Head(heard[c]).files
        For(f) == {i \in DOMAIN edits : edits[i].path = f}
    IN /\ DOMAIN workspace[c] = DOMAIN starter
       /\ \A f \in DOMAIN starter :
            IF f \in Range(Config(job[c]).editable_files) /\ For(f) # {}
            THEN \A i \in For(f) : workspace[c][f] = edits[i].content
            ELSE workspace[c][f] = starter[f]

\* A page that did not build passes no check that measures it: what is judged
\* without a build is only whether protected files and markup were left alone.
NothingPassesUnbuilt ==
  [][\A c \in Calls : pc[c] = "inspect" =>
       \A e \in Evaluated(c)' : e.build # "passed" =>
         \A i \in DOMAIN e.passes : e.passes[i] =>
           ChecksOf(job[c])[i].implementation \in
             {"protected_files_unchanged", "protected_markup_unchanged"}]_vars

\* Of two saved submissions to a version, the one that passed as much with as
\* short a prompt has at least the other's score and stars.
BetterNeverScoresLess ==
  \A a, b \in saved :
    LET sa == a.evaluation.score
        sb == b.evaluation.score
    IN a.version = b.version /\ a.evaluation.passed >= b.evaluation.passed
         /\ sa.prompt_tokens <= sb.prompt_tokens
       => sa.final_score >= sb.final_score /\ sa.stars >= sb.stars

\* A Submit that shows a score has saved exactly that, for the version it read.
\* Nothing is saved by a Run, by a Test, or by a call that failed before the
\* database was asked; what is saved for a failed call is the verdict it had asked
\* to save, and it is told that saving failed.
SavedAsShown ==
  \A c \in Calls :
    LET rows == {row \in saved : row.call = c}
    IN /\ rows \subseteq {Submission(c, e) : e \in result[c]}
       /\ rows # {} =>
            /\ job[c].use = "submit"
            /\ answer[c] \in {None, Failed("persistence_error")} \cup {Scored(e) : e \in result[c]}
       /\ IsScored(answer[c]) /\ job[c].use = "submit" =>
            rows = {Submission(c, answer[c].evaluation)}

\* A temporary workspace belongs to a call that is using it, or to one that
\* died with its process.
NothingLeftBehind ==
  \A c \in Calls : workspace[c] # None => pc[c] \in {"agent", "inspect", "killed"}

\* Every attempt is answered, unless the process dies or the inspection of a
\* static page, which has no deadline of its own, never returns.
EveryCallEnds == \A c \in Calls : Working(c) ~> ~Working(c) \/ Unbounded(c)
=============================================================================
