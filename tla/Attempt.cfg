SPECIFICATION FairSpec
CONSTANTS
  Scale = 1
  Whole = 5
  Tolerance = 0
  Unlimited = Unlimited
  yes = yes
  Yes = Yes
  list = list
  one = one
  two = two
  broken_schema = broken_schema
  NotJson = NotJson
  None = None
  Texts <- SomeTexts
  Folded <- Casefold
  Json <- Parsed
  Conforming <- NoSchema
  Paths <- MCPaths
  PageFiles <- MCPages
  ScriptFiles <- MCScripts
  SourceFiles <- MCScripts
  Contents <- MCContents
  Size <- Sizes
  Calls = {any, rival}
  any = any
  rival = rival
  Wants <- MCWants
  Challenges = {"rewrite", "landing", "signup"}
  VersionsOf <- MCVersionsOf
  Version <- MCVersion
  Prompts = {"short", "longer", "too_long"}
  Count <- Tokens3
  Outputs <- SomeOutputs
  Replies <- MCReplies
  Render <- MCRender
  Landmarks <- MCLandmarks
  Releases = {"good", "edited"}
  Packages <- MCPackages
  StructuredOutputs = FALSE
CHECK_DEADLOCK FALSE
INVARIANTS ScoredWhole EvaluatedWhole BetterNeverScoresLess SavedAsShown NothingLeftBehind
PROPERTIES NothingPassesUnbuilt EveryCallEnds
