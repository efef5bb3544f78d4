SPECIFICATION PipelineSpec
CONSTANTS
  Sessions = {s1, s2, s3}
  NoSession = NoSession
  Concurrency = 2
  MaxRuns = 2
  MaxStops = 1
  MaxCrashes = 1
  MaxFaults = 1
  Agents = {a1, a2, a3}
  FatalFailures = 3
  image = image
  scene = scene
  metadata = metadata
  checksum = checksum
  structure = structure
  hex = hex
  gen = gen
  diffusion = diffusion
  splicing = splicing
  residue = residue
  object = object
  Examiners = {image, scene, metadata}
  Tools <- MCTools
  ExaminerOf <- MCExaminerOf
  Role <- MCRole
  Provenance = {structure}
  ContentRisk = {object}
  NonIntegrity = {checksum, structure, hex, object}
  HashTools = {checksum}
  AiTools = {gen, diffusion}
  Screening = {splicing, residue}
  Splicers = {splicing}
  ScreenProne = {splicing, residue}
  CriticalTools = {structure, residue}
  ImportantTools = {gen, diffusion, structure, residue, object}
  SingleBar = 80
  StrongBar = 70
  Possible <- MCPossible
  hash = hash
  ela = ela
  Reads <- MCReads
  noise = noise
  ghost = ghost
  clone = clone
  prnu = prnu
  summary = summary
  odd = odd
  Plan <- MCPlan
  Asks <- MCAsks
  Toolless = {odd}
  LeftToOthers = {summary}
  Unregistered = {hash}
  Absences = {prnu}
  Ceiling = 7
  MaxOutages = 3
  MaxAuditFaults = 1
  Nothing = Nothing
  NoTask = NoTask
INVARIANTS ConcurrencyRespected NothingStaleReported AbortIsEarned TwoStrongStand CleanIsExplained PlanCarriedOut RepeatsExplained
PROPERTIES ImplementsDispatchOnce AcceptedIsSettled RunEnds BadNewsNeverClears
CHECK_DEADLOCK FALSE
