SPECIFICATION ClaimSpec
CONSTANTS
  Requests = {u1, u2, u3}
  NoClaim = NoClaim
  MaxUploadFaults = 1
  p1 = p1
  p2 = p2
  p3 = p3
  one = one
  other = other
  NoOne = NoOne
  Preflights = {p1, p2, p3}
  Investigations = {one, other}
  SessionOf <- MCSessionOf
  LockTTL = 1
  ReadTTL = 2
  MaxTroubles = 1
  Sessions = {s1, s2}
  NoSession = NoSession
  Concurrency = 1
  MaxRuns = 3
  MaxStops = 0
  MaxCrashes = 0
  MaxFaults = 1
  v1 = v1
  v2 = v2
  v3 = v3
  image = image
  video = video
  Visions <- MCVisions
  Files = {image, video}
  FileOf <- MCFileOf
  KindOf <- MCKindOf
  Cascade <- MCCascade
  Retries = 2
  FailLimit = 2
  Cooldown = 1
  Pool = 1
  MaxCuts = 1
  c1 = c1
  c2 = c2
  c3 = c3
  ela = ela
  noise = noise
  NoToolCall = NoToolCall
  ToolCalls = {c1, c2, c3}
  Scripts = {ela, noise}
  ScriptOf <- MCScriptOf
  Slots = 2
  MaxWorkers = 3
  MaxCancels = 1
  MaxBreaks = 1
  runner = runner
  resumer = resumer
  hook = hook
  stateField = stateField
  briefField = briefField
  resumeField = resumeField
  Writers = {runner, resumer, hook}
  PlainWriters = {hook}
  Fields = {stateField, briefField, resumeField}
  FieldsOf <- MCFieldsOf
  MaxRetries = 1
  UpdatesOf <- MCUpdatesOf
  MaxMetaFaults = 1
INVARIANTS LossHasCause AnsweredIsStored NoFalseDuplicate FailedUploadLeavesNoSession NoLockLeftBehind FirstCreationAlone NoFileStranded UploadsAreRemoved AnswerIsOwn
PROPERTY TerminatedBeforeStartNeverRuns
CHECK_DEADLOCK FALSE
