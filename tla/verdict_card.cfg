SPECIFICATION VerdictSpec
CONSTANTS
  image = image
  scene = scene
  metadata = metadata
  checksum = checksum
  structure = structure
  hex = hex
  gen = gen
  diffusion = diffusion
  splicing = splicing
  residue = residue
  object = object
  Examiners = {image, scene, metadata}
  Tools <- MCTools
  ExaminerOf <- MCExaminerOf
  Role <- MCRole
  Provenance = {structure}
  ContentRisk = {object}
  NonIntegrity = {checksum, structure, hex, object}
  HashTools = {checksum}
  AiTools = {gen, diffusion}
  Screening = {splicing, residue}
  Splicers = {splicing}
  ScreenProne = {splicing, residue}
  CriticalTools = {structure, residue}
  ImportantTools = {gen, diffusion, structure, residue, object}
  SingleBar = 80
  StrongBar = 70
  Possible <- MCPossible
  Reads <- MCReads
INVARIANT CardHoldsCleared
CHECK_DEADLOCK FALSE
