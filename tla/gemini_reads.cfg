SPECIFICATION GeminiSpec
CONSTANTS
  v1 = v1
  v2 = v2
  v3 = v3
  image = image
  video = video
  Visions <- MCVisions
  Files = {image, video}
  FileOf <- MCFileOf
  KindOf <- MCKindOf
  Cascade <- MCCascade
  Retries = 2
  FailLimit = 2
  Cooldown = 1
  Pool = 1
  MaxCuts = 1
INVARIANT ModelReadsAreReal
CHECK_DEADLOCK FALSE
