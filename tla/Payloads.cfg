SPECIFICATION Spec
CONSTANTS
  MAX_FRAGMENT = 3
  MAX_SEAMS = 2
  CHUNK_SIZE = 2
  BIN_LIMIT = 4
  BUCKET_SIZE = 4
  VARINT_BASE = 4
  MaxMillis = 20
  MaxValues = 5
  LOW_BITS = 2
  MaxTime = 15
  WHOLE_KEY_LIMIT = 3
  FIELD_LIMIT = 1
  WafTimeout = 2
  SampleDelay = 3
  SamplerCapacity = 2
  DEFAULT_LIMIT = 6
  BASE_PRICE = 2
  PRICE = 1
INVARIANTS
  SplitRecordsRecovered
  TraceContextContinues
  InferredSpansChain
  MessagesCountedOnce
  SketchCounts
  OtlpSpansKept
  CollapseReported
  SecretsResolved
  RequestsAnalysed
  UsageReported
CHECK_DEADLOCK FALSE
