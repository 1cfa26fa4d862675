SPECIFICATION InputSpec
CONSTANTS
  Environments = {"unset", "local", "staging", "other"}
  QueueDrivers = {"unset", "redis", "kafka"}
  RedisURLs = {"unset", "set"}
  Origins = {"unset", "bad", "site", "apps/demo", "loopback"}
  StorageDrivers = {"s3", "other"}
  OtherKeys = {"unset", "set"}
  AssetURLs = {"unset", "bad"}
  Concurrencies <- Counts
  RenderTimeouts <- Renders
  UploadTimeouts <- Uploads
  Retentions <- Keeps
  ByteLimits <- Limits
  DryRuns = {"unset", "true"}
  Half = 128
  Ms = 4
  Margin = 16
  Floor = 24
  Slack = 8
  DefaultRender = 4
  DefaultUpload = 16
  DefaultRetention = 100
  Alphabet = {"slash", "dot", "x", "colon", "pct", "mark", "blank"}
  Depths = {0, 4, 5}
  MaxLength = 5
INVARIANTS LeaseCoversJob AcceptedIsSound AllStorable AllDecoded AllMirrored AuditedIsEnforced
CHECK_DEADLOCK FALSE
