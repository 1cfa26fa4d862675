------------------------------ MODULE ErrClass ------------------------------
(***************************************************************************)
(* Job-level error classification (internal/errclass) and the classifiers  *)
(* of the services the export pipeline calls: which registry codes a       *)
(* failing call can carry, and which of them are retried.                  *)
(***************************************************************************)

\* errclass.go: the retryable set; every other code of the registry is terminal.
RetryableCodes ==
    { "RENDER_ORIGIN_TIMEOUT", "RENDER_ORIGIN_5XX", "STORAGE_TIMEOUT",
      "STORAGE_5XX", "QUEUE_TEMPORARY_FAILURE", "DEPLOYMENT_SERVICE_TIMEOUT",
      "ARTIFACT_UPLOAD_TIMEOUT" }

\* errclass.Retryable
Retryable(code) == code \in RetryableCodes

\* deployment/client.go classify: 401, 403, any other 4xx, then 5xx,
\* transport failure and timeout.
DeploymentCodes ==
    { "DEPLOYMENT_SERVICE_401", "DEPLOYMENT_SERVICE_403", "VALIDATION_FAILED",
      "DEPLOYMENT_SERVICE_TIMEOUT" }

\* storage.go classifyStorage
StorageCodes == { "STORAGE_TIMEOUT", "STORAGE_5XX", "VALIDATION_FAILED" }

\* render.go get, FetchPage, FetchAsset
RenderCodes ==
    { "RENDER_ORIGIN_401", "RENDER_ORIGIN_403", "RENDER_ORIGIN_404",
      "VERSION_SLUG_MISMATCH", "RENDER_ORIGIN_5XX", "RENDER_ORIGIN_TIMEOUT",
      "VALIDATION_FAILED" }

\* harvest.go, paths.go: the output guards and the path mapping.
HarvestCodes ==
    { "UNRESOLVED_ASSET_REF", "UNSUPPORTED_DYNAMIC_IMAGE_OPTIMIZER",
      "PATH_TRAVERSAL_DETECTED", "INVALID_SLUG", "VALIDATION_FAILED" }

\* Everything Export can fail with before it writes the manifest: render,
\* harvest, upload, and the whole-artifact upload budget.
ProduceCodes ==
    RenderCodes \cup HarvestCodes \cup StorageCodes
        \cup { "ARTIFACT_UPLOAD_TIMEOUT" }

\* The codes a job can fail with.
JobCodes ==
    DeploymentCodes \cup ProduceCodes \cup { "QUEUE_TEMPORARY_FAILURE" }
=============================================================================
