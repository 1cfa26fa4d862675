--------------------------- MODULE MCExportWorker ---------------------------
(* Small instances of ExportWorker for TLC. *)
EXTENDS ExportWorker

\* Processes and handlers: one handler; two in one process; one in each of two.
OneWorker    == {"w1"}
TwoWorkers   == {"w1", "w2"}
OneHandler   == {"h1"}
TwoHandlers  == {"h1", "h2"}
Alone        == [h \in OneHandler |-> "w1"]
SameProcess  == [h \in TwoHandlers |-> "w1"]
TwoProcesses == [h \in TwoHandlers |-> IF h = "h1" THEN "w1" ELSE "w2"]

\* One request with the given payload.
OneRequest == {"r1"}
OneDep     == [r \in OneRequest |-> "d1"]
Valid      == [r \in OneRequest |-> "valid"]
Mismatch   == [r \in OneRequest |-> "hint_mismatch"]
Stamped    == [r \in OneRequest |-> "t1"]
Unstamped  == [r \in OneRequest |-> NoStamp]

\* The producer repeats the request of d1.
TwoRequests == {"r1", "r2"}
BothD1      == [r \in TwoRequests |-> "d1"]
BothValid   == [r \in TwoRequests |-> "valid"]
BothStamped == [r \in TwoRequests |-> "t1"]

\* One request of each defective kind: two name d1, and the unparseable one
\* stands under a key of its own.
Defective     == {"hint", "schema", "garbage"}
DefectiveDeps == [r \in Defective |-> IF r = "garbage" THEN "unknown" ELSE "d1"]
DefectiveKind == [r \in Defective |->
                    CASE r = "hint" -> "hint_mismatch"
                      [] r = "schema" -> "schema_invalid"
                      [] r = "garbage" -> "unparseable"]
DefectiveStamp == [r \in Defective |-> NoStamp]
=============================================================================
