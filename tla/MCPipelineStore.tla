--------------------------- MODULE MCPipelineStore ---------------------------
(* PipelineStore with one pipeline: records of different pipelines are     *)
(* different files, and a pass looks at them one by one.                   *)
EXTENDS PipelineStore
=============================================================================
