----------------------------- MODULE MCPipeline -----------------------------
(* Small instances of Pipeline for TLC.                                    *)
EXTENDS PipelineInvariant, TLC

CONSTANTS w1, w2   (* The workers, as model values.                        *)

OneWorker == {w1}
TwoWorkers == {w1, w2}

(* The workers are interchangeable: no definition tells one from another.  *)
AnyWorker == Permutations(Workers)
=============================================================================
