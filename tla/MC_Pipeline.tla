----------------------------- MODULE MC_Pipeline -----------------------------
(* Model-checking instances of Pipeline.                                   *)
EXTENDS Pipeline, TLC

CONSTANTS p1, p2, c1

MCPipes == {p1}
MCCallers == {c1}
MCPipesOf == [c \in MCCallers |-> {p1}]

\* One thread owning two pipelines it may nest in with-blocks.
NestPipes == {p1, p2}
NestPipesOf == [c \in MCCallers |-> NestPipes]
NestSymmetry == Permutations(NestPipes)

\* A plain base name and one that already ends in "_<digit>".
MCExtBases == {<<"x">>, <<"x", "_", "1">>}
MCOpKinds == {"ExternalSource", "ToTensor"}
\* pipeline_def: Pipeline.__init__'s parameters; a decorated function
\* taking batch_size itself; the decorator's num_threads.
MCInitParams == {"batch_size", "queue_depth", "num_threads", "auto_fuse"}
MCFnParams == {"batch_size", "mean"}
MCDecoKwargs == [n \in {"num_threads"} |-> "ok"]

\* create_pipeline called with nothing, a pipeline argument in and out of
\* range, a shadowed one, a function argument and an unknown name.
MCCallKwargs == {<<>>, [n \in {"queue_depth"} |-> "ok"], [n \in {"queue_depth"} |-> "bad"],
                 [n \in {"batch_size"} |-> "bad"], [n \in {"mean"} |-> "ok"],
                 [n \in {"unknown"} |-> "ok"]}
=============================================================================
