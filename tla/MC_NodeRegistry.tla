--------------------------- MODULE MC_NodeRegistry ---------------------------
(* Model-checking instances of NodeRegistry.                               *)
EXTENDS NodeRegistry, TLC

CONSTANTS p1, p2, c1, c2

\* One thread that nests "with p1:" and "with p2:" blocks.
NestPipes == {p1, p2}
NestCallers == {c1}
NestPipesOf == [c \in NestCallers |-> {p1, p2}]
NestSymmetry == Permutations(NestPipes)

\* Two threads, each building its own pipeline.
ThreadPipes == {p1, p2}
ThreadCallers == {c1, c2}
ThreadPipesOf == [c \in ThreadCallers |-> IF c = c1 THEN {p1} ELSE {p2}]

\* A plain base name and one that already ends in "_<digit>".
MCExtBases == {<<"x">>, <<"x", "_", "1">>}
MCOpKinds == {"ExternalSource", "ToTensor"}
=============================================================================
