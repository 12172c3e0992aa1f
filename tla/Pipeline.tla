------------------------------ MODULE Pipeline ------------------------------
(***************************************************************************)
(* The accdata Pipeline controller (accdata/pipeline.py) over the node     *)
(* registry of module NodeRegistry, and the backend pipeline it drives.    *)
(*                                                                         *)
(* build and run check their arguments in Python and hand over to the     *)
(* backend's Build and Run. The backend (C++, not in the repository)       *)
(* keeps the Constructing/Built/Broken state machine of the spec, the      *)
(* graph assembler's checks and the engine invocations; those are          *)
(* modelled from the spec.                                                 *)
(***************************************************************************)
EXTENDS NodeRegistry

CONSTANTS
  MaxRuns,     \* bound: engine invocations per pipeline
  ConfigOk,    \* subset of BOOLEAN: whether the constructor arguments are in range
  InitParams,  \* parameter names of Pipeline.__init__
  FnParams,    \* parameter names of the function pipeline_def decorates
  DecoKwargs,  \* pipeline_def(**pipeline_kwargs): name -> "ok" or "bad" value
  CallKwargs   \* keyword arguments create_pipeline is called with

ASSUME MaxRuns \in Nat
ASSUME ConfigOk \subseteq BOOLEAN /\ ConfigOk # {}

VARIABLES
  handle,      \* self._pipe: "ok", or "null" when new_instance returned None
  outputsSet,  \* self._output_data_nodes
  state,       \* backend pipeline state
  graph,       \* backend: graph accepted by the successful Build
  engineRuns,  \* backend: engine invocations of Run
  defining,    \* create_pipeline in progress: its pipeline and with-block depth
  returned     \* the pipeline each caller's last create_pipeline returned

ctrlVars == <<handle, outputsSet, state, graph, engineRuns, defining, returned>>

vars == <<regVars, ctrlVars>>

-----------------------------------------------------------------------------
(* Backend (C++ engine, not in the repository): modelled from the spec.    *)

States == {"Constructing", "Built", "Broken"}

\* Pipeline::Build: the assembler checks, then the fusion rewrite (which
\* keeps the graph's outputs) and Constructing -> Built.
BuildCode(p, sl, outs) ==
  CASE state[p] # "Constructing"   -> "PipelineStateError"
    [] outs = {}                   -> "NoOutputsRequested"
    [] sl = <<>>                   -> "NoDataNodeForOutput"
    [] ~(outs \subseteq Outs(sl))  -> "NoPathToOutput"
    [] OTHER                       -> "OK"

\* The backend's side of a Build the assembler accepted.
BackendBuild(p, sl, outs) ==
  /\ state' = [state EXCEPT ![p] = "Built"]
  /\ graph' = [graph EXCEPT ![p] = [specs |-> sl, outputs |-> outs]]

\* Mutant: a Run the backend refuses still reaches the engine.
BackendRunCountsRefused(c, p, fed, dataOk) ==
  IF state[p] # "Built"
    THEN /\ err' = [err EXCEPT ![c] = "PipelineStateError"]
         /\ engineRuns' = [engineRuns EXCEPT ![p] = @ + 1]
         /\ UNCHANGED <<state, graph>>
    ELSE /\ engineRuns[p] < MaxRuns
         /\ engineRuns' = [engineRuns EXCEPT ![p] = @ + 1]
         /\ IF fed /\ dataOk
              THEN /\ err' = [err EXCEPT ![c] = "OK"]
                   /\ UNCHANGED state
              ELSE /\ err' = [err EXCEPT ![c] = "SingleOpError"]
                   /\ state' = [state EXCEPT ![p] = "Broken"]
         /\ UNCHANGED graph

\* Pipeline::Run. fed: the input key names an external source of the graph;
\* dataOk: the engine's per-operator execution succeeds on the data.
BackendRun(c, p, fed, dataOk) ==
  IF state[p] # "Built"
    THEN /\ err' = [err EXCEPT ![c] = "PipelineStateError"]
         /\ UNCHANGED <<state, graph, engineRuns>>
    ELSE /\ engineRuns[p] < MaxRuns
         /\ engineRuns' = [engineRuns EXCEPT ![p] = @ + 1]
         /\ IF fed /\ dataOk
              THEN /\ err' = [err EXCEPT ![c] = "OK"]
                   /\ UNCHANGED state
              ELSE /\ err' = [err EXCEPT ![c] = "SingleOpError"]
                   /\ state' = [state EXCEPT ![p] = "Broken"]
         /\ UNCHANGED graph

-----------------------------------------------------------------------------
(* Python front end.                                                       *)

Init ==
  /\ RegInit
  /\ handle = [p \in Pipes |-> "null"]
  /\ outputsSet = [p \in Pipes |-> None]
  /\ state = [p \in Pipes |-> "Constructing"]
  /\ graph = [p \in Pipes |-> None]
  /\ engineRuns = [p \in Pipes |-> 0]
  /\ defining = [c \in Callers |-> None]
  /\ returned = [c \in Callers |-> None]

\* Pipeline.__init__ with _set_backend_pipeline: new_instance returns None
\* when batch_size, num_threads or queue_depth is out of range.
Construct(c, p) ==
  /\ NewPipeline(c, p)
  /\ \E configOk \in ConfigOk :
       handle' = [handle EXCEPT ![p] = IF configOk THEN "ok" ELSE "null"]
  /\ UNCHANGED <<outputsSet, state, graph, engineRuns, defining, returned>>

\* Pipeline.set_outputs(*outputs): stores the packed argument tuple.
SetOutputs(c, p) ==
  /\ Idle(c)
  /\ p \in PipesOf[c] \cap created
  /\ \E outs \in SUBSET Held(p) :
       outputsSet' = [outputsSet EXCEPT ![p] = [kind |-> "tuple", nodes |-> outs]]
  /\ UNCHANGED <<regVars, handle, state, graph, engineRuns, defining, returned>>

\* The output_data_nodes argument of build: a list of the pipeline's nodes,
\* or None, its default.
OutputArgs(p) == SUBSET Held(p) \cup {None}

\* The outputs build uses: those set_outputs stored, else its argument.
BuildOutputs(p, outs) ==
  CASE outputsSet[p] # None -> outputsSet[p]
    [] outs = None          -> [kind |-> "None"]
    [] OTHER                -> [kind |-> "list", nodes |-> outs]

\* How Pipeline.build(specs, output_data_nodes) ends: a Python check's
\* TypeError, the AttributeError of a None handle, or the backend's code.
\* typed: specs is a list of OpSpec.
BuildResult(p, sl, outs, typed) ==
  CASE ~typed                          -> "TypeError(specs)"
    [] BuildOutputs(p, outs).kind # "list" -> "TypeError(outputs)"
    [] handle[p] = "null"              -> "AttributeError"
    [] OTHER                           -> BuildCode(p, sl, BuildOutputs(p, outs).nodes)

\* The state a build call leaves behind.
BuildEffect(p, sl, outs, typed) ==
  IF BuildResult(p, sl, outs, typed) = "OK"
    THEN BackendBuild(p, sl, BuildOutputs(p, outs).nodes)
    ELSE UNCHANGED <<state, graph>>

\* Pipeline.build called by the user. The caller passes the OpSpecs it
\* collected, or none.
Build(c, p) ==
  /\ Idle(c)
  /\ p \in PipesOf[c] \cap created
  /\ \E sl \in {specs[p], <<>>}, outs \in OutputArgs(p), typed \in BOOLEAN :
       /\ err' = [err EXCEPT ![c] = BuildResult(p, sl, outs, typed)]
       /\ BuildEffect(p, sl, outs, typed)
  /\ UNCHANGED <<current, created, logicalId, scope, pending, specs, issued,
                 handle, outputsSet, engineRuns, defining, returned>>

\* Pipeline.run(**pipeline_inputs); typed: every value is a TensorList.
Run(c, p) ==
  /\ Idle(c)
  /\ p \in PipesOf[c] \cap created
  /\ \E typed \in BOOLEAN, dataOk \in BOOLEAN,
        fed \in IF graph[p] # None /\ \E i \in DOMAIN graph[p].specs :
                     graph[p].specs[i].op = "ExternalSource"
                  THEN BOOLEAN ELSE {FALSE} :
       IF ~typed
         THEN /\ err' = [err EXCEPT ![c] = "TypeError(inputs)"]
              /\ UNCHANGED <<state, graph, engineRuns>>
       ELSE IF handle[p] = "null"
         THEN /\ err' = [err EXCEPT ![c] = "AttributeError"]
              /\ UNCHANGED <<state, graph, engineRuns>>
       ELSE BackendRun(c, p, fed, dataOk)
  /\ UNCHANGED <<current, created, logicalId, scope, pending, specs, issued,
                 handle, outputsSet, defining, returned>>

-----------------------------------------------------------------------------
(* The pipeline_def decorator: create_pipeline, the function it returns. *)

\* _distinguish_args: a keyword fn takes goes to fn (shadowing a Pipeline
\* parameter of the same name); otherwise a Pipeline parameter goes to the
\* pipeline; any other name raises AssertionError.
DistinguishArgs(kw) ==
  [err  |-> \E n \in DOMAIN kw : n \notin FnParams /\ n \notin InitParams,
   pipe |-> Restrict(kw, {n \in DOMAIN kw : n \notin FnParams /\ n \in InitParams}),
   fn   |-> Restrict(kw, DOMAIN kw \cap FnParams)]

\* _classify_args: {**pipeline_def_kwargs, **pipe_args}, the call wins.
ClassifyArgs(kw) == DistinguishArgs(kw).pipe @@ DecoKwargs

\* create_pipeline given a keyword neither fn nor Pipeline takes.
DefRejected(c) ==
  /\ Idle(c)
  /\ defining[c] = None
  /\ \E kw \in CallKwargs : DistinguishArgs(kw).err
  /\ err' = [err EXCEPT ![c] = "AssertionError"]
  /\ UNCHANGED <<current, created, logicalId, scope, pending, specs, issued,
                 handle, outputsSet, state, graph, engineRuns, defining, returned>>

\* create_pipeline up to fn's body: Pipeline(**pipe_args), whose backend
\* handle is None when an argument is out of range, then "with pipe:".
DefBegin(c, p) ==
  /\ Idle(c)
  /\ p \in PipesOf[c] \ created
  /\ defining[c] = None
  /\ Len(scope[c]) < MaxDepth
  /\ \E kw \in CallKwargs :
       /\ ~DistinguishArgs(kw).err
       /\ handle' = [handle EXCEPT ![p] =
                       IF \A n \in DOMAIN ClassifyArgs(kw) : ClassifyArgs(kw)[n] = "ok"
                         THEN "ok" ELSE "null"]
  /\ created' = created \cup {p}
  /\ current' = p
  /\ scope' = [scope EXCEPT ![c] = Append(@, p)]
  /\ defining' = [defining EXCEPT ![c] = [pipe |-> p, depth |-> Len(scope[c]) + 1]]
  /\ UNCHANGED <<logicalId, pending, specs, issued, err,
                 outputsSet, state, graph, engineRuns, returned>>

\* fn's body runs the caller's steps inside the with-block, which it
\* cannot leave early.
InDefBody(c) == IF defining[c] = None THEN TRUE ELSE Len(scope'[c]) >= defining[c].depth

\* Mutant: a failed build inside the try block is reported but the
\* pipeline is returned all the same.
DefEndReturnsUnbuilt(c) ==
  LET p == defining[c].pipe IN
  /\ Idle(c)
  /\ defining[c] # None
  /\ Len(scope[c]) = defining[c].depth
  /\ scope' = [scope EXCEPT ![c] = Front(@)]
  /\ defining' = [defining EXCEPT ![c] = None]
  /\ \/ /\ err' = [err EXCEPT ![c] = "UnboundLocalError"]
        /\ UNCHANGED <<state, graph, returned>>
     \/ /\ err' = [err EXCEPT ![c] = "RuntimeError"]
        /\ UNCHANGED <<state, graph, returned>>
     \/ \E sl \in {specs[p], <<>>}, outs \in OutputArgs(p), typed \in BOOLEAN :
          /\ err' = [err EXCEPT ![c] =
                       IF BuildResult(p, sl, outs, typed) = "OK" THEN "OK" ELSE "RuntimeError"]
          /\ returned' = [returned EXCEPT ![c] = p]
          /\ BuildEffect(p, sl, outs, typed)
  /\ UNCHANGED <<current, created, logicalId, pending, specs, issued,
                 handle, outputsSet, engineRuns>>

\* fn returns and create_pipeline finishes; __exit__ leaves _current set.
\*  - fn returned no tuple: "return pipe, input_nodes" reads an unbound
\*    local (UnboundLocalError);
\*  - a tuple that does not unpack into three: RuntimeError;
\*  - (input_nodes, input_op_specs, pipe_outputs): pipe.build, whose
\*    exceptions are re-raised as RuntimeError; on success the pipeline
\*    is returned.
DefEnd(c) ==
  LET p == defining[c].pipe IN
  /\ Idle(c)
  /\ defining[c] # None
  /\ Len(scope[c]) = defining[c].depth
  /\ scope' = [scope EXCEPT ![c] = Front(@)]
  /\ defining' = [defining EXCEPT ![c] = None]
  /\ \/ /\ err' = [err EXCEPT ![c] = "UnboundLocalError"]
        /\ UNCHANGED <<state, graph, returned>>
     \/ /\ err' = [err EXCEPT ![c] = "RuntimeError"]
        /\ UNCHANGED <<state, graph, returned>>
     \/ \E sl \in {specs[p], <<>>}, outs \in OutputArgs(p), typed \in BOOLEAN :
          LET code == BuildResult(p, sl, outs, typed) IN
          /\ err' = [err EXCEPT ![c] = IF code = "OK" THEN "OK" ELSE "RuntimeError"]
          /\ returned' = IF code = "OK" THEN [returned EXCEPT ![c] = p] ELSE returned
          /\ BuildEffect(p, sl, outs, typed)
  /\ UNCHANGED <<current, created, logicalId, pending, specs, issued,
                 handle, outputsSet, engineRuns>>

Next ==
  \E c \in Callers :
    \/ RegStep(c) /\ InDefBody(c) /\ UNCHANGED ctrlVars
    \/ \E p \in Pipes : Construct(c, p) \/ SetOutputs(c, p)
                        \/ Build(c, p) \/ Run(c, p) \/ DefBegin(c, p)
    \/ DefRejected(c)
    \/ DefEnd(c)

Spec == Init /\ [][Next]_vars

-----------------------------------------------------------------------------
(* Properties.                                                             *)

Errors == {"OK", "TypeError(specs)", "TypeError(outputs)", "TypeError(inputs)",
           "AttributeError", "ArgError", "AssertionError", "RuntimeError",
           "UnboundLocalError",
           "PipelineStateError", "NoOutputsRequested", "NoDataNodeForOutput",
           "NoPathToOutput", "SingleOpError"}

TypeOK ==
  /\ RegTypeOK
  /\ handle \in [Pipes -> {"null", "ok"}]
  /\ state \in [Pipes -> States]
  /\ engineRuns \in [Pipes -> 0..MaxRuns]
  /\ err \in [Callers -> Errors]
  /\ \A p \in Pipes : outputsSet[p] = None \/ outputsSet[p].kind = "tuple"

\* pipeline_def turns a definition into a built pipeline: a pipeline that
\* create_pipeline returned has had a graph accepted by the backend, so
\* its first run never meets a PipelineStateError.
DefReturnsBuilt ==
  \A c \in Callers : returned[c] # None => graph[returned[c]] # None

=============================================================================
