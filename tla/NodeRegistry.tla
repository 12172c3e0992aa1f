---------------------------- MODULE NodeRegistry ----------------------------
(***************************************************************************)
(* Node naming in the accdata front end (accdata/pipeline.py, ops).        *)
(*                                                                         *)
(*  - Pipeline._current is one class attribute shared by every Pipeline    *)
(*    and every thread; __enter__ sets it and __exit__ leaves it alone.    *)
(*  - Every builder ends in Operator.add_output, which names the output    *)
(*    through Pipeline.get_current().create_datanode. There the counter    *)
(*    update "self._logical_id = self._logical_id + 1" (a load and a       *)
(*    store) and the re-read of self._logical_id for the name are          *)
(*    separate bytecode steps another thread can run between.              *)
(*                                                                         *)
(* Callers are Python threads. Each owns some pipelines (PipesOf) and      *)
(* keeps the stack of with-blocks it is lexically inside (scope): the      *)
(* innermost one is the pipeline its operator calls are meant for.         *)
(***************************************************************************)
EXTENDS Integers, Sequences, FiniteSets, SequencesExt

CONSTANTS
  Pipes,     \* Pipeline instances
  Callers,   \* Python threads using them
  PipesOf,   \* [Callers -> SUBSET Pipes], disjoint: the pipelines a thread owns
  ExtBases,  \* base names given to external_source, as token sequences
  OpKinds,   \* operator builders exercised (always includes "ExternalSource")
  MaxOps,    \* bound: operators a caller collects for one pipeline
  MaxDepth,  \* bound: nesting of with-blocks
  None       \* model value: Python None

ASSUME "ExternalSource" \in OpKinds
ASSUME \A c \in Callers : PipesOf[c] \subseteq Pipes
ASSUME MaxOps \in Nat /\ MaxDepth \in Nat \ {0}

VARIABLES
  current,     \* Pipeline._current
  created,     \* Pipeline objects constructed so far
  logicalId,   \* self._logical_id of each pipeline
  scope,       \* with-blocks each caller is lexically inside
  pending,     \* an add_output of the caller that is part-way through
  specs,       \* OpSpecs a caller has collected for each pipeline
  issued,      \* history: names each pipeline's create_datanode returned
  err          \* outcome of each caller's last call

regVars == <<current, created, logicalId, scope, pending, specs, issued, err>>

-----------------------------------------------------------------------------
(* name + "_" + str(self._logical_id)                                      *)

DigitChar == <<"0", "1", "2", "3", "4", "5", "6", "7", "8", "9">>

\* str(n) of a natural number, as a sequence of digit characters.
RECURSIVE Digits(_)
Digits(n) == IF n < 10 THEN <<DigitChar[n + 1]>>
                       ELSE Digits(n \div 10) \o <<DigitChar[(n % 10) + 1]>>

NodeName(base, id) == base \o <<"_">> \o Digits(id)

\* The base name a builder other than external_source passes to add_output.
OpBase(k) == <<k>>

NoInput == <<>>

OpSpec(k, in, out) == [op |-> k, in |-> in, out |-> out]

Outs(sl) == {sl[i].out : i \in DOMAIN sl}

\* Nodes a caller holds for pipeline p: outputs of the operators it built.
Held(p) == Outs(specs[p])

\* Pipelines an operator call of caller c is meant for: the innermost
\* with-block, or, outside every with-block, a pipeline the caller owns.
Intended(c) == IF scope[c] # <<>> THEN {Last(scope[c])}
                                  ELSE PipesOf[c] \cap created

Idle(c) == pending[c] = None

-----------------------------------------------------------------------------

RegInit ==
  /\ current = None
  /\ created = {}
  /\ logicalId = [p \in Pipes |-> 0]
  /\ scope = [c \in Callers |-> <<>>]
  /\ pending = [c \in Callers |-> None]
  /\ specs = [p \in Pipes |-> <<>>]
  /\ issued = [p \in Pipes |-> <<>>]
  /\ err = [c \in Callers |-> "OK"]

\* Pipeline.__init__: self._logical_id = 0 (the backend handle is in module
\* Pipeline).
NewPipeline(c, p) ==
  /\ Idle(c)
  /\ p \in PipesOf[c] \ created
  /\ created' = created \cup {p}
  /\ UNCHANGED <<current, logicalId, scope, pending, specs, issued, err>>

\* "with p:" -- Pipeline.__enter__ sets the class attribute.
Enter(c, p) ==
  /\ Idle(c)
  /\ p \in PipesOf[c] \cap created
  /\ Len(scope[c]) < MaxDepth
  /\ current' = p
  /\ scope' = [scope EXCEPT ![c] = Append(@, p)]
  /\ UNCHANGED <<created, logicalId, pending, specs, issued, err>>

\* Leaving the with-block: Pipeline.__exit__ does nothing.
Exit(c) ==
  /\ Idle(c)
  /\ scope[c] # <<>>
  /\ scope' = [scope EXCEPT ![c] = Front(@)]
  /\ UNCHANGED <<current, created, logicalId, pending, specs, issued, err>>

\* A builder raising before add_output: add_input given a non-DataNode,
\* an argument add_arg rejects, or the resize/crop checks.
OpRejected(c) ==
  /\ Idle(c)
  /\ Intended(c) # {}
  /\ err' = [err EXCEPT ![c] = "ArgError"]
  /\ UNCHANGED <<current, created, logicalId, scope, pending, specs, issued>>

\* add_output while Pipeline._current is still None: AttributeError.
AddOutputNoCurrent(c) ==
  /\ Idle(c)
  /\ current = None
  /\ Intended(c) # {}
  /\ err' = [err EXCEPT ![c] = "AttributeError"]
  /\ UNCHANGED <<current, created, logicalId, scope, pending, specs, issued>>

\* Mutant: the counter is decremented instead of incremented.
BeginAddOutputDecrement(c) ==
  /\ Idle(c)
  /\ current # None
  /\ \E t \in Intended(c), k \in OpKinds :
       /\ Len(specs[t]) < MaxOps
       /\ \E b \in (IF k = "ExternalSource" THEN ExtBases ELSE {OpBase(k)}),
             in \in (IF k = "ExternalSource" THEN {NoInput} ELSE Held(t)) :
            pending' = [pending EXCEPT ![c] =
                          [for |-> t, p |-> current, tmp |-> logicalId[current] - 1,
                           op |-> k, base |-> b, in |-> in, phase |-> "loaded"]]
  /\ UNCHANGED <<current, created, logicalId, scope, specs, issued, err>>

\* add_output, step 1: get_current() and the load of self._logical_id.
BeginAddOutput(c) ==
  /\ Idle(c)
  /\ current # None
  /\ \E t \in Intended(c), k \in OpKinds :
       /\ Len(specs[t]) < MaxOps
       /\ \E b \in (IF k = "ExternalSource" THEN ExtBases ELSE {OpBase(k)}),
             in \in (IF k = "ExternalSource" THEN {NoInput} ELSE Held(t)) :
            pending' = [pending EXCEPT ![c] =
                          [for |-> t, p |-> current, tmp |-> logicalId[current] + 1,
                           op |-> k, base |-> b, in |-> in, phase |-> "loaded"]]
  /\ UNCHANGED <<current, created, logicalId, scope, specs, issued, err>>

\* Mutant: the store of the incremented counter is lost.
StoreLogicalIdLost(c) ==
  /\ pending[c] # None
  /\ pending[c].phase = "loaded"
  /\ pending' = [pending EXCEPT ![c].phase = "stored"]
  /\ UNCHANGED <<current, created, logicalId, scope, specs, issued, err>>

\* add_output, step 2: the store of self._logical_id.
StoreLogicalId(c) ==
  /\ pending[c] # None
  /\ pending[c].phase = "loaded"
  /\ logicalId' = [logicalId EXCEPT ![pending[c].p] = pending[c].tmp]
  /\ pending' = [pending EXCEPT ![c].phase = "stored"]
  /\ UNCHANGED <<current, created, scope, specs, issued, err>>

\* add_output, step 3: the name re-reads self._logical_id; spec.AddOutput,
\* and the caller keeps op.spec for the pipeline it meant.
FinishAddOutput(c) ==
  LET pd == pending[c]
      name == NodeName(pd.base, logicalId[pd.p])
  IN
  /\ pd # None
  /\ pd.phase = "stored"
  /\ specs' = [specs EXCEPT ![pd.for] = Append(@, OpSpec(pd.op, pd.in, name))]
  /\ issued' = [issued EXCEPT ![pd.p] = Append(@, name)]
  /\ pending' = [pending EXCEPT ![c] = None]
  /\ err' = [err EXCEPT ![c] = "OK"]
  /\ UNCHANGED <<current, created, logicalId, scope>>

\* Every step that touches only the registry's state.
RegStep(c) ==
  \/ \E p \in Pipes : Enter(c, p)
  \/ Exit(c)
  \/ OpRejected(c)
  \/ AddOutputNoCurrent(c)
  \/ BeginAddOutput(c)
  \/ StoreLogicalId(c)
  \/ FinishAddOutput(c)

RegNext == \E c \in Callers : RegStep(c) \/ \E p \in Pipes : NewPipeline(c, p)

RegSpec == RegInit /\ [][RegNext]_regVars

-----------------------------------------------------------------------------
(* Properties.                                                             *)

RegTypeOK ==
  /\ current \in Pipes \cup {None}
  /\ created \subseteq Pipes
  /\ logicalId \in [Pipes -> Nat]
  /\ scope \in [Callers -> Seq(Pipes)]
  /\ \A c \in Callers :
       pending[c] = None \/ pending[c].phase \in {"loaded", "stored"}

\* Node registry (spec 4.1 and the first property of spec 8): every name a
\* pipeline's create_datanode returns differs from every other name it
\* returned, also when user base names themselves end in "_<digits>".
NodeIdsUnique == \A p \in Pipes : IsInjective(issued[p])

=============================================================================
