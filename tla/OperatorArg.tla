----------------------------- MODULE OperatorArg -----------------------------
(***************************************************************************)
(* The operator builders of accdata/ops/__init__.py and Operator.add_arg,  *)
(* which checks every argument before it reaches the OpSpec.               *)
(*                                                                         *)
(* A builder call runs its own checks (external_source's name, the resize  *)
(* and crop checks), Operator(...), add_input, then one add_arg per        *)
(* argument in the order the builder chains them, and add_output. Every    *)
(* add_arg is one step; the first raise ends the call. The naming done by  *)
(* add_output is module NodeRegistry's.                                    *)
(*                                                                         *)
(* Python values are abstracted to what add_arg looks at: a value is None, *)
(* a scalar or a list/tuple of scalars; a scalar has a type ("int",        *)
(* "bool", "float", "str", "layout"), a number (floats in hundredths) and, *)
(* for a str, its characters. bool is a subclass of int.                   *)
(***************************************************************************)
EXTENDS Integers, Sequences, FiniteSets, SequencesExt

CONSTANTS
  Builders,   \* builders exercised, by their NODE_* name
  Names,      \* values passed to external_source as name
  Pairs,      \* values passed as resize and crop
  Modes,      \* values passed as interpolation_mode
  Rounds,     \* values passed as round_mode
  Triples,    \* values passed as mean and std
  Scales,     \* values passed as scale and as the crop positions
  Layouts,    \* values passed as layout
  IntArgs,    \* values passed as qwen_fusion_op's min_pixels and max_pixels
  None        \* model value: no call in progress

VARIABLES
  phase,     \* "idle", "adding" (add_arg calls left) or "done"
  todo,      \* the add_arg calls of the builder still to make
  args,      \* the arguments spec.AddArg received so far
  outcome    \* "OK" or the error the call raised (None while running)

vars == <<phase, todo, args, outcome>>

-----------------------------------------------------------------------------
(* Values.                                                                 *)

Elem(t, n, s) == [t |-> t, n |-> n, s |-> s]
IntV(n) == Elem("int", n, <<>>)
BoolV(n) == Elem("bool", n, <<>>)
FloatV(n) == Elem("float", n, <<>>)
StrV(s) == Elem("str", 0, s)
LayoutV(n) == Elem("layout", n, <<>>)

NoneV == [kind |-> "none", elems |-> <<>>]
Scalar(e) == [kind |-> "scalar", elems |-> <<e>>]
ListV(es) == [kind |-> "list", elems |-> es]

BILINEAR == <<"b", "i", "l", "i", "n", "e", "a", "r">>
BICUBIC == <<"b", "i", "c", "u", "b", "i", "c">>
ROUND == <<"r", "o", "u", "n", "d">>
TRUNCATE == <<"t", "r", "u", "n", "c", "a", "t", "e">>

\* isinstance(e, T) for one of the types the builders declare.
IsInst(t, T) == t = T \/ (t = "bool" /\ T = "int")

\* "not value" where add_arg skips: None, an empty list or str. A numeric
\* zero is excluded by "value not in (0, False)". TensorLayout members are
\* truthy objects.
Falsy(x) ==
  \/ x.kind = "none"
  \/ x.kind = "list" /\ x.elems = <<>>
  \/ x.kind = "scalar" /\ x.elems[1].t = "str" /\ x.elems[1].s = <<>>

\* Plain truthiness, as in "if crop:".
Truthy(x) ==
  ~Falsy(x) /\
  ~(x.kind = "scalar" /\ x.elems[1].t \in {"int", "bool", "float"} /\ x.elems[1].n = 0)

\* "v in s" of two str: s contains v.
InStr(v, s) == \E i \in 0..(Len(s) - Len(v)) : SubSeq(s, i + 1, i + Len(v)) = v

-----------------------------------------------------------------------------
(* Operator.add_arg(key, value, types, cast, count, choice).               *)

\* An add_arg call site: count 0 is count=None; choice is a tuple of str
\* (kind "tuple"), a single str (kind "str": "v in choice" is then a
\* substring test) or None; allowed is the set of values the call site
\* names, {} when it names none.
Decl(key, type, cast, count, choice, allowed) ==
  [key |-> key, type |-> type, cast |-> cast, count |-> count,
   choice |-> choice, allowed |-> allowed]

NoChoice == [kind |-> "none", items |-> {}, str |-> <<>>]
TupleChoice(S) == [kind |-> "tuple", items |-> S, str |-> <<>>]
StrChoice(s) == [kind |-> "str", items |-> {}, str |-> s]

InChoice(e, c) == IF c.kind = "tuple" THEN e.s \in c.items ELSE InStr(e.s, c.str)

\* cast=int: int(v).
Cast(e, d) == IF d.cast THEN IntV(e.n) ELSE e

Skip == [r |-> "skip", e |-> "none", v |-> NoneV]
Err(cat) == [r |-> "error", e |-> cat, v |-> NoneV]
Add(v) == [r |-> "add", e |-> "none", v |-> v]

\* Mutant: the element count of a list is never compared with count.
AddArgNoCount(x, d) ==
  LET es == x.elems IN
  CASE Falsy(x) -> Skip
    [] d.count > 0 /\ x.kind # "list" -> Err("type")
    [] x.kind = "list" /\ \E i \in DOMAIN es : ~IsInst(es[i].t, es[1].t) -> Err("mismatch")
    [] ~IsInst(es[1].t, d.type) -> Err("type")
    [] d.choice.kind # "none" /\ \E i \in DOMAIN es : ~InChoice(es[i], d.choice) -> Err("choice")
    [] OTHER -> Add([x EXCEPT !.elems = [i \in DOMAIN es |-> Cast(es[i], d)]])

\* What add_arg does with value x at call site d: skip it, raise (TypeError
\* "type"/"mismatch", ValueError "choice"/"count") or AddArg a value. The
\* broadcast of a scalar under count is unreachable: "if count:" has
\* raised for every scalar before.
AddArg(x, d) ==
  LET es == x.elems IN
  CASE Falsy(x) -> Skip
    [] d.count > 0 /\ x.kind # "list" -> Err("type")
    [] x.kind = "list" /\ \E i \in DOMAIN es : ~IsInst(es[i].t, es[1].t) -> Err("mismatch")
    [] ~IsInst(es[1].t, d.type) -> Err("type")
    [] d.choice.kind # "none" /\ \E i \in DOMAIN es : ~InChoice(es[i], d.choice) -> Err("choice")
    [] x.kind = "list" /\ d.count > 0 /\ Len(es) # d.count -> Err("count")
    [] x.kind = "scalar" /\ d.count > 0 ->
         Add(ListV([i \in 1..d.count |-> Cast(es[1], d)]))
    [] OTHER -> Add([x EXCEPT !.elems = [i \in DOMAIN es |-> Cast(es[i], d)]])

-----------------------------------------------------------------------------
(* The builders.                                                           *)

\* One add_arg call of a builder: call site d given value x.
ArgCall(d, x) == [decl |-> d, value |-> x]

POS_DEFAULT == Scalar(FloatV(50))   \* 0.5

\* The add_arg chain each builder makes; p holds the builder's arguments,
\* crop already replaced by "crop if crop else resize".
Chain(b, p) ==
  CASE b = "ExternalSource" -> <<>>
    [] b = "ToTensor" ->
         << ArgCall(Decl("layout", "layout", TRUE, 0, NoChoice, {}), p.layout) >>
    [] b = "ResizeCrop" ->
         << ArgCall(Decl("resize", "int", TRUE, 2, NoChoice, {}), p.resize),
            ArgCall(Decl("crop", "int", TRUE, 2, NoChoice, {}), p.crop),
            ArgCall(Decl("interpolation_mode", "str", FALSE, 0,
                         TupleChoice({BILINEAR, BICUBIC}), {BILINEAR, BICUBIC}), p.mode),
            ArgCall(Decl("crop_pos_x", "float", FALSE, 0, NoChoice, {}), POS_DEFAULT),
            ArgCall(Decl("crop_pos_y", "float", FALSE, 0, NoChoice, {}), POS_DEFAULT),
            ArgCall(Decl("round_mode", "str", FALSE, 0,
                         TupleChoice({ROUND, TRUNCATE}), {ROUND, TRUNCATE}), p.round) >>
    [] b = "Normalize" ->
         << ArgCall(Decl("mean", "float", FALSE, 3, NoChoice, {}), p.mean),
            ArgCall(Decl("stddev", "float", FALSE, 3, NoChoice, {}), p.std),
            ArgCall(Decl("scale", "float", FALSE, 0, NoChoice, {}), p.scale) >>
    [] b = "ToTensorResizeCropNormalize" ->
         << ArgCall(Decl("resize", "int", TRUE, 2, NoChoice, {}), p.resize),
            ArgCall(Decl("interpolation_mode", "str", FALSE, 0,
                         StrChoice(BILINEAR), {BILINEAR}), p.mode),
            ArgCall(Decl("crop_pos_x", "float", FALSE, 0, NoChoice, {}), p.pos),
            ArgCall(Decl("crop_pos_y", "float", FALSE, 0, NoChoice, {}), p.pos),
            ArgCall(Decl("crop", "int", TRUE, 2, NoChoice, {}), p.crop),
            ArgCall(Decl("round_mode", "str", FALSE, 0,
                         TupleChoice({ROUND, TRUNCATE}), {ROUND, TRUNCATE}), p.round),
            ArgCall(Decl("mean", "float", FALSE, 0, NoChoice, {}), p.mean),
            ArgCall(Decl("stddev", "float", FALSE, 0, NoChoice, {}), p.std),
            ArgCall(Decl("scale", "float", FALSE, 0, NoChoice, {}), p.scale),
            ArgCall(Decl("layout", "layout", TRUE, 0, NoChoice, {}), p.layout) >>
    [] b = "QwenFusionOp" ->
         << ArgCall(Decl("mean", "float", FALSE, 0, NoChoice, {}), p.mean),
            ArgCall(Decl("stddev", "float", FALSE, 0, NoChoice, {}), p.std),
            ArgCall(Decl("min_pixels", "int", FALSE, 0, NoChoice, {}), p.minp),
            ArgCall(Decl("max_pixels", "int", FALSE, 0, NoChoice, {}), p.maxp),
            ArgCall(Decl("patch_size", "int", FALSE, 0, NoChoice, {}), Scalar(IntV(14))),
            ArgCall(Decl("temporal_patch_size", "int", FALSE, 0, NoChoice, {}), Scalar(IntV(2))),
            ArgCall(Decl("merge_size", "int", FALSE, 0, NoChoice, {}), Scalar(IntV(2))) >>

\* "resize is None or not a list/tuple or len(resize) != 2 or not all int".
ResizeInvalid(r) ==
  r.kind # "list" \/ Len(r.elems) # 2 \/ \E i \in DOMAIN r.elems : ~IsInst(r.elems[i].t, "int")

\* "if crop:" the shape checks and crop[i] > resize[i].
CropInvalid(c, r) ==
  /\ Truthy(c)
  /\ \/ c.kind # "list" \/ Len(c.elems) # 2
     \/ \E i \in DOMAIN c.elems : ~IsInst(c.elems[i].t, "int")
     \/ c.elems[1].n > r.elems[1].n \/ c.elems[2].n > r.elems[2].n

\* The checks a builder makes before its first add_arg, ending with
\* add_input (inOk: the input is a DataNode).
PreCheck(b, p) ==
  CASE b = "ExternalSource" /\ ~(p.name.kind = "scalar" /\ p.name.elems[1].t = "str")
         -> "TypeError(name)"
    [] b \in {"ResizeCrop", "ToTensorResizeCropNormalize"} /\ ResizeInvalid(p.resize)
         -> "ValueError(resize)"
    [] b \in {"ResizeCrop", "ToTensorResizeCropNormalize"} /\ CropInvalid(p.crop, p.resize)
         -> "ValueError(crop)"
    [] b # "ExternalSource" /\ ~p.inOk -> "TypeError(input)"
    [] OTHER -> "OK"

CropOrResize(p) == IF Truthy(p.crop) THEN p.crop ELSE p.resize

\* The arguments a caller can pass to builder b; the others keep defaults.
Params(b) ==
  LET none == NoneV
      mode0 == Scalar(StrV(BILINEAR))
      round0 == IF b = "ResizeCrop" THEN Scalar(StrV(TRUNCATE)) ELSE NoneV
  IN
  CASE b = "ExternalSource" ->
         {[name |-> n, inOk |-> TRUE, resize |-> none, crop |-> none, mode |-> mode0,
           round |-> round0, mean |-> none, std |-> none, scale |-> none,
           pos |-> POS_DEFAULT, layout |-> none, minp |-> none, maxp |-> none] : n \in Names}
    [] b = "ToTensor" ->
         {[name |-> none, inOk |-> ok, resize |-> none, crop |-> none, mode |-> mode0,
           round |-> round0, mean |-> none, std |-> none, scale |-> none,
           pos |-> POS_DEFAULT, layout |-> l, minp |-> none, maxp |-> none] :
            ok \in BOOLEAN, l \in Layouts}
    [] b = "ResizeCrop" ->
         {[name |-> none, inOk |-> TRUE, resize |-> r, crop |-> c, mode |-> m,
           round |-> rd, mean |-> none, std |-> none, scale |-> none,
           pos |-> POS_DEFAULT, layout |-> none, minp |-> none, maxp |-> none] :
            r \in Pairs, c \in Pairs, m \in Modes, rd \in Rounds}
    [] b = "Normalize" ->
         {[name |-> none, inOk |-> TRUE, resize |-> none, crop |-> none, mode |-> mode0,
           round |-> round0, mean |-> mn, std |-> sd, scale |-> sc,
           pos |-> POS_DEFAULT, layout |-> none, minp |-> none, maxp |-> none] :
            mn \in Triples, sd \in Triples, sc \in Scales}
    [] b = "ToTensorResizeCropNormalize" ->
         {[name |-> none, inOk |-> TRUE, resize |-> r, crop |-> c, mode |-> m,
           round |-> rd, mean |-> mn, std |-> mn, scale |-> sc,
           pos |-> ps, layout |-> l, minp |-> none, maxp |-> none] :
            r \in Pairs, c \in Pairs, m \in Modes, rd \in Rounds, mn \in Triples,
            sc \in Scales, ps \in Scales, l \in Layouts}
    [] b = "QwenFusionOp" ->
         {[name |-> none, inOk |-> TRUE, resize |-> none, crop |-> none, mode |-> mode0,
           round |-> round0, mean |-> mn, std |-> mn, scale |-> none,
           pos |-> POS_DEFAULT, layout |-> none, minp |-> lo, maxp |-> hi] :
            mn \in Triples, lo \in IntArgs, hi \in IntArgs}

-----------------------------------------------------------------------------
(* A builder call, step by step.                                           *)

Init ==
  /\ phase = "idle"
  /\ todo = <<>>
  /\ args = <<>>
  /\ outcome = None

\* The builder's own checks, Operator(name) and add_input.
Begin(b) ==
  /\ phase = "idle"
  /\ \E p \in Params(b) :
       LET code == PreCheck(b, p) IN
       IF code # "OK"
         THEN /\ phase' = "done"
              /\ outcome' = code
              /\ UNCHANGED todo
         ELSE /\ phase' = "adding"
              /\ todo' = Chain(b, [p EXCEPT !.crop = CropOrResize(p)])
              /\ UNCHANGED outcome
  /\ UNCHANGED args

\* Mutant: a skipped argument is still handed to spec.AddArg, as None.
AddArgStepRecordsSkipped ==
  /\ phase = "adding"
  /\ todo # <<>>
  /\ LET c == Head(todo)
         res == AddArg(c.value, c.decl)
     IN  IF res.r = "error"
           THEN /\ phase' = "done"
                /\ outcome' = res.e
                /\ todo' = <<>>
                /\ UNCHANGED args
           ELSE /\ todo' = Tail(todo)
                /\ args' = Append(args, [decl |-> c.decl, value |-> res.v])
                /\ UNCHANGED <<phase, outcome>>

\* The next .add_arg(...) of the chain.
AddArgStep ==
  /\ phase = "adding"
  /\ todo # <<>>
  /\ LET c == Head(todo)
         res == AddArg(c.value, c.decl)
     IN  IF res.r = "error"
           THEN /\ phase' = "done"
                /\ outcome' = res.e
                /\ todo' = <<>>
                /\ UNCHANGED args
           ELSE /\ todo' = Tail(todo)
                /\ args' = IF res.r = "add"
                             THEN Append(args, [decl |-> c.decl, value |-> res.v])
                             ELSE args
                /\ UNCHANGED <<phase, outcome>>

\* .add_output(...): the builder returns the Operator.
AddOutput ==
  /\ phase = "adding"
  /\ todo = <<>>
  /\ phase' = "done"
  /\ outcome' = "OK"
  /\ UNCHANGED <<todo, args>>

\* The caller takes the Operator (or the exception) and calls again.
Return ==
  /\ phase = "done"
  /\ phase' = "idle"
  /\ args' = <<>>
  /\ outcome' = None
  /\ UNCHANGED todo

Next == (\E b \in Builders : Begin(b)) \/ AddArgStep \/ AddOutput \/ Return

Spec == Init /\ [][Next]_vars

-----------------------------------------------------------------------------
(* Properties.                                                             *)

Types == {"int", "bool", "float", "str", "layout"}

Outcomes == {"OK", "TypeError(name)", "ValueError(resize)", "ValueError(crop)",
             "TypeError(input)", "type", "mismatch", "choice", "count"}

TypeOK ==
  /\ phase \in {"idle", "adding", "done"}
  /\ outcome \in Outcomes \cup {None}
  /\ \A i \in DOMAIN args :
       /\ args[i].value.kind \in {"scalar", "list"}
       /\ \A k \in DOMAIN args[i].value.elems : args[i].value.elems[k].t \in Types

\* Every argument a builder hands to spec.AddArg satisfies its call site's
\* declaration: exactly count elements where count is given, and every
\* element an instance of the declared type, or an int where cast=int
\* converted it.
RecordedArgsMatchDecl ==
  outcome = "OK" =>
    \A i \in DOMAIN args :
      LET d == args[i].decl
          es == args[i].value.elems
      IN  /\ d.count > 0 => args[i].value.kind = "list" /\ Len(es) = d.count
          /\ \A k \in DOMAIN es : IF d.cast THEN es[k].t = "int" ELSE IsInst(es[k].t, d.type)

=============================================================================
