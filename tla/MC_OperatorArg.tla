---------------------------- MODULE MC_OperatorArg ----------------------------
(* Bounded argument values for OperatorArg: each set has a valid value,    *)
(* None, and the values that reach each check of add_arg and of the        *)
(* resize/crop checks (wrong length, mixed types, bool among ints, a       *)
(* scalar where a list is expected, a str that is a substring of an        *)
(* allowed one).                                                           *)
EXTENDS OperatorArg

CONSTANTS none

LINEAR == <<"l", "i", "n", "e", "a", "r">>
NEAREST == <<"n", "e", "a", "r", "e", "s", "t">>

I(n) == IntV(n)
F(n) == FloatV(n)

MCBuilders == {"ExternalSource", "ToTensor", "ResizeCrop", "Normalize",
               "ToTensorResizeCropNormalize", "QwenFusionOp"}

MCNames == {Scalar(StrV(<<"s">>)), Scalar(I(0))}

\* (224, 224), landscape and portrait, a bool second element, a bool first
\* element, three elements, a bare int, an empty list.
MCPairs == {NoneV, ListV(<<I(224), I(224)>>), ListV(<<I(100), I(300)>>),
            ListV(<<I(300), I(100)>>), ListV(<<I(224), BoolV(1)>>),
            ListV(<<BoolV(1), I(224)>>), ListV(<<I(224), I(224), I(224)>>),
            Scalar(I(224)), ListV(<<>>)}

MCModes == {Scalar(StrV(BILINEAR)), Scalar(StrV(BICUBIC)), Scalar(StrV(LINEAR)),
            Scalar(StrV(NEAREST)), Scalar(StrV(<<>>)), Scalar(I(1))}

MCRounds == {NoneV, Scalar(StrV(ROUND)), Scalar(StrV(TRUNCATE)), Scalar(StrV(NEAREST))}

\* Per-channel floats, too few, a bare float, ints, too few ints.
MCTriples == {NoneV, ListV(<<F(48), F(46), F(41)>>), ListV(<<F(48), F(46)>>),
              Scalar(F(48)), ListV(<<I(1), I(1), I(1)>>), ListV(<<I(1), I(1)>>)}

MCScales == {NoneV, Scalar(F(50)), Scalar(F(0)), Scalar(I(1))}

MCLayouts == {NoneV, Scalar(LayoutV(0)), Scalar(LayoutV(1)), Scalar(I(0))}

MCIntArgs == {NoneV, Scalar(I(3136)), Scalar(F(100))}

\* Narrow sets for the runs that look for one disagreement.
MCPairsFew == {ListV(<<I(224), I(224)>>), ListV(<<I(224), BoolV(1)>>), NoneV}
MCModesFew == {Scalar(StrV(BILINEAR)), Scalar(StrV(LINEAR))}
MCTriplesFew == {NoneV, ListV(<<F(48), F(46), F(41)>>), Scalar(F(48))}
==============================================================================
