------------------------------ MODULE MC_Qwen2VL ------------------------------
(* Bounded inputs for Qwen2VLPreprocess. Every product _smart_resize forms *)
(* (side * pixels) stays below 2^31.                                        *)
EXTENDS Qwen2VLPreprocess

CONSTANTS nan, none

\* The processor built with its default arguments.
MCConstructed ==
  {[min_pixels |-> MIN_PIXELS, max_pixels |-> MAX_PIXELS, image_mean |-> MEAN,
    image_std |-> STD, patch_size |-> 14, temporal_patch_size |-> 2,
    merge_size |-> 2]}

\* Square, nearly square, tall, wide, too small, too thin for patch 5.
MCFrames == {<<28, 29>>, <<2000, 28>>, <<28, 2000>>, <<2001, 10>>, <<9, 28>>,
             <<1000, 1000>>}

Img(fr) == Raw("image", fr, 1, <<>>)
Nd3(fr) == Raw("nd3", fr, 1, <<>>)
Nd4(fr, t) == Raw("nd4", fr, t, <<>>)
RList(l) == Raw("list", <<>>, 0, l)
Nd3Bad == Raw("nd3bad", <<28, 29>>, 1, <<>>)
Obj == Raw("other", <<>>, 0, <<>>)

\* One image; 4-D ndarrays of 3 and of 0 frames; a 4-channel array; a list
\* of frames; an empty list; a list of videos (a list and an ndarray); a
\* list of videos with an empty one; with an unsupported element; a list of
\* frames with a 4-channel one; an unsupported object.
MCVideos == {none, Img(<<1000, 1000>>), Nd4(<<28, 29>>, 3), Nd4(<<28, 29>>, 0), Nd3Bad,
             RList(<<Img(<<28, 29>>), Nd3(<<28, 29>>)>>), RList(<<>>),
             RList(<<RList(<<Img(<<2000, 28>>)>>), Nd4(<<1000, 1000>>, 2)>>),
             RList(<<Nd4(<<28, 29>>, 1), RList(<<>>)>>),
             RList(<<Nd4(<<28, 29>>, 1), Obj>>),
             RList(<<Img(<<28, 29>>), Nd3Bad>>), Obj}

MCPixels == {none, 99, 100, 101, 3136, 3137}

MCSizes == {none, [shortest_edge |-> 100],
            [shortest_edge |-> 3136, longest_edge |-> 3137]}

Num(n) == [kind |-> "number", v |-> n]
List(l) == [kind |-> "list", v |-> l]

MCMeans == {none, Num(150), List(<<50, 50>>), List(<<50, nan, 50>>), [kind |-> "other"]}

MCStds == {none, Num(0), List(<<20, 20, 20>>)}

MCMeansFew == {none, Num(150)}

MCStdsFew == {none, Num(0)}

\* Narrower argument sets for the runs that look for one behaviour.
MCPixelsFew == {none, 100, 101}

MCSizesFew == {none, [shortest_edge |-> 3136, longest_edge |-> 3137]}

ASSUME \A fr \in MCFrames, p \in (MCPixels \cup {MAX_PIXELS}) \ {none} :
         Height(fr) * p <= 2147483647 /\ Width(fr) * p <= 2147483647
==============================================================================
