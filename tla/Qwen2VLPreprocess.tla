-------------------------- MODULE Qwen2VLPreprocess --------------------------
(***************************************************************************)
(* MultimodalQwen2VLImageProcessor (mm/adapter/qwen2_vl_preprocessor.py).  *)
(*                                                                         *)
(* The processor object keeps the constructor's parameters; every call of  *)
(* preprocess resolves the per-call overrides against them, validates the  *)
(* parameters and every image and video frame, computes each output size   *)
(* with _smart_resize and hands the images to the accelerator. The model   *)
(* keeps the order of every check and error, and computes _smart_resize    *)
(* exactly in integers. Pixel data, the accelerator kernels and the patch  *)
(* reshaping are abstracted to the sizes and grid they produce.            *)
(*                                                                         *)
(* A Python argument (image, frame, ndarray, list) is a Raw record: its   *)
(* kind, the <<height, width>> of its frames and, for a 4-D ndarray, the   *)
(* frame count; a list holds Raw records of one level.                     *)
(* image_mean/image_std values are tagged records; their numbers are in    *)
(* hundredths and NotANumber stands for a list element that is not a      *)
(* number. A size dict is a function from the keys present to values.     *)
(***************************************************************************)
EXTENDS Integers, Sequences, FiniteSets, SequencesExt

CONSTANTS
  Frames,          \* frame sizes <<height, width>> that calls pass
  MaxImages,       \* bound: length of an image list
  VideoInputs,     \* videos arguments: None, or Raw values
  PixelOverrides,  \* values passed as min_pixels / max_pixels
  PatchOverrides,  \* values passed as patch_size
  MergeOverrides,  \* values passed as merge_size
  TemporalOverrides, \* values passed as temporal_patch_size
  MeanOverrides,   \* values passed as image_mean
  StdOverrides,    \* values passed as image_std
  SizeOverrides,   \* values passed as size: None, or functions from keys present
  NotANumber,      \* model value: a list element that is not a number
  Constructed,     \* processor attributes the constructor can leave
  None             \* model value: Python None

VARIABLES
  inst,  \* the processor's attributes (min_pixels, ..., merge_size)
  last   \* what the last preprocess call returned or raised

vars == <<inst, last>>

-----------------------------------------------------------------------------
(* Module-level constants of qwen2_vl_preprocessor.py.                     *)

DEFAULT_LOWER_BOUNDARY_MIN_PIXELS == 10 * 10
DEFAULT_UPPER_BOUNDARY_MAX_PIXELS == 4096 * 4096
DEFAULT_IMAGE_MIN_SIZE == 10
DEFAULT_IMAGE_MAX_SIZE == 4096
MEAN == [kind |-> "list", v |-> <<48, 46, 41>>]
STD == [kind |-> "list", v |-> <<27, 26, 28>>]
MIN_PIXELS == 56 * 56
MAX_PIXELS == 28 * 28 * 1280
MEAN_STD_LENGTH == 3

Height(fr) == fr[1]
Width(fr) == fr[2]
Format(fr) == fr[3]

-----------------------------------------------------------------------------
(* _smart_resize in exact integer arithmetic.                              *)

\* round(n / d) of Python 3: halves go to the even neighbour.
RoundHalfEven(n, d) ==
  LET q == n \div d
      r == n % d
  IN  IF 2 * r > d \/ (2 * r = d /\ q % 2 = 1) THEN q + 1 ELSE q

\* The largest s in lo..hi with s * s <= n.
RECURSIVE ISqrtIn(_, _, _)
ISqrtIn(n, lo, hi) ==
  IF lo = hi THEN lo
  ELSE LET mid == (lo + hi + 1) \div 2
       IN  IF mid * mid <= n THEN ISqrtIn(n, mid, hi) ELSE ISqrtIn(n, lo, mid - 1)

ISqrt(n) == ISqrtIn(n, 0, 46340)

\* Mutant: one factor too few in the max_pixels branch.
FloorScaledOffByOne(side, other, factor, maxp) ==
  LET s == ISqrt((side * maxp) \div other) IN {(s \div factor) - 1}

\* math.floor(side / beta / factor) with beta = sqrt(height*width/maxp):
\* the largest k with (k*factor)^2 * other <= side * maxp. When the real
\* quotient is an integer the float result may fall just below it.
FloorScaled(side, other, factor, maxp) ==
  LET q == (side * maxp) \div other
      s == ISqrt(q)
      k == s \div factor
  IN  IF (side * maxp) % other = 0 /\ s * s = q /\ s % factor = 0
        THEN {k - 1, k} ELSE {k}

\* Mutant: the min_pixels branch truncates (math.floor for math.ceil).
CeilScaledTruncating(side, other, factor, minp) ==
  LET s == ISqrt((side * minp) \div other) IN {s \div factor}

\* math.ceil(side * beta / factor) with beta = sqrt(minp/(height*width)):
\* the least k with (k*factor)^2 * other >= side * minp.
CeilScaled(side, other, factor, minp) ==
  LET q == (side * minp + other - 1) \div other
      r == ISqrt(q)
      s == IF r * r = q THEN r ELSE r + 1
      k == (s + factor - 1) \div factor
  IN  IF (side * minp) % other = 0 /\ r * r = q /\ s % factor = 0
        THEN {k, k + 1} ELSE {k}

\* _smart_resize(height, width, factor, min_pixels, max_pixels): the set of
\* results the float computation can give, a record with the error raised
\* or the new height and width.
SmartResize(height, width, factor, minp, maxp) ==
  LET hi == IF height > width THEN height ELSE width
      lo == IF height > width THEN width ELSE height
      hb == RoundHalfEven(height, factor) * factor
      wb == RoundHalfEven(width, factor) * factor
  IN  CASE height < factor \/ width < factor -> {[code |-> "ValueError(factor)"]}
        [] hi > 200 * lo -> {[code |-> "ValueError(aspect)"]}
        [] hb * wb > maxp ->
             {[code |-> "OK", h |-> kh * factor, w |-> kw * factor] :
                kh \in FloorScaled(height, width, factor, maxp),
                kw \in FloorScaled(width, height, factor, maxp)}
        [] hb * wb < minp ->
             {[code |-> "OK", h |-> kh * factor, w |-> kw * factor] :
                kh \in CeilScaled(height, width, factor, minp),
                kw \in CeilScaled(width, height, factor, minp)}
        [] OTHER -> {[code |-> "OK", h |-> hb, w |-> wb]}

-----------------------------------------------------------------------------
(* Parameter resolution and validation.                                    *)

\* _check_image_param: the error it raises, or "OK". A value is tagged
\* with what isinstance sees: a number, a list, or another type.
CheckImageParam(name, value) ==
  LET v == IF value.kind = "number" THEN [i \in 1..MEAN_STD_LENGTH |-> value.v]
           ELSE IF value.kind = "list" THEN value.v ELSE <<>>
  IN  CASE value.kind = "other" \/ Len(v) # MEAN_STD_LENGTH
             -> "TypeError(" \o name \o ")"
        [] \E i \in DOMAIN v : v[i] \notin Int -> "ValueError(" \o name \o ")"
        [] name = "image_mean" /\ \E i \in DOMAIN v : v[i] < 0 \/ v[i] > 100
             -> "ValueError(image_mean)"
        [] name = "image_std" /\ \E i \in DOMAIN v : v[i] <= 0
             -> "ValueError(image_std)"
        [] OTHER -> "OK"

\* _resolve_params(defaults, overrides): a non-None override replaces the
\* default, size replaces min_pixels and max_pixels, then image_mean and
\* image_std are checked. Returns [code, cons].
ResolveParams(defaults, ov) ==
  LET pick(f) == IF ov[f] # None THEN ov[f] ELSE defaults[f]
      merged == [min_pixels |-> pick("min_pixels"), max_pixels |-> pick("max_pixels"),
                 image_mean |-> pick("image_mean"), image_std |-> pick("image_std"),
                 patch_size |-> pick("patch_size"), merge_size |-> pick("merge_size"),
                 temporal_patch_size |-> pick("temporal_patch_size")]
      sizeOk == ov.size = None \/ {"shortest_edge", "longest_edge"} \subseteq DOMAIN ov.size
      cons == IF ov.size = None \/ ~sizeOk THEN merged
              ELSE [merged EXCEPT !.min_pixels = ov.size.shortest_edge,
                                  !.max_pixels = ov.size.longest_edge]
      meanCode == CheckImageParam("image_mean", cons.image_mean)
      stdCode == CheckImageParam("image_std", cons.image_std)
  IN  CASE ~sizeOk -> [code |-> "ValueError(size)", cons |-> None]
        [] meanCode # "OK" -> [code |-> meanCode, cons |-> None]
        [] stdCode # "OK" -> [code |-> stdCode, cons |-> None]
        [] OTHER -> [code |-> "OK", cons |-> cons]

\* _validate_basic_param(cons).
ValidateBasicParam(cons) ==
  CASE cons.min_pixels < DEFAULT_LOWER_BOUNDARY_MIN_PIXELS -> "ValueError(min_pixels)"
    [] cons.max_pixels > DEFAULT_UPPER_BOUNDARY_MAX_PIXELS -> "ValueError(max_pixels)"
    [] cons.min_pixels >= cons.max_pixels -> "ValueError(min>=max)"
    [] OTHER -> "OK"

PatchMerge(cons) == cons.patch_size * cons.merge_size

\* _check_image(img, cons).
CheckImage(fr, cons) ==
  LET pm == PatchMerge(cons) IN
  CASE Format(fr) # "RGB" -> "TypeError(RGB)"
    [] Height(fr) < DEFAULT_IMAGE_MIN_SIZE \/ Height(fr) > DEFAULT_IMAGE_MAX_SIZE
       \/ Width(fr) < DEFAULT_IMAGE_MIN_SIZE \/ Width(fr) > DEFAULT_IMAGE_MAX_SIZE
         -> "ValueError(image size)"
    [] pm > Height(fr) \/ pm > Width(fr) -> "ValueError(patch_merge)"
    \* max_pixels < patch_merge**2 * w / h
    [] cons.max_pixels * Height(fr) < pm * pm * Width(fr) -> "ValueError(max_pixels too small)"
    [] cons.min_pixels >= cons.max_pixels -> "ValueError(min>=max)"
    [] cons.temporal_patch_size # 2 -> "ValueError(temporal_patch_size)"
    [] OTHER -> "OK"

\* executor.map over a list, drained by list(): every check runs, and the
\* first exception in list order is the one raised.
FirstError(codes) ==
  IF \E i \in DOMAIN codes : codes[i] # "OK"
    THEN codes[CHOOSE i \in DOMAIN codes : codes[i] # "OK" /\
                                           \A j \in 1..(i - 1) : codes[j] = "OK"]
    ELSE "OK"

-----------------------------------------------------------------------------
(* Conversion of the images and videos arguments.                          *)

\* A Python argument: kind "image" (an RGB mm.Image or a PIL.Image),
\* "imageBGR" (an mm.Image of another ImageFormat), "nd3" (an
\* H,W,3 ndarray), "nd3bad" (a 3-D ndarray without 3 channels), "nd4" (a
\* T,H,W,3 ndarray of t frames), "other" (an unsupported object) or "list".
Raw(kind, fr, t, items) == [kind |-> kind, fr |-> fr, t |-> t, items |-> items]

\* The result of a conversion: the error raised, or the converted value.
Converted(code, out) == [code |-> code, out |-> out]

\* The mm.Image a frame-like argument becomes: its size and ImageFormat.
\* An mm.Image keeps its format; ndarrays become RGB (Image.from_numpy(frame,
\* ImageFormat.RGB)).
AsFrame(e) == e.fr \o <<IF e.kind = "imageBGR" THEN "BGR" ELSE "RGB">>

\* _to_mm_image(frame).
ToMMImage(e) ==
  IF e.kind \in {"image", "imageBGR", "nd3"} THEN Converted("OK", AsFrame(e))
  ELSE Converted("TypeError(frame)", <<>>)

\* [_to_mm_image(f) for f in l]: the first frame that fails raises.
ConvertFrames(l) ==
  LET r == [i \in DOMAIN l |-> ToMMImage(l[i])]
      code == FirstError([i \in DOMAIN r |-> r[i].code])
  IN  IF code # "OK" THEN Converted(code, <<>>)
      ELSE Converted("OK", [i \in DOMAIN r |-> r[i].out])

\* _make_flat_list_of_images(imgs).
MakeFlatListOfImages(imgs) ==
  ConvertFrames(IF imgs.kind = "list" THEN imgs.items ELSE <<imgs>>)

\* _process_single_video(video) of an ndarray.
ProcessSingleVideo(v) ==
  CASE v.kind = "nd4" /\ v.t > 0 -> Converted("OK", << [i \in 1..v.t |-> AsFrame(v)] >>)
    [] v.kind = "nd3" -> Converted("OK", << <<AsFrame(v)>> >>)
    [] OTHER -> Converted("ValueError(video shape)", <<>>)

\* _process_list_of_frames(frames).
ProcessListOfFrames(l) ==
  IF l = <<>> THEN Converted("ValueError(empty video)", <<>>)
  ELSE LET c == ConvertFrames(l)
       IN  IF c.code # "OK" THEN c ELSE Converted("OK", <<c.out>>)

\* One iteration of the loop of _process_list_of_videos.
AppendVideo(acc, v) ==
  LET step == CASE v.kind = "list" -> ProcessListOfFrames(v.items)
                [] v.kind \in {"nd3", "nd3bad", "nd4"} -> ProcessSingleVideo(v)
                [] v.kind \in {"image", "imageBGR"} -> Converted("OK", << <<AsFrame(v)>> >>)
                [] OTHER -> Converted("TypeError(video element)", <<>>)
  IN  IF acc.code # "OK" THEN acc
      ELSE IF step.code # "OK" THEN step
      ELSE Converted("OK", acc.out \o step.out)

\* _process_list_of_videos(videos).
ProcessListOfVideos(l) == FoldLeft(AppendVideo, Converted("OK", <<>>), l)

\* A list element that _make_batched_videos takes for a frame: an image or
\* a 3-D ndarray.
FrameLike(e) == e.kind \in {"image", "imageBGR", "nd3", "nd3bad"}

\* _make_batched_videos(videos).
MakeBatchedVideos(v) ==
  CASE v.kind \in {"image", "imageBGR"} -> Converted("OK", << <<AsFrame(v)>> >>)
    [] v.kind \in {"nd3", "nd3bad", "nd4"} -> ProcessSingleVideo(v)
    [] v.kind = "list" /\ \A i \in DOMAIN v.items : FrameLike(v.items[i]) ->
         ProcessListOfFrames(v.items)
    [] v.kind = "list" -> ProcessListOfVideos(v.items)
    [] OTHER -> Converted("TypeError(videos)", <<>>)

\* _prepare_and_validate_images_and_videos: the basic parameters, then all
\* images converted and then checked, then all videos converted and then
\* checked. Returns [code, images, videos] with the converted inputs.
PrepareAndValidate(images, videos, cons) ==
  LET basic == ValidateBasicParam(cons)
      imgs == IF images = None THEN Converted("OK", None) ELSE MakeFlatListOfImages(images)
      imgCode == IF images = None \/ imgs.code # "OK" THEN imgs.code
                 ELSE FirstError([i \in DOMAIN imgs.out |-> CheckImage(imgs.out[i], cons)])
      vids == IF videos = None THEN Converted("OK", None) ELSE MakeBatchedVideos(videos)
      vidCode == IF videos = None \/ vids.code # "OK" THEN vids.code
                 ELSE FirstError([v \in DOMAIN vids.out |->
                        FirstError([i \in DOMAIN vids.out[v] |-> CheckImage(vids.out[v][i], cons)])])
      code == CASE basic # "OK" -> basic
                [] imgCode # "OK" -> imgCode
                [] OTHER -> vidCode
  IN  [code |-> code, images |-> imgs.out, videos |-> vids.out]

-----------------------------------------------------------------------------
(* Preprocessing of the validated inputs.                                  *)

\* _preprocess_with_accelerate on one image or video: the first frame's
\* size is resized for all T frames; frames are padded to a multiple of
\* temporal_patch_size and the grid is (T', h/patch, w/patch). Whether
\* _acc.Qwen2VLProcessor.Preprocess (C++, not in the repository) accepts
\* a target side of 0 is unknown, so both outcomes are allowed.
ProcessInput(fr, t, cons) ==
  UNION
  {IF r.code # "OK" THEN {[code |-> r.code]}
   ELSE {[code |-> "OK", h |-> Height(fr), w |-> Width(fr), hb |-> r.h, wb |-> r.w,
          gt |-> (t + cons.temporal_patch_size - 1) \div cons.temporal_patch_size,
          gh |-> r.h \div cons.patch_size, gw |-> r.w \div cons.patch_size]}
        \cup (IF r.h = 0 \/ r.w = 0 THEN {[code |-> "RuntimeError(acc)"]} ELSE {}) :
     r \in SmartResize(Height(fr), Width(fr), PatchMerge(cons),
                       cons.min_pixels, cons.max_pixels)}

\* The sequences that pick one element from each set of a sequence of sets.
Picks(sets) ==
  {f \in [DOMAIN sets -> UNION {sets[i] : i \in DOMAIN sets}] :
     \A i \in DOMAIN sets : f[i] \in sets[i]}

\* The outcome of a call that fails with code.
Failed(code, cons) ==
  [code |-> code, cons |-> cons, images |-> None, videos |-> None,
   imageOut |-> <<>>, videoOut |-> <<>>]

\* _convert_to_acc_type and _preprocess_images_and_videos on the converted
\* inputs: when videos is None the images are processed one by one;
\* otherwise only the videos are.
Processed(images, videos, cons) ==
  LET imageBranch == images # None /\ videos = None
      jobs == CASE imageBranch -> [i \in DOMAIN images |-> ProcessInput(images[i], 1, cons)]
                [] videos # None ->
                     [v \in DOMAIN videos |-> ProcessInput(videos[v][1], Len(videos[v]), cons)]
                [] OTHER -> <<>>
  IN  {IF FirstError([i \in DOMAIN f |-> f[i].code]) # "OK"
         THEN Failed(FirstError([i \in DOMAIN f |-> f[i].code]), cons)
         ELSE [code |-> "OK", cons |-> cons, images |-> images, videos |-> videos,
               imageOut |-> IF imageBranch THEN f ELSE <<>>,
               videoOut |-> IF videos # None THEN f ELSE <<>>] :
       f \in Picks(jobs)}

\* MultimodalQwen2VLImageProcessor.preprocess: the set of its outcomes.
Preprocess(images, videos, ov) ==
  LET resolved == ResolveParams(inst, ov)
      cons == resolved.cons
  IN  IF resolved.code # "OK" THEN {Failed(resolved.code, None)}
      ELSE LET checked == PrepareAndValidate(images, videos, cons)
           IN  IF checked.code # "OK" THEN {Failed(checked.code, cons)}
               ELSE Processed(checked.images, checked.videos, cons)

\* A single image or frame of each size, as an RGB and as a BGR mm.Image,
\* and an object _to_mm_image rejects.
RawImages == {Raw(k, fr, 1, <<>>) : k \in {"image", "imageBGR"}, fr \in Frames}
               \cup {Raw("other", <<>>, 0, <<>>)}

\* images arguments: None, one image, or a list of at most MaxImages.
ImageInputs ==
  {None} \cup RawImages \cup
  {Raw("list", <<>>, 0, l) : l \in UNION {[1..n -> RawImages] : n \in 0..MaxImages}}

Overrides ==
  [min_pixels : PixelOverrides, max_pixels : PixelOverrides,
   image_mean : MeanOverrides, image_std : StdOverrides,
   patch_size : PatchOverrides, temporal_patch_size : TemporalOverrides,
   merge_size : MergeOverrides, size : SizeOverrides]

-----------------------------------------------------------------------------

\* MultimodalQwen2VLImageProcessor.__init__: image_mean/image_std default to
\* MEAN/STD; the other attributes are the constructor arguments.
Init ==
  /\ inst \in Constructed
  /\ last = None

\* One call of preprocess with the caller's images, videos and overrides.
Call ==
  /\ last = None
  /\ \E images \in ImageInputs, videos \in VideoInputs, ov \in Overrides :
       last' \in Preprocess(images, videos, ov)
  /\ UNCHANGED inst

\* The caller takes the result (or the exception) and may call again.
Return ==
  /\ last # None
  /\ last' = None
  /\ UNCHANGED inst

Next == Call \/ Return

Spec == Init /\ [][Next]_vars

-----------------------------------------------------------------------------
(* Properties.                                                             *)

Resized == [code : {"OK"}, h : Nat, w : Nat, hb : Nat, wb : Nat,
            gt : Nat, gh : Nat, gw : Nat]

TypeOK ==
  last = None \/
  /\ last.code \in STRING
  /\ last.imageOut \in Seq(Resized)
  /\ last.videoOut \in Seq(Resized)

\* Outputs of the successful call, with the factor they were resized by.
Outputs == IF last = None THEN {} ELSE
             {last.imageOut[i] : i \in DOMAIN last.imageOut} \cup
             {last.videoOut[i] : i \in DOMAIN last.videoOut}

\* _smart_resize only rescales when the rounded size breaks a bound, and
\* then it ends on the right side of that bound: an image whose rounded
\* size exceeds max_pixels is resized to at most max_pixels, and one below
\* min_pixels to at least min_pixels (floor and ceil must not be swapped,
\* and the float result at exact quotients must not cross the bound).
ResizeHonoursBrokenBound ==
  \A o \in Outputs :
    LET f == PatchMerge(last.cons)
        rounded == RoundHalfEven(o.h, f) * f * RoundHalfEven(o.w, f) * f
    IN  /\ rounded > last.cons.max_pixels => o.hb * o.wb <= last.cons.max_pixels
        /\ rounded < last.cons.min_pixels => o.hb * o.wb >= last.cons.min_pixels

\* ImageConstraints documents min_pixels and max_pixels as the "minimum
\* and maximum allowed pixels after resizing", and _check_image's
\* max_pixels check exists to "ensure valid grid": an image or video that
\* preprocess accepts is resized to a non-empty patch grid whose pixel
\* count lies within [min_pixels, max_pixels].
ResizedWithinConstraints ==
  \A o \in Outputs :
    /\ o.gh > 0 /\ o.gw > 0
    /\ last.cons.min_pixels <= o.hb * o.wb
    /\ o.hb * o.wb <= last.cons.max_pixels

=============================================================================
