----------------------------- MODULE AccBuffers -----------------------------
(***************************************************************************)
(* Buffer lifetime across the mm.Image and mm.Tensor wrappers             *)
(* (mm/acc/wrapper/image_wrapper.py, tensor_wrapper.py, util.py).         *)
(*                                                                         *)
(* The heap is a sequence of objects: the caller's numpy arrays, torch     *)
(* tensors and PIL images, the acc objects of the C++ extension and the    *)
(* Python wrappers. Each object holds Python references (refs) and reads  *)
(* the memory allocated by one object (mem, or NoMem). CPython frees an    *)
(* object as soon as nothing reachable from the caller's variables (roots) *)
(* refers to it, and an object's memory with it.                          *)
(*                                                                         *)
(* The acc extension is not in the repository. What the model assumes of  *)
(* it is what its Python tests show: acc.Tensor.from_numpy and             *)
(* acc.Image.from_numpy wrap the array's data pointer without copying it   *)
(* and without holding a Python reference (test_py_tensor.py builds one    *)
(* from a bare address and reads the same address back from numpy()), and *)
(* numpy() returns an __array_interface__ pointing at the object's memory. *)
(* The kernels (open, clone, crop, resize, to_tensor, normalize) allocate  *)
(* their output, and so does load_audio. The checks the acc calls make    *)
(* themselves are not modelled, beyond load_audio failing on a file it     *)
(* cannot decode. ImportError paths are not modelled.                      *)
(***************************************************************************)
EXTENDS Integers, Sequences, FiniteSets, SequencesExt

CONSTANTS
  MaxObjects,   \* bound: objects allocated in one behaviour
  ArrayInputs,  \* numpy arrays the caller can make: [dtype, contig]
  TorchInputs,  \* torch tensors the caller can make: [dtype, contig, dev]
  PillowModes,  \* modes of the PIL images the caller can make
  BytesArgs,    \* path and device arguments: "str", "bytes", "nul", "int",
                \* "surrogate" (a str with a lone surrogate)
  AudioInputs,  \* audio_inputs arguments of load_audio
  SrArgs        \* sr arguments: "none", "pos", "zero", "bool" (True)

VARIABLES
  heap,   \* sequence of objects; an object's id is its index
  roots,  \* ids held by the caller's variables
  last    \* outcome of the last call: "OK" or the exception raised

vars == <<heap, roots, last>>

NoMem == 0

\* An object: its type, the ids it references, the id owning the memory it
\* reads, and the attributes the wrappers check.
Obj(kind, refs, mem, dtype) ==
  [kind |-> kind, refs |-> refs, mem |-> mem, dtype |-> dtype,
   contig |-> TRUE, dev |-> "cpu", mode |-> "RGB"]

\* Id of the k-th object allocated by the current step.
New(k) == Len(heap) + k

\* The objects of heap h reachable from S.
RECURSIVE Closure(_, _)
Closure(h, S) ==
  LET T == S \cup UNION {h[o].refs : o \in S}
  IN  IF T = S THEN S ELSE Closure(h, T)

Alive == Closure(heap, roots)

Freed == Obj("freed", {}, NoMem, "-")

\* Reference counting: whatever the caller can no longer reach is
\* deallocated, with the memory it owns, at the end of the step.
Collect(h, r) ==
  LET live == Closure(h, r)
  IN  [o \in DOMAIN h |-> IF o \in live THEN h[o] ELSE Freed]

\* The wrapper's _inner.
Inner(w) == CHOOSE x \in heap[w].refs : heap[x].kind \in {"accImage", "accTensor"}

\* The call returns: its objects are allocated and the caller binds the
\* results rs.
ReturnAll(objs, rs) ==
  /\ Len(heap) + Len(objs) <= MaxObjects
  /\ heap' = Collect(heap \o objs, roots \cup rs)
  /\ roots' = roots \cup rs
  /\ last' = "OK"

Return(objs, res) == ReturnAll(objs, {res})

Raise(err) == last' = err /\ UNCHANGED <<heap, roots>>

-----------------------------------------------------------------------------
(* Argument checks, in the order the code makes them.                      *)

\* _ensure_bytes: a str is encoded as UTF-8 (a lone surrogate, as
\* os.fsdecode makes of undecodable file names, fails the encoding),
\* anything else but bytes is rejected, and so is a NUL byte.
EnsureBytes(v) ==
  CASE v = "surrogate" -> "UnicodeEncodeError"
    [] v = "int"       -> "TypeError"
    [] v = "nul"       -> "ValueError"
    [] OTHER           -> "OK"

ImageDTypes  == {"uint8"}
TensorDTypes == {"int8", "uint8", "float32"}

\* from_numpy's isinstance, C_CONTIGUOUS and dtype checks.
NumpyCheck(a, dtypes) ==
  CASE heap[a].kind # "ndarray"   -> "TypeError"
    [] ~heap[a].contig            -> "ValueError"
    [] heap[a].dtype \notin dtypes -> "ValueError"
    [] OTHER                      -> "OK"

\* from_torch's isinstance, is_contiguous, dtype and device checks.
TorchCheck(t, dtypes) ==
  CASE heap[t].kind # "torch"     -> "TypeError"
    [] ~heap[t].contig            -> "ValueError"
    [] heap[t].dtype \notin dtypes -> "ValueError"
    [] heap[t].dev # "cpu"        -> "ValueError"
    [] OTHER                      -> "OK"

\* Outcome of a call whose checks are the given ones: the first failure.
FirstError(errs) ==
  LET i == SelectInSeq(errs, LAMBDA e : e # "OK")
  IN  IF i = 0 THEN "OK" ELSE errs[i]

\* A call: it raises the first failing check, or allocates and returns.
Call(errs, objs, res) ==
  LET e == FirstError(errs)
  IN  IF e = "OK" THEN Return(objs, res) ELSE Raise(e)

-----------------------------------------------------------------------------
(* mm.Image (image_wrapper.py).                                            *)

\* Image(): the constructor refuses direct instantiation.
ImageInit == Raise("RuntimeError")

\* Image.open: both arguments go through _ensure_bytes; the acc image owns
\* the decoded pixels.
Open(path, device) ==
  Call(<<EnsureBytes(path), EnsureBytes(device)>>,
       <<Obj("accImage", {}, New(1), "uint8"), Obj("Image", {New(1)}, NoMem, "-")>>,
       New(2))

\* Mutant: the wrapper does not keep the source array.
FromNumpyNoRetain(a, device) ==
  Call(<<NumpyCheck(a, ImageDTypes), EnsureBytes(device)>>,
       <<Obj("accImage", {}, heap[a].mem, "uint8"), Obj("Image", {New(1)}, NoMem, "-")>>,
       New(2))

\* Image.from_numpy: the acc image shares the array's memory, and the
\* wrapper keeps the array as _numpy_source_ndarray.
FromNumpy(a, device) ==
  Call(<<NumpyCheck(a, ImageDTypes), EnsureBytes(device)>>,
       <<Obj("accImage", {}, heap[a].mem, "uint8"), Obj("Image", {New(1), a}, NoMem, "-")>>,
       New(2))

\* Image.from_torch: torch_tensor.numpy() is a view that references the
\* tensor; from_numpy then wraps it (its own checks pass on that view) and
\* the wrapper keeps it as _numpy_source_ndarray and _torch_source_ndarray.
FromTorch(t, device) ==
  Call(<<TorchCheck(t, ImageDTypes), EnsureBytes(device)>>,
       <<Obj("ndarray", {t}, heap[t].mem, "uint8"),
         Obj("accImage", {}, heap[t].mem, "uint8"),
         Obj("Image", {New(1), New(2)}, NoMem, "-")>>,
       New(3))

\* Image.from_pillow: np.array copies the pixels into a new array, which
\* from_numpy wraps and the wrapper keeps as _pillow_source_ndarray.
FromPillow(p) ==
  Call(<<IF heap[p].kind # "pil" THEN "TypeError" ELSE "OK",
         IF heap[p].mode # "RGB" THEN "ValueError" ELSE "OK">>,
       <<Obj("ndarray", {}, New(1), "uint8"),
         Obj("accImage", {}, New(1), "uint8"),
         Obj("Image", {New(1), New(2)}, NoMem, "-")>>,
       New(3))

\* Image._from_acc wraps an existing acc image.
FromAcc(x) ==
  Call(<<IF heap[x].kind # "accImage" THEN "TypeError" ELSE "OK">>,
       <<Obj("Image", {x}, NoMem, "-")>>,
       New(1))

\* numpy() of an Image or a Tensor: np.asarray over an ObjectWrapper that
\* keeps only the __array_interface__ dict, so the array views the acc
\* object's memory and references nothing (the ObjectWrapper it does
\* reference holds no object and is left out).
View(w) == Obj("ndarray", {}, heap[Inner(w)].mem, heap[Inner(w)].dtype)

ImageNumpy(i) == Return(<<View(i)>>, New(1))

\* Image.torch: torch.from_numpy over numpy(); the tensor references the view.
ImageTorch(i) ==
  Return(<<View(i), Obj("torch", {New(1)}, heap[Inner(i)].mem, heap[Inner(i)].dtype)>>, New(2))

\* Image.pillow: PIL.Image.fromarray copies the numpy() view (mode RGB);
\* the view dies with the call and is left out.
ImagePillow(i) == Return(<<Obj("pil", {}, New(1), "uint8")>>, New(1))

\* Mutant: the new wrapper's _inner is set to the wrapper itself.
DerivedOffByOne(i) == <<Obj("accImage", {}, New(1), "uint8"), Obj("Image", {New(2)}, NoMem, "-")>>

\* clone, crop and resize: the acc kernel allocates a new image.
Derived(i) == <<Obj("accImage", {}, New(1), "uint8"), Obj("Image", {New(1)}, NoMem, "-")>>

ImageClone(i) == Return(Derived(i), New(2))

ImageCrop(i) == Return(Derived(i), New(2))

\* resize checks len(size) == _RESIZED_SIZE_LEN first.
ImageResize(i, sizeLen) ==
  Call(<<IF sizeLen # 2 THEN "ValueError" ELSE "OK">>, Derived(i), New(2))

\* to_tensor: a new acc tensor in a Tensor().
ImageToTensor(i) ==
  Return(<<Obj("accTensor", {}, New(1), "uint8"), Obj("Tensor", {New(1)}, NoMem, "-")>>, New(2))

\* get_inner hands the acc image to the caller.
GetInner(i) ==
  /\ roots' = roots \cup {Inner(i)}
  /\ last' = "OK"
  /\ UNCHANGED heap

\* video_decode (video_wrapper.py): both arguments go through _ensure_bytes,
\* then each decoded acc frame, which owns its pixels, is wrapped by
\* Image._from_acc (one frame here).
VideoDecode(path, device) ==
  Call(<<EnsureBytes(path), EnsureBytes(device)>>,
       <<Obj("accImage", {}, New(1), "uint8"), Obj("Image", {New(1)}, NoMem, "-")>>,
       New(2))

-----------------------------------------------------------------------------
(* mm.Tensor (tensor_wrapper.py).                                          *)

\* Tensor(): an empty acc tensor, which owns no memory.
TensorInit ==
  Return(<<Obj("accTensor", {}, NoMem, "-"), Obj("Tensor", {New(1)}, NoMem, "-")>>, New(2))

\* Tensor.from_numpy: the acc tensor shares the array's memory; the
\* wrapper (__slots__ = ("_inner",)) keeps only the acc tensor.
TensorFromNumpy(a) ==
  Call(<<NumpyCheck(a, TensorDTypes)>>,
       <<Obj("accTensor", {}, heap[a].mem, heap[a].dtype), Obj("Tensor", {New(1)}, NoMem, "-")>>,
       New(2))

\* Tensor.from_torch: from_numpy over torch_tensor.numpy(); that view, and
\* with it the reference to the torch tensor, dies when the call returns
\* (it is left out).
TensorFromTorch(t) ==
  Call(<<TorchCheck(t, TensorDTypes)>>,
       <<Obj("accTensor", {}, heap[t].mem, heap[t].dtype), Obj("Tensor", {New(1)}, NoMem, "-")>>,
       New(2))

TensorNumpy(x) == Return(<<View(x)>>, New(1))

TensorTorch(x) ==
  Return(<<View(x), Obj("torch", {New(1)}, heap[Inner(x)].mem, heap[Inner(x)].dtype)>>, New(2))

\* clone and normalize (method): the acc kernel allocates the result.
TensorClone(x) ==
  Return(<<Obj("accTensor", {}, New(1), heap[Inner(x)].dtype), Obj("Tensor", {New(1)}, NoMem, "-")>>, New(2))

TensorNormalize(x) ==
  Return(<<Obj("accTensor", {}, New(1), "float32"), Obj("Tensor", {New(1)}, NoMem, "-")>>, New(2))

\* The module function normalize(src, ...): rejects anything but a Tensor,
\* then fills a new acc.Tensor().
Normalize(src) ==
  Call(<<IF heap[src].kind # "Tensor" THEN "ValueError" ELSE "OK">>,
       <<Obj("accTensor", {}, New(1), "float32"), Obj("Tensor", {New(1)}, NoMem, "-")>>,
       New(2))

-----------------------------------------------------------------------------
(* load_audio (audio_wrapper.py).                                          *)

\* A directory entry or file: its name as _ensure_bytes sees str(path)
\* ("str", or "surrogate" when the file system name is not UTF-8), its
\* suffix, is_file(), and whether acc can decode it.
IsWav(e) == e.suffix \in {".wav", ".WAV"}

\* _normalize_audio_inputs: the error, or the wav files and whether the
\* input was a single file. A directory keeps its regular .wav entries
\* (sorted; the order does not matter here); a list is checked item by
\* item.
ItemCheck(it) ==
  CASE it.kind # "str"   -> "TypeError"
    [] ~it.entry.isfile  -> "ValueError"
    [] ~IsWav(it.entry)  -> "ValueError"
    [] OTHER             -> "OK"

NormalizeAudioInputs(in) ==
  LET Res(e, ps, single) == [err |-> e, paths |-> ps, single |-> single]
      wavs == SelectSeq(in.entries, LAMBDA e : e.isfile /\ IsWav(e))
  IN  CASE in.kind = "dir" ->
             IF wavs = <<>> THEN Res("ValueError", <<>>, FALSE) ELSE Res("OK", wavs, FALSE)
        [] in.kind = "file" ->
             IF IsWav(in.entry) THEN Res("OK", <<in.entry>>, TRUE) ELSE Res("ValueError", <<>>, TRUE)
        [] in.kind = "missing" -> Res("ValueError", <<>>, TRUE)
        [] in.kind = "list" ->
             IF in.items = <<>> THEN Res("ValueError", <<>>, FALSE)
             ELSE LET e == FirstError([i \in DOMAIN in.items |-> ItemCheck(in.items[i])])
                  IN  IF e # "OK" THEN Res(e, <<>>, FALSE)
                      ELSE Res("OK", [i \in DOMAIN in.items |-> in.items[i].entry], FALSE)
        [] OTHER -> Res("TypeError", <<>>, FALSE)

\* load_audio: normalise the inputs, check sr (True is an int), encode
\* each path with _ensure_bytes, and let acc decode them into new acc
\* tensors (any failure is re-raised as RuntimeError). Each acc tensor is
\* wrapped by object.__new__(Tensor); the caller binds the Tensors.
LoadAudio(in, sr) ==
  LET n == NormalizeAudioInputs(in)
      ps == n.paths
      k == Len(ps)
      e == FirstError(<<n.err,
             IF sr = "zero" THEN "ValueError" ELSE "OK",
             FirstError([i \in DOMAIN ps |-> EnsureBytes(ps[i].name)]),
             IF \E i \in DOMAIN ps : ~ps[i].decodes THEN "RuntimeError" ELSE "OK">>)
  IN  IF e # "OK" THEN Raise(e)
      ELSE ReturnAll([j \in 1..2 * k |-> IF j % 2 = 1 THEN Obj("accTensor", {}, New(j), "float32")
                                        ELSE Obj("Tensor", {New(j - 1)}, NoMem, "-")],
                     {New(2 * i) : i \in 1..k})

-----------------------------------------------------------------------------
(* The caller: makes inputs, calls the API on what it holds, drops names.  *)

NewArray(in) ==
  Return(<<[Obj("ndarray", {}, New(1), in.dtype) EXCEPT !.contig = in.contig]>>, New(1))

NewTorch(in) ==
  Return(<<[Obj("torch", {}, New(1), in.dtype) EXCEPT !.contig = in.contig, !.dev = in.dev]>>, New(1))

NewPillow(m) == Return(<<[Obj("pil", {}, New(1), "uint8") EXCEPT !.mode = m]>>, New(1))

\* The caller's variable goes out of scope or is rebound.
Drop(o) ==
  /\ roots' = roots \ {o}
  /\ heap' = Collect(heap, roots')
  /\ UNCHANGED last

Init ==
  /\ heap = <<>>
  /\ roots = {}
  /\ last = "OK"

Held(k) == {o \in roots : heap[o].kind = k}

Next ==
  \/ \E in \in ArrayInputs : NewArray(in)
  \/ \E in \in TorchInputs : NewTorch(in)
  \/ \E m \in PillowModes : NewPillow(m)
  \/ \E o \in roots : Drop(o)
  \/ ImageInit
  \/ \E in \in AudioInputs, sr \in SrArgs : LoadAudio(in, sr)
  \/ TensorInit
  \/ \E p, d \in BytesArgs : Open(p, d) \/ VideoDecode(p, d)
  \/ \E o \in roots, d \in BytesArgs :
       FromNumpy(o, d) \/ FromTorch(o, d)
  \/ \E o \in roots :
       FromPillow(o) \/ FromAcc(o) \/ TensorFromNumpy(o) \/ TensorFromTorch(o) \/ Normalize(o)
  \/ \E i \in Held("Image") :
       \/ ImageNumpy(i) \/ ImageTorch(i) \/ ImagePillow(i) \/ ImageClone(i)
       \/ ImageCrop(i) \/ ImageToTensor(i) \/ GetInner(i)
       \/ \E n \in {2, 3} : ImageResize(i, n)
  \/ \E x \in Held("Tensor") :
       TensorNumpy(x) \/ TensorTorch(x) \/ TensorClone(x) \/ TensorNormalize(x)

Spec == Init /\ [][Next]_vars

-----------------------------------------------------------------------------
(* Properties.                                                             *)

Kinds == {"ndarray", "torch", "pil", "accImage", "accTensor", "Image", "Tensor", "freed"}

Results == {"OK", "TypeError", "ValueError", "RuntimeError", "UnicodeEncodeError"}

TypeOK ==
  /\ \A o \in DOMAIN heap :
       /\ heap[o].kind \in Kinds
       /\ heap[o].refs \subseteq 1..o - 1
       /\ heap[o].mem \in 0..Len(heap)
  /\ roots \subseteq DOMAIN heap
  /\ last \in Results

\* Whether the memory o reads is still allocated.
MemLive(o) == heap[o].mem = NoMem \/ heap[o].mem \in Alive

\* A wrapper made by a factory allocates its acc object just before itself;
\* one made by _from_acc wraps an acc object the caller already held.
MadeInner(w) == Inner(w) = w - 1

\* Image.from_numpy, from_torch and from_pillow store the source array on
\* the wrapper because the acc image reads its memory: whatever the caller
\* drops, in any order, a live Image that made its acc image reads freed
\* memory only when an array it keeps already did (a dangling view).
ImageKeepsSource ==
  \A w \in Alive :
    heap[w].kind = "Image" /\ MadeInner(w) /\ ~MemLive(Inner(w)) =>
      \E a \in Closure(heap, {w}) : heap[a].kind = "ndarray" /\ ~MemLive(a)

\* No live object reads freed memory: every zero-copy alias (an acc object
\* over a caller's array, an array returned by numpy()) is kept alive no
\* longer than the memory it reads.
NoDanglingRead == \A o \in Alive : MemLive(o)

====
