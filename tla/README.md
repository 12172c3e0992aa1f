# TLA+ models of MultimodalSDK

This directory holds TLA+ models of the Python parts of the repository. It also holds the TLC configurations that check them and PROJECT.json. PROJECT.json lists the components, the runs, the mutants, which source lines each definition models, the findings and the hazards.

## The system

**accdata** (`src/AccSDK/acc_data/src/python/accdata`) is a graph-building data pipeline. Parts of it live in C++ that is not in this repository.

- **Node registry** (`pipeline.py`). `Pipeline._current` is a class attribute; `with pipe:` sets it, and `__exit__` leaves it alone. Each builder ends in `Operator.add_output`, which calls `Pipeline.get_current().create_datanode`. That call increments `self._logical_id` and names the node `name + "_" + str(id)`.
- **Operator spec builder** (`ops/__init__.py`). `external_source`, `to_tensor`, `resize_crop`, `normalize`, `to_tensor_resize_crop_norm` and `qwen_fusion_op` run their own checks, then `add_input`, a chain of `add_arg` calls, and `add_output`. `add_arg` validates each argument before `spec.AddArg`.
- **Pipeline controller** (`pipeline.py`). `__init__` asks the backend for a pipeline handle, which is None when the configuration is out of range. `set_outputs` stores the requested outputs. `build(specs, outputs)` and `run(**inputs)` check the types of their arguments and call the backend.
- **pipeline_def** (`pipeline.py`). The decorator's `create_pipeline` splits the call's keywords with `_distinguish_args` (a name the function takes goes to it, even if `Pipeline.__init__` takes it too; a name only `__init__` takes goes to the pipeline; any other raises AssertionError). It merges them over the decorator's own keywords, constructs the Pipeline and enters `with pipe:`. It then runs the function and, if that returns a tuple, unpacks `(input_nodes, input_op_specs, pipe_outputs)` and calls `build`, re-raising any failure as RuntimeError. If the function returns anything but a tuple, `return pipe, input_nodes` reads an unbound local and raises UnboundLocalError, after the pipeline was created and made current. The model keeps that outcome. No run is spent on it, because a single unit test shows it.
- **Backend** (C++, not in the repository): the graph assembler, the fusion rewriter, the Constructing/Built/Broken state machine and the engine. `Pipeline` takes the assembler's checks and the state machine from `spec.md` §4.3 and §4.5, only so that `build`, `run` and `pipeline_def` have a backend to call; no property is about the backend itself. The fusion rewriter is not modelled (see below).

**mm adapters** (`src/MultimodalSDK/source/mm/adapter`):

- **Qwen2-VL image processor** (`qwen2_vl_preprocessor.py`). `preprocess` runs these steps in order:
  1. It resolves overrides against the constructor's defaults, with `size` replacing the pixel bounds.
  2. It checks mean and std.
  3. It validates the basic parameters.
  4. It converts the raw inputs: `_make_flat_list_of_images` turns images into a flat list, and `_make_batched_videos` turns videos into a list of frame lists (a 3D array, an image or a list of them is one video; a 4D array is one video; other lists are lists of videos). Unsupported types and shapes raise here, before any check.
  5. It checks every image and video frame. The checks run on a thread pool, and the first error in list order wins.
  6. It resizes each input with `_smart_resize` and computes its patch grid.
- **InternVL2 preprocessor** (`internvl2_preprocessor.py`). `preprocess_image` checks its arguments. It then chooses the tile grid whose aspect ratio is closest to the image's, resizes, crops the tiles and adds an optional thumbnail.

**mm.acc wrappers** (`src/MultimodalSDK/source/mm/acc/wrapper`). `mm.Image` and `mm.Tensor` are Python objects with `__slots__` over a C++ acc image or tensor, which is not in the repository. The factories are `Image.open`, `from_numpy`, `from_torch`, `from_pillow`, `_from_acc`, `video_decode`, `Tensor.from_numpy` and `from_torch`. Each one checks its arguments and builds an acc object. When that object reads memory the caller owns (a numpy array, a torch tensor), the wrapper may keep a reference to it. The conversions `numpy()`, `torch()` and `pillow()` go the other way: an `ObjectWrapper` exposes the acc object's `__array_interface__`, and numpy builds a view over it. The transforms `clone`, `crop`, `resize`, `to_tensor` and `normalize` allocate new acc objects. The question is lifetime: which Python object keeps alive the memory an acc object reads. Two facts are taken from the tests rather than from code. First, acc `from_numpy` shares the array's memory: `test_py_tensor.py` reads the source address back. Second, it holds no Python reference to the array.

`load_audio` (`audio_wrapper.py`) normalises its input (one file, a directory's regular `.wav` files, or a list of paths), checks `sr`, encodes each path, and has acc decode the files into new acc tensors, each wrapped in a `Tensor`.

**Logger** (`src/MultimodalSDK/source/mm/comm/log.py`). `_Logger` holds a level (`_min_level`) and a callback (`_log_callback`). The adapters and patchers log through `_Logger.warn`/`info`/`debug`. `_log` compares the record's level with `_min_level`, then reads the callback and calls it. The C++ library filters its own records with the level it was registered with. It passes the rest to a `LogCallBacker` whose `log` is `_acc_log_callback`, which decodes the record and calls the same Python callback. `register_log_conf(min_level, callback)` makes three writes in turn: the Python callback, the Python level, then the C++ level. `mm/__init__.py` calls it with INFO at import. Python threads (the Qwen2-VL check pool, vLLM workers) and C++ threads log while a caller may reconfigure.

The vLLM patchers, the PyTorch plugin and `setup.py` hold no state worth a model. PROJECT.json lists each one with the reason.

## Modules

| Module | Models | State | Actions |
|---|---|---|---|
| `NodeRegistry` | `_current`, `__init__`'s counter, `__enter__`/`__exit__`, `add_output` → `create_datanode` | `current`, `created`, `logicalId`, per-thread `scope` (with-block stack), `pending` (an `add_output` part-way through), `specs` (the OpSpecs a thread collected per pipeline), `issued` (names per pipeline), `err` | `NewPipeline`, `Enter`, `Exit`, `OpRejected` (a builder raising before `add_output`), `AddOutputNoCurrent`, and `BeginAddOutput` / `StoreLogicalId` / `FinishAddOutput` (the load, the store and the re-read of `_logical_id`, each a separate bytecode step another thread can run between) |
| `Pipeline` (EXTENDS `NodeRegistry`) | `build`, `run`, `set_outputs`, `_set_backend_pipeline`, `pipeline_def`; the backend from the spec | `handle`, `outputsSet`, `state`, `graph`, `engineRuns`, `defining` (a `create_pipeline` whose function body is running, with its with-block depth), `returned` | `Construct`, `SetOutputs`, `Build`, `Run`, `DefRejected`, `DefBegin`, `DefEnd`; between `DefBegin` and `DefEnd` the caller's registry steps are the function's body and may not leave its with-block. `BuildCode`/`BackendBuild`/`BackendRun` are spec-modelled. `build`'s `output_data_nodes` may be None, its default |
| `OperatorArg` | `Operator.add_arg` and the six builders | `phase`, `todo` (the `add_arg` calls left), `args` (what `spec.AddArg` received), `outcome` | `Begin(b)` (the builder's checks and `add_input`), `AddArgStep`, `AddOutput`, `Return` |
| `Qwen2VLPreprocess` | the processor's `__init__`, `preprocess` and its helpers, including the input conversion; a converted frame is its height, width and `ImageFormat` (an mm.Image keeps its own, ndarrays become RGB) | `inst` (the constructed processor), `last` (the outcome of the call in progress) | `Call`, `Return` |
| `InternVL2Preprocess` | `preprocess_image` and its helpers | `last` | `Call`, `Return` |
| `Logger` | `log.py` and the C++ logger it registers | `minLevel`, `logCallback`, `cppLevel`, `cfg` (each configuring thread's step in `register_log_conf`), `py` and `cpp` (a record past its level check, per thread), `calls` (bounded), `reg` (the level each callback was registered with), `delivered` (records handed to a callback) | `RegisterLogConf` (the checks and the callback write), `SetMinLevel`, `RegisterCpp`, `Log` (the level check), `LogCall` (the callback read and call), `CppLog` (C++ filtering, as `test_py_log.py` shows it), `AccLogCallback` |
| `AccBuffers` | `image_wrapper.py`, `tensor_wrapper.py`, `video_wrapper.py`, `util.py` | `heap` (a sequence of objects, each with `kind`, `refs` (the objects it holds a reference to), `mem` (the object owning the memory it reads) and `dtype`), `roots` (the caller's variables), `last` (the outcome of the last call) | one action per public method or factory (`Open`, `FromNumpy`, `FromTorch`, `FromPillow`, `FromAcc`, `VideoDecode`, `ImageNumpy`, `ImageTorch`, `ImagePillow`, `ImageClone`, `ImageCrop`, `ImageResize`, `ImageToTensor`, `GetInner`, `TensorFromNumpy`, `TensorFromTorch`, `TensorNumpy`, `TensorTorch`, `TensorClone`, `TensorNormalize`, `Normalize`, `ImageInit`, `TensorInit`, `LoadAudio`); the caller's `NewArray`, `NewTorch`, `NewPillow` and `Drop` |

Python values are abstracted to what the code tests:

- In OperatorArg, a value is None, a scalar or a list of scalars. Each scalar has a type, a number and, for a str, its characters, so `in` on a str is a real substring test. `bool` counts as an instance of `int`, as in Python.
- In Qwen2VLPreprocess, mean and std values are tagged `number`, `list` or `other`, which is what `isinstance` sees.

`_smart_resize` is computed in exact integer arithmetic:

- `round` is round-half-even.
- The `floor` and `ceil` of the `sqrt`-based quotients are the largest or least `k` with `(k*factor)^2 * other` compared to `side * bound`.
- When the real quotient is exactly an integer, the float result may fall on either side, so the model allows both neighbours.

InternVL2 aspect ratios are compared as exact fractions. `_get_target_ratios` sorts a Python `set` by tile count only, so the model lets grids with equal counts come in any order.

The two stateless processors are specified as a caller making one call at a time. `Call` picks every argument combination from the MC sets. `Return` hands back the result.

`AccBuffers` models CPython reference counting as reachability. An object is alive while it can be reached from `roots` through `refs` (`Closure`, a recursive fixpoint). After every call and every `Drop`, `Collect` replaces each unreachable object with a `freed` tombstone, so its memory is gone. A call checks its arguments in the code's order: `_ensure_bytes` (str with a surrogate, a non-bytes value, an embedded NUL), then `isinstance`, dtype, contiguity and device. The first failing check picks the exception, and a failing call leaves the heap as it was. A successful call appends the objects it allocates and roots its result. A temporary it made, such as `from_torch`'s ndarray view or `numpy()`'s `ObjectWrapper`, then lives only as long as something refers to it.

## Runs

| Run | cfg | Expect | Shows |
|---|---|---|---|
| registry_nested_names | NodeRegistry_nested_names.cfg | violation | After an inner `with` exits, the outer pipeline's operators are named by the inner pipeline's counter. The outer spec list then holds two equal names. |
| registry_threads | NodeRegistry_threads.cfg | violation | Two threads interleave `_logical_id = _logical_id + 1`, and one pipeline issues a name twice. |
| pipeline_lifecycle | Pipeline_lifecycle.cfg | pass | Whatever sequence of builder, build, run and `pipeline_def` calls is made, failing builds and a None output list included, `create_pipeline` returns a pipeline only when the backend accepted its graph. |
| qwen_resize | Qwen2VL_resize.cfg | pass | `_smart_resize` lands on the correct side of whichever bound the rounded size broke. |
| qwen_constraints | Qwen2VL_ResizedWithinConstraints.cfg | violation | An accepted image is resized outside the `[min_pixels, max_pixels]` that `ImageConstraints` documents. The ceil branch turns 28×29 (min 3136, max 3137) into 56×84, and the floor branch gives 2000×28 (max 3137) width 0. Whether acc's resize then raises on the 0 side is outside the repository, so the model allows both; the 28×29 case needs neither. |
| internvl_tiling | InternVL2_tiling.cfg | pass | The tiles partition the resized image, the chosen grid is a closest one, and the tile count stays within `min_num..max_num`. This holds for every tie order. |
| operator_builders | OperatorArg_builders.cfg | pass | Recorded arguments have their declared count and type. |
| logger_reconfigure | Logger_reconfigure.cfg | pass | One thread calls `register_log_conf` (with valid levels, None and a bare int) while a Python thread and a C++ thread log. Every step keeps the logger's state well formed, and the run fires every action of the Logger. |
| logger_two_configurers | Logger_LevelsAgreeAtRest.cfg | violation | Two threads call `register_log_conf(DEBUG, None)` and `register_log_conf(ERROR, cb)`. Both return with `cb` installed, `_min_level` at ERROR and the C++ logger at DEBUG, so `cb` receives C++ DEBUG records from then on. |
| logger_levels | Logger_DeliveredAtLevel.cfg | violation | A record passes the old INFO check, `register_log_conf(ERROR, cb)` installs `cb`, and `cb` then receives the INFO record. This happens on both the Python path and the C++ path. |
| buffers_lifetime | AccBuffers_lifetime.cfg | pass | Take any sequence of array, tensor and Pillow allocations, wrapper calls, conversions and drops, with up to five heap objects. An Image a factory made then never reads freed memory unless it keeps an array that already does (`from_torch` over a view of a `numpy()` result, for instance). So `from_numpy`, `from_torch` and `from_pillow` keep their source alive. |
| buffers_dangling | AccBuffers_NoDanglingRead.cfg | violation | `t = Tensor.from_numpy(a); del a` leaves `t` reading freed memory: the Tensor keeps only the acc tensor, which does not own the array's memory. |

Every property of a passing run has a mutant in PROJECT.json: a plausible bug in the mapped definition that TLC then catches. The findings each violation run shows are also in PROJECT.json.

Three disagreements met while modelling have no run, because a single call shows each one. The models keep the code's behaviour, and PROJECT.json lists them as hazards:

- `set_outputs(*outputs)` stores a tuple that `build` rejects.
- `add_arg` raises on a scalar where spec §4.2 broadcasts it.
- `_preprocess_images_and_videos` drops the images when videos are also given.

## Bounds

- **NodeRegistry and Pipeline**:
  - 1 thread and 1 pipeline for the lifecycle run. One pipeline is enough because each pipeline has its own counter, and a second one (the nesting case) only changes which counter names an operator, which the nested-names run checks with 2 pipelines.
  - 2 threads with one pipeline each for the race.
  - `MaxOps = 3` operators per pipeline, enough for two names from one base to meet.
  - `MaxDepth = 2` nesting for the `_current` leak, and 1 in the lifecycle run. There the single with-block is the one `create_pipeline` opens, or one the caller opens.
  - `MaxRuns = 2`, so a run can succeed and then fail.
  - The base names are `x` and `x_1`, so a user name can imitate a generated one.
  - Pipelines are symmetric in the nested-names run.
- **Qwen2VL**:
  - Frames include square, nearly square, tall, wide, too small and too thin for patch 5. Each comes as an RGB and as a BGR mm.Image, so `_check_image`'s format check both passes and fails.
- Raw video inputs are an image, a 4D array of 3 frames and of 0 frames, a 4-channel array, a list of frames, an empty list, lists of videos (one with an empty video, one with an unsupported element), a list of frames with a 4-channel one, and an unsupported object, so every branch of the conversion helpers is taken.
  - Pixel overrides sit on both sides of the lower bound (99, 100, 101) and of `min < max` (3136, 3137).
  - `size` can be partial or complete.
  - Mean and std can be a number, a wrong length, a non-number or another type.
  - Every product `_smart_resize` forms stays below 2^31, as an ASSUME checks.
- **InternVL2**:
  - `max_num` ranges up to 6, plus 33 for the range check; `min_num` takes 0, 1, 2, 4, 6 and 33.
  - Images are square, 5:4 (equidistant between 2×1 and 1×2), 3:1, tall, and too small.
  - That is enough for exact ties between grids and for both tie-break outcomes.
- **pipeline_def**: `Pipeline.__init__`'s four parameters; a decorated function taking `batch_size` and `mean`; a decorator `num_threads`. The call keywords are none, `queue_depth` in and out of range, a shadowed out-of-range `batch_size`, a function argument, and an unknown name.
- **AccBuffers**: `MaxObjects = 5` heap objects, counting tombstones. That is enough for `from_torch`'s chain (torch tensor, view, acc image, Image) plus one caller drop, and for a `numpy()` view fed back into a factory. The inputs are arrays of uint8 and float32, contiguous or not; torch tensors on cpu and npu; Pillow images in RGB and L; and path and device arguments given as bytes, an int or a str with a surrogate. Every check therefore both passes and fails. Six objects take four and a half minutes.
- **Logger**: one configuring thread with two calls, and one Python and one C++ logging thread with two records each. The requests are (ERROR, a user callback), (DEBUG, None), and the rejected None and bare int. Records come at every level, and C++ messages are UTF-8 or not. The model is small (195k states in 3 s) because each thread's step is a single read or write. The two-configurer run gives each configuring thread one call, which is all the race needs.
- **load_audio** (in AccBuffers): one input for each branch of `_normalize_audio_inputs`: a .wav, a .WAV with a non-UTF-8 name, a .mp3, a corrupt .wav, a directory with a .wav, a subdirectory and a .mp3, a directory without a .wav, lists of two files, of a file and a missing path, and of a non-str, and an object. `sr` is None or 0; `True` takes the same path as a positive int. Audio makes the lifetime run about 85 s.
- **OperatorArg**: each argument set has a valid value, None, and a value reaching each check of `add_arg` and the crop/resize checks. These include a wrong length, a bool among ints, a bare scalar, a substring of an allowed str, and crops larger than the resize in either dimension.
- **NodeRegistry**: `Enter` lets a thread enter a pipeline it is already inside, as `__enter__` does.

## Fairness

No module assumes fairness. The Logger's threads stop when their call bounds are spent, so its runs disable deadlock checking. Every step there is a call the user program makes or does not make, and nothing in the code waits for anything. The backend engine's worker threads are outside the repository.

## Not modelled

- The fusion rewriter. It runs inside the C++ backend's Build, which is not in the repository; `pipeline.py` only passes `auto_fuse` to `new_instance`. Spec §9 describes emitting a fresh compacted list as a design option, not what the backend does, so a model of it would check a design of its own rather than this code. Whether the fused operator accepts the builders' arguments (it allows only bilinear interpolation) is listed as a hazard.
- Properties of the backend's state machine (Broken is terminal, Build is one-shot). `Pipeline` keeps the spec's state machine so that the Python calls have something to call, but `pipeline.py` makes no check of its own that such a property would test.
- Pixel kernels and the patch reshaping. Only sizes and grids are modelled.
- Float rounding in InternVL2's aspect-ratio comparison. The model uses exact fractions; PROJECT.json records this as a hazard.
- In `mm.acc`: the property getters; `Tensor.set_format`; and the checks the C++ kernels make themselves (sizes, devices, formats). The `torch`/`PIL` ImportError paths are also left out.
- In the logger: the text `_default_log` prints (`_filter_invalid_chars`, the timestamp); the callback is a name in the model. The C++ side of a failed `_acc_log_callback`.
- The vLLM patchers (one-shot assignments at import) and the PyTorch plugin (pure data layout).

## Plan

1. Hazards without a property: the frames-or-videos reading of `_make_batched_videos`, InternVL2's float aspect-ratio comparison, the fused operator's argument constraints, keyword shadowing in `pipeline_def`, and the str `choice` of the fused builder.
2. A liveness view of `Pipeline`, and a model of the fusion rewrite, if the backend ever enters the repository.
