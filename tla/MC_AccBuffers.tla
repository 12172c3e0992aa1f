--------------------------- MODULE MC_AccBuffers ---------------------------
(* Inputs for checking AccBuffers: values the wrappers accept and values  *)
(* they reject.                                                           *)
EXTENDS AccBuffers

\* A uint8 array both wrappers accept, a float32 one only Tensor accepts,
\* and a non-contiguous one.
MCArrayInputs ==
  {[dtype |-> "uint8", contig |-> TRUE], [dtype |-> "float32", contig |-> TRUE],
   [dtype |-> "uint8", contig |-> FALSE]}

\* A CPU uint8 tensor, and one failing the device check.
MCTorchInputs ==
  {[dtype |-> "uint8", contig |-> TRUE, dev |-> "cpu"],
   [dtype |-> "uint8", contig |-> TRUE, dev |-> "npu"]}

Wav == [name |-> "str", suffix |-> ".wav", isfile |-> TRUE, decodes |-> TRUE]
Entry(e) == [kind |-> "str", entry |-> e]

\* load_audio's inputs: a .wav file; a .WAV file with an undecodable name;
\* a .mp3 file; a corrupt .wav; a directory holding a .wav, a subdirectory
\* named x.wav and a .mp3; a directory with no .wav; lists of two .wav
\* files, of a .wav and a missing file, and of a non-str; an object of
\* another type.
MCAudioInputs ==
  {[kind |-> "file", entry |-> Wav],
   [kind |-> "file", entry |-> [Wav EXCEPT !.name = "surrogate", !.suffix = ".WAV"]],
   [kind |-> "file", entry |-> [Wav EXCEPT !.suffix = ".mp3"]],
   [kind |-> "file", entry |-> [Wav EXCEPT !.decodes = FALSE]],
   [kind |-> "dir", entries |-> <<Wav, [Wav EXCEPT !.isfile = FALSE],
                                  [Wav EXCEPT !.suffix = ".mp3"]>>],
   [kind |-> "dir", entries |-> <<[Wav EXCEPT !.suffix = ".mp3"]>>],
   [kind |-> "list", items |-> <<Entry(Wav), Entry(Wav)>>],
   [kind |-> "list", items |-> <<Entry(Wav), Entry([Wav EXCEPT !.isfile = FALSE])>>],
   [kind |-> "list", items |-> <<[kind |-> "other"]>>],
   [kind |-> "other"]}

=============================================================================
