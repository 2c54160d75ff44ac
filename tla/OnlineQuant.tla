----------------------------- MODULE OnlineQuant ------------------------------
(***************************************************************************)
(* Online weight quantisation while a model is loaded                      *)
(* (vllm/model_executor/layers/gfx936_online_quant.py, called for every    *)
(* linear layer from model_loader/utils.py), and the linear layers in      *)
(* service afterwards.                                                     *)
(*                                                                         *)
(* Loading is sequential; what makes it delicate is that every call into   *)
(* torch, HIP or the kernel library may raise, at any layer and at any of  *)
(* the six steps that replace a weight.  A benchmark's numbers are         *)
(* abstracted to its decision.                                             *)
(***************************************************************************)
EXTENDS Integers, Sequences, FiniteSets

CONSTANTS
    Layers,         \* the modules with an unquantised linear method
    Shapes,         \* QUANT_SHAPES
    W4MlpShapes,    \* W4_MLP_SHAPES
    ShapeOf,        \* layer -> its shape, or Other
    Other,          \* a shape outside QUANT_SHAPES, or an ineligible layer
    None

Kinds == {"w8", "w4"}
Modes == {"off", "w8", "hybrid_w4"}

\* What FDU_GFX936_QUANT_MODE may be set to.
EnvModes == Modes \cup {"unknown"}

\* What _install_quantized_weight puts into the layer, in this order.
Parts == <<"weight", "gfx936_scale", "quantized", "quant_kind", "quant_m", "quant_k">>
PartNames == {Parts[i] : i \in DOMAIN Parts}

ASSUME QuantAssumption ==
    /\ IsFiniteSet(Layers)
    /\ W4MlpShapes \subseteq Shapes
    /\ Other \notin Shapes
    /\ ShapeOf \in [Layers -> Shapes \cup {Other}]
    /\ None \notin Kinds

VARIABLES
    env_mode,       \* the environment variable
    gfx936,         \* is_gfx936_runtime()
    library,        \* _LOADED_KERNELS is set
    admission,      \* _ADMISSION_CACHE: (shape, kind) -> decision or None
    active,         \* _ACTIVE_LAYER_COUNT
    parameter,      \* layers whose bf16 weight is a parameter
    parts,          \* layer -> part -> the kind it was made for, or None
    todo,           \* layers that named_modules() has still to yield
    pc,             \* where maybe_quantize_gfx936_layer stands
    layer,          \* its argument
    kinds,          \* the candidate kinds it has still to try
    installed,      \* parts put into the layer so far
    benchmarks,     \* (shape, kind) -> decisions of the benchmarks run for it
    forward         \* how the last call of apply computed

envVars == <<env_mode, gfx936>>
layerVars == <<parameter, parts>>
vars == <<envVars, library, admission, active, layerVars, todo, pc, layer, kinds,
          installed, benchmarks, forward>>

\* parse_quant_mode
Mode == IF env_mode \in Modes THEN env_mode ELSE "off"

\* Variant: W8 first.
CandidateKindsW8First(mode, s) ==
    IF mode = "off" \/ s \notin Shapes THEN <<>>
    ELSE IF mode = "hybrid_w4" /\ s \in W4MlpShapes THEN <<"w8", "w4">>
    ELSE <<"w8">>

\* candidate_kinds
CandidateKinds(mode, s) ==
    IF mode = "off" \/ s \notin Shapes THEN <<>>
    ELSE IF mode = "hybrid_w4" /\ s \in W4MlpShapes THEN <<"w4", "w8">>
    ELSE <<"w8">>

Key == <<ShapeOf[layer], kinds[1]>>
NoParts == [p \in PartNames |-> None]

\* is_gfx936_quantized_layer
IsQuantized(l) == parts[l]["quantized"] # None

Init ==
    /\ env_mode \in EnvModes
    /\ gfx936 \in BOOLEAN
    /\ library = FALSE
    /\ admission = [key \in Shapes \X Kinds |-> "none"]
    /\ active = 0
    /\ parameter = Layers
    /\ parts = [l \in Layers |-> NoParts]
    /\ todo = Layers
    /\ pc = "modules"
    /\ layer = None
    /\ kinds = <<>>
    /\ installed = 0
    /\ benchmarks = [key \in Shapes \X Kinds |-> <<>>]
    /\ forward = "none"
-------------------------------------------------------------------------------
(* maybe_quantize_gfx936_layer *)

\* The layer is returned as it is: there is nothing to do, the device is
\* another one, the layer is not eligible, or finding that out has raised (the
\* loading of the kernel library included).
SkipLayer(l) ==
    /\ pc = "modules" /\ l \in todo
    /\ \/ /\ IsQuantized(l) \/ Mode = "off" \/ ~gfx936
          /\ UNCHANGED library
       \/ /\ ~IsQuantized(l) /\ Mode # "off" /\ gfx936
          /\ library' \in {library, TRUE}       \* raised before or after loading it
       \/ /\ ~IsQuantized(l) /\ Mode # "off" /\ gfx936
          /\ ShapeOf[l] = Other
          /\ library' = TRUE
    /\ todo' = todo \ {l}
    /\ UNCHANGED <<envVars, admission, active, layerVars, pc, layer, kinds, installed,
                   benchmarks, forward>>

\* The layer is eligible; the loop over the candidate kinds starts.
StartLayer(l) ==
    /\ pc = "modules" /\ l \in todo
    /\ ~IsQuantized(l) /\ Mode # "off" /\ gfx936
    /\ ShapeOf[l] # Other
    /\ library' = TRUE
    /\ todo' = todo \ {l}
    /\ pc' = "kind"
    /\ layer' = l
    /\ kinds' = CandidateKinds(Mode, ShapeOf[l])
    /\ UNCHANGED <<envVars, admission, active, layerVars, installed, benchmarks, forward>>

\* All kinds were tried.
GiveUpLayer ==
    /\ pc = "kind" /\ kinds = <<>>
    /\ pc' = "modules"
    /\ layer' = None
    /\ UNCHANGED <<envVars, library, admission, active, layerVars, todo, kinds, installed,
                   benchmarks, forward>>

\* The cache says no.
SkipKind ==
    /\ pc = "kind" /\ kinds # <<>>
    /\ admission[Key] \in {"rejected", "error"}
    /\ kinds' = Tail(kinds)
    /\ UNCHANGED <<envVars, library, admission, active, layerVars, todo, pc, layer, installed,
                   benchmarks, forward>>

\* pack_weight
PackWeight ==
    /\ pc = "kind" /\ kinds # <<>>
    /\ admission[Key] \in {"none", "accepted"}
    /\ pc' = IF admission[Key] = "none" THEN "benchmark" ELSE "install"
    /\ UNCHANGED <<envVars, library, admission, active, layerVars, todo, layer, kinds,
                   installed, benchmarks, forward>>

\* benchmark_candidate, and what is done with its decision.
BenchmarkCandidate ==
    /\ pc = "benchmark"
    /\ \E decision \in {"accepted", "rejected"} :
          /\ admission' = [admission EXCEPT ![Key] = decision]
          /\ benchmarks' = [benchmarks EXCEPT ![Key] = Append(@, decision)]
          /\ IF decision = "accepted"
             THEN pc' = "install" /\ UNCHANGED kinds
             ELSE pc' = "kind" /\ kinds' = Tail(kinds)
    /\ UNCHANGED <<envVars, library, active, layerVars, todo, layer, installed, forward>>

\* pack_weight or benchmark_candidate raises: the shape is given up.
ConversionFails ==
    /\ \/ pc = "benchmark"
       \/ pc = "kind" /\ kinds # <<>> /\ admission[Key] \in {"none", "accepted"}
    /\ admission' = [admission EXCEPT ![Key] = "error"]
    /\ pc' = "kind"
    /\ kinds' = Tail(kinds)
    /\ UNCHANGED <<envVars, library, active, layerVars, todo, layer, installed,
                   benchmarks, forward>>
-------------------------------------------------------------------------------
(* _install_quantized_weight *)

\* One of the six assignments; the parameter was removed before the first.
InstallPart ==
    /\ pc = "install" /\ installed < Len(Parts)
    /\ parameter' = parameter \ {layer}
    /\ parts' = [parts EXCEPT ![layer][Parts[installed + 1]] = kinds[1]]
    /\ installed' = installed + 1
    /\ UNCHANGED <<envVars, library, admission, active, todo, pc, layer, kinds, benchmarks,
                   forward>>

\* Variant: the scale stays behind.
UninstallKeepsScale ==
    [parts EXCEPT ![layer] = [p \in PartNames |-> IF p = "gfx936_scale" THEN @[p] ELSE None]]

\* What the exception handler leaves of the parts.
Uninstall == [parts EXCEPT ![layer] = NoParts]

\* An assignment raises: the handler takes everything back and puts the
\* parameter in again, and the caller gives the shape up.
InstallFails ==
    /\ pc = "install" /\ installed < Len(Parts)
    /\ parameter' = parameter \cup {layer}
    /\ parts' = Uninstall
    /\ installed' = 0
    /\ admission' = [admission EXCEPT ![Key] = "error"]
    /\ pc' = "kind"
    /\ kinds' = Tail(kinds)
    /\ UNCHANGED <<envVars, library, active, todo, layer, benchmarks, forward>>

\* The layer is quantised, and the caller returns.
FinishInstall ==
    /\ pc = "install" /\ installed = Len(Parts)
    /\ active' = active + 1
    /\ installed' = 0
    /\ pc' = "modules"
    /\ layer' = None
    /\ kinds' = <<>>
    /\ UNCHANGED <<envVars, library, admission, layerVars, todo, benchmarks, forward>>
-------------------------------------------------------------------------------
\* Variant: an accepted benchmark is taken for a converted layer.
GateOnBenchmarks ==
    /\ pc = "modules" /\ todo = {}
    /\ pc' = IF \/ Mode = "off" \/ ~gfx936
                \/ \E key \in Shapes \X Kinds : benchmarks[key] = <<"accepted">>
             THEN "serving" ELSE "failed"
    /\ UNCHANGED <<envVars, library, admission, active, layerVars, todo, layer, kinds,
                   installed, benchmarks, forward>>

\* require_online_quantization, when all modules were processed.
Gate ==
    /\ pc = "modules" /\ todo = {}
    /\ pc' = IF Mode = "off" \/ ~gfx936 \/ active > 0 THEN "serving" ELSE "failed"
    /\ UNCHANGED <<envVars, library, admission, active, layerVars, todo, layer, kinds,
                   installed, benchmarks, forward>>

\* UnquantizedLinearMethod.apply and quant_linear_impl: a quantised layer
\* computes one row with the GEMV kernel, and several rows, or one if that
\* raises, with a bf16 weight that is rebuilt by a kernel or, if that raises,
\* by torch operations.  An attribute that is missing raises.
Computations(l, rows) ==
    IF ~IsQuantized(l) THEN IF l \in parameter THEN {"bf16"} ELSE {"raised"}
    ELSE IF \E p \in PartNames : parts[l][p] = None THEN {"raised"}
    ELSE {"dequant", "reference"} \cup IF rows = 1 THEN {"gemv"} ELSE {}

Apply(l) ==
    /\ pc = "serving"
    /\ \E rows \in {1, 2} : forward' \in Computations(l, rows)
    /\ UNCHANGED <<envVars, library, admission, active, layerVars, todo, pc, layer, kinds,
                   installed, benchmarks>>

\* Start-up was refused.
Refused == pc = "failed" /\ UNCHANGED vars

LoaderStep ==
    \/ \E l \in Layers : SkipLayer(l) \/ StartLayer(l)
    \/ GiveUpLayer \/ SkipKind \/ PackWeight \/ BenchmarkCandidate \/ ConversionFails
    \/ InstallPart \/ InstallFails \/ FinishInstall
    \/ Gate

Next == LoaderStep \/ (\E l \in Layers : Apply(l)) \/ Refused

Spec == Init /\ [][Next]_vars
-------------------------------------------------------------------------------
(* The layout of a packed weight *)

\* iter_row_chunks: the rows of the chunk that starts at row i * n, of chunks
\* of n rows; chunks start while there are rows.
RowChunk(i, n, rows) == {r \in 0 .. rows - 1 : i * n <= r /\ r < i * n + n}

\* Conversions between the integers of eight bits.
ToInt8(x) == ((x + 128) % 256) - 128
ToUint8(x) == x % 256

\* pack_w4: two values in one byte, computed in int8, the first in the low
\* nibble.
PackPair(low, high) == ToUint8(ToInt8((high % 16) * 16) + (low % 16))

\* _dequantize_weight_reference: the two values of a byte.
Signed(nibble) == IF nibble >= 8 THEN nibble - 16 ELSE nibble
UnpackPair(byte) == <<Signed(byte % 16), Signed(byte \div 16)>>
-------------------------------------------------------------------------------
(* Properties *)

\* What UnquantizedLinearMethod.apply needs of a layer: the bf16 parameter and
\* nothing else, or no parameter and all six parts, made for one kind.
Untouched(l) == l \in parameter /\ parts[l] = NoParts
Converted(l) == l \notin parameter /\ \E k \in Kinds : \A p \in PartNames : parts[l][p] = k

\* Types of the loader's state.
TypeOK ==
    /\ env_mode \in EnvModes /\ gfx936 \in BOOLEAN /\ library \in BOOLEAN
    /\ admission \in [Shapes \X Kinds -> {"none", "accepted", "rejected", "error"}]
    /\ active \in Nat
    /\ parameter \subseteq Layers
    /\ parts \in [Layers -> [PartNames -> Kinds \cup {None}]]
    /\ todo \subseteq Layers
    /\ pc \in {"modules", "kind", "benchmark", "install", "serving", "failed"}
    /\ pc \in {"kind", "benchmark", "install"} => layer \in Layers
    /\ kinds \in {<<>>, <<"w8">>, <<"w4", "w8">>}
    /\ installed \in 0 .. Len(Parts)
    /\ benchmarks \in [Shapes \X Kinds -> Seq({"accepted", "rejected"})]
    /\ forward \in {"none", "bf16", "gemv", "dequant", "reference", "raised"}

\* Every layer can compute at all times, except the one whose weight is being
\* replaced at that moment: an exception at any step of any attempt leaves the
\* layer with its own weight or with a complete quantised one ("failed open"),
\* and no call of apply ever finds a part missing.
LayersUsable ==
    /\ \A l \in Layers : Untouched(l) \/ Converted(l) \/ (pc = "install" /\ l = layer)
    /\ forward # "raised"

\* _ACTIVE_LAYER_COUNT counts exactly the converted layers, so a server that
\* was asked to quantise on gfx936 never starts without having done so.
QuantisedWhenServing ==
    /\ pc # "install" => active = Cardinality({l \in Layers : Converted(l)})
    /\ pc = "serving" /\ Mode # "off" /\ gfx936 => \E l \in Layers : Converted(l)

\* A layer is converted only to a kind that was benchmarked for its shape and
\* accepted, and to W8 where W4 is preferred only after W4 was given up for
\* that shape; and a shape is benchmarked at most once for a kind, however
\* many layers have it and whatever fails.
OnlyAdmittedKinds ==
    /\ \A l \in Layers, k \in Kinds : Converted(l) /\ parts[l]["weight"] = k =>
          /\ benchmarks[<<ShapeOf[l], k>>] = <<"accepted">>
          /\ (k = "w8" /\ Mode = "hybrid_w4" /\ ShapeOf[l] \in W4MlpShapes) =>
                admission[<<ShapeOf[l], "w4">>] \in {"rejected", "error"}
    /\ \A key \in Shapes \X Kinds : Len(benchmarks[key]) <= 1
===============================================================================
