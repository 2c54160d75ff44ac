-------------------------- MODULE OnlineQuantProofs ---------------------------
(***************************************************************************)
(* Proofs about OnlineQuant, for any set of layers and shapes.             *)
(***************************************************************************)
EXTENDS OnlineQuant, FiniteSetTheorems, TLAPS

\* Where the current layer stands while its parts are installed: the first
\* ones are there, for the kind in hand, the others not yet; and it is not
\* counted yet.
InstallInvariant ==
    /\ pc = "install" =>
          /\ kinds # <<>>
          /\ admission[Key] = "accepted"
          /\ installed = 0 => Untouched(layer)
          /\ installed > 0 =>
                /\ layer \notin parameter
                /\ \A i \in 1 .. 6 :
                      parts[layer][Parts[i]] = IF i <= installed THEN kinds[1] ELSE None
          /\ active = Cardinality({l \in Layers : Converted(l)} \ {layer})
    /\ pc # "install" => installed = 0

\* What the loop over the candidate kinds knows.
LoopInvariant ==
    pc \in {"kind", "benchmark", "install"} =>
        /\ layer \notin todo
        /\ ShapeOf[layer] \in Shapes
        /\ pc # "install" => Untouched(layer)
        /\ pc = "benchmark" => kinds # <<>> /\ admission[Key] = "none"
        /\ (Mode = "hybrid_w4" /\ ShapeOf[layer] \in W4MlpShapes) =>
              kinds = <<"w4", "w8">> \/ admission[<<ShapeOf[layer], "w4">>] \in {"rejected", "error"}

\* The cache of decisions against the benchmarks that were run.
CacheInvariant ==
    \A key \in Shapes \X Kinds :
        /\ benchmarks[key] \in {<<>>, <<"accepted">>, <<"rejected">>}
        /\ admission[key] = "none" => benchmarks[key] = <<>>
        /\ admission[key] = "accepted" => benchmarks[key] = <<"accepted">>

IInv ==
    /\ TypeOK
    /\ LayersUsable
    /\ QuantisedWhenServing
    /\ OnlyAdmittedKinds
    /\ InstallInvariant
    /\ LoopInvariant
    /\ CacheInvariant
    /\ \A l \in todo : Untouched(l)
    /\ \A l \in Layers : Converted(l) => ShapeOf[l] \in Shapes
-------------------------------------------------------------------------------
\* The six parts, and that their names differ.
LEMMA PartsFacts ==
    /\ Len(Parts) = 6
    /\ PartNames = {"weight", "gfx936_scale", "quantized", "quant_kind", "quant_m", "quant_k"}
    /\ \A p \in PartNames : \E i \in 1 .. 6 : p = Parts[i]
    /\ \A i \in 1 .. 6 : Parts[i] \in PartNames
    /\ \A i, j \in 1 .. 6 : Parts[i] = Parts[j] => i = j
<1>1. /\ Parts[1] = "weight" /\ Parts[2] = "gfx936_scale" /\ Parts[3] = "quantized"
      /\ Parts[4] = "quant_kind" /\ Parts[5] = "quant_m" /\ Parts[6] = "quant_k"
      /\ Len(Parts) = 6 /\ DOMAIN Parts = 1 .. 6
  BY DEF Parts
<1>2. \A i \in 1 .. 6 : i \in {1, 2, 3, 4, 5, 6}
  OBVIOUS
<1>3. \A i \in 1 .. 6 : Parts[i] \in PartNames
  BY <1>1 DEF PartNames
<1>4. PartNames = {"weight", "gfx936_scale", "quantized", "quant_kind", "quant_m", "quant_k"}
  BY <1>1, <1>2 DEF PartNames
<1>5. \A p \in PartNames : \E i \in 1 .. 6 : p = Parts[i]
  BY <1>1 DEF PartNames
<1>6. \A i, j \in 1 .. 6 : Parts[i] = Parts[j] => i = j
  BY <1>1, <1>2
<1> QED BY <1>1, <1>3, <1>4, <1>5, <1>6

\* The lists of candidate kinds the loop goes through.
LEMMA KindsFacts ==
    ASSUME TypeOK, kinds # <<>>
    PROVE  /\ kinds[1] \in Kinds
           /\ kinds = <<"w8">> \/ kinds = <<"w4", "w8">>
           /\ kinds = <<"w8">> => Tail(kinds) = <<>> /\ kinds[1] = "w8"
           /\ kinds = <<"w4", "w8">> => Tail(kinds) = <<"w8">> /\ kinds[1] = "w4"
           /\ Tail(kinds) \in {<<>>, <<"w8">>}
           /\ Tail(kinds) # <<"w4", "w8">>
<1>1. kinds = <<"w8">> \/ kinds = <<"w4", "w8">>
  BY DEF TypeOK
<1>2. Tail(<<"w8">>) = <<>>
  OBVIOUS
<1>3. Tail(<<"w4", "w8">>) = <<"w8">>
  OBVIOUS
<1>4. <<>> # <<"w4", "w8">> /\ <<"w8">> # <<"w4", "w8">>
  OBVIOUS
<1>5. kinds[1] \in Kinds
  BY <1>1 DEF Kinds
<1>6. CASE kinds = <<"w8">>
  <2>1. kinds[1] = "w8" /\ Tail(kinds) = <<>> /\ kinds # <<"w4", "w8">>
    BY <1>2, <1>4, <1>6
  <2> QED BY <2>1, <1>4, <1>5, <1>6
<1>7. CASE kinds = <<"w4", "w8">>
  <2>1. kinds[1] = "w4" /\ Tail(kinds) = <<"w8">> /\ kinds # <<"w8">>
    BY <1>3, <1>4, <1>7
  <2> QED BY <2>1, <1>4, <1>5, <1>7
<1> QED BY <1>1, <1>6, <1>7

\* The loader starts in the invariant.
LEMMA InitInv == Init => IInv
<1> SUFFICES ASSUME Init PROVE IInv
  OBVIOUS
<1> USE QuantAssumption
<1>1. \A l \in Layers : Untouched(l) /\ ~Converted(l)
  BY PartsFacts DEF Init, Untouched, Converted, NoParts, Kinds
<1>2. TypeOK
  <2>1. benchmarks \in [Shapes \X Kinds -> Seq({"accepted", "rejected"})]
    BY DEF Init
  <2>2. parts \in [Layers -> [PartNames -> Kinds \cup {None}]]
    BY DEF Init, NoParts
  <2>3. admission \in [Shapes \X Kinds -> {"none", "accepted", "rejected", "error"}]
    BY DEF Init
  <2>4. installed \in 0 .. Len(Parts) /\ active \in Nat
    BY PartsFacts DEF Init
  <2>5. kinds \in {<<>>, <<"w8">>, <<"w4", "w8">>}
    BY DEF Init
  <2>6. parameter \subseteq Layers /\ todo \subseteq Layers
    BY DEF Init
  <2>7. /\ env_mode \in EnvModes /\ gfx936 \in BOOLEAN /\ library \in BOOLEAN
        /\ pc = "modules" /\ forward = "none"
    BY DEF Init
  <2> QED BY <2>1, <2>2, <2>3, <2>4, <2>5, <2>6, <2>7 DEF TypeOK
<1>3. LayersUsable
  BY <1>1 DEF LayersUsable, Init
<1>4. QuantisedWhenServing
  <2>1. {l \in Layers : Converted(l)} = {}
    BY <1>1
  <2> QED BY <2>1, FS_EmptySet DEF QuantisedWhenServing, Init
<1>5. CacheInvariant
  BY DEF CacheInvariant, Init
<1>6. OnlyAdmittedKinds
  BY <1>1 DEF OnlyAdmittedKinds, Init
<1>7. InstallInvariant /\ LoopInvariant
  BY DEF InstallInvariant, LoopInvariant, Init
<1>8. \A l \in todo : Untouched(l)
  BY <1>1 DEF Init
<1> QED BY <1>1, <1>2, <1>3, <1>4, <1>5, <1>6, <1>7, <1>8 DEF IInv

\* A step that leaves the layers and the cache of decisions alone keeps what is
\* said about them.
LEMMA LayersUnchanged ==
    ASSUME UNCHANGED layerVars
    PROVE  /\ \A l \in Layers : Untouched(l)' = Untouched(l) /\ Converted(l)' = Converted(l)
           /\ {l \in Layers : Converted(l)}' = {l \in Layers : Converted(l)}
BY DEF layerVars, Untouched, Converted

\* The mode is read from the environment, which no step changes.
LEMMA ModeUnchanged ==
    ASSUME UNCHANGED envVars
    PROVE  Mode' = Mode
BY DEF envVars, Mode

\* The loop consults the cache for a shape and a kind that it has.
LEMMA KeyFacts ==
    ASSUME IInv, pc \in {"kind", "benchmark", "install"}, kinds # <<>>
    PROVE  /\ layer \in Layers
           /\ ShapeOf[layer] \in Shapes
           /\ kinds[1] \in Kinds
           /\ Key \in Shapes \X Kinds
<1>1. layer \in Layers /\ ShapeOf[layer] \in Shapes
  BY DEF IInv, TypeOK, LoopInvariant
<1>2. kinds[1] \in Kinds
  BY KindsFacts DEF IInv
<1> QED BY <1>1, <1>2 DEF Key

\* What the layers were converted to stays admitted, if decisions only get
\* worse and accepted benchmarks are not repeated.
LEMMA AdmittedKept ==
    ASSUME IInv, UNCHANGED <<layerVars, envVars>>, CacheInvariant',
           \A key \in Shapes \X Kinds :
              /\ benchmarks[key] = <<"accepted">> => benchmarks'[key] = <<"accepted">>
              /\ admission[key] \in {"rejected", "error"} =>
                    admission'[key] \in {"rejected", "error"}
    PROVE  OnlyAdmittedKinds'
<1>1. \A key \in Shapes \X Kinds : Len(benchmarks'[key]) <= 1
  <2> SUFFICES ASSUME NEW key \in Shapes \X Kinds PROVE Len(benchmarks'[key]) <= 1
    OBVIOUS
  <2>1. benchmarks'[key] \in {<<>>, <<"accepted">>, <<"rejected">>}
    BY DEF CacheInvariant
  <2> QED BY <2>1
<1>2. \A l \in Layers : Converted(l)' = Converted(l) /\ parts'[l] = parts[l]
  BY LayersUnchanged DEF layerVars
<1>3. SUFFICES ASSUME NEW l \in Layers, NEW k \in Kinds,
                      Converted(l), parts[l]["weight"] = k
               PROVE  /\ benchmarks'[<<ShapeOf[l], k>>] = <<"accepted">>
                      /\ (k = "w8" /\ Mode = "hybrid_w4" /\ ShapeOf[l] \in W4MlpShapes) =>
                            admission'[<<ShapeOf[l], "w4">>] \in {"rejected", "error"}
  BY <1>1, <1>2, ModeUnchanged DEF OnlyAdmittedKinds
<1>4. /\ benchmarks[<<ShapeOf[l], k>>] = <<"accepted">>
      /\ (k = "w8" /\ Mode = "hybrid_w4" /\ ShapeOf[l] \in W4MlpShapes) =>
            admission[<<ShapeOf[l], "w4">>] \in {"rejected", "error"}
  BY <1>3 DEF IInv, OnlyAdmittedKinds
<1>5. <<ShapeOf[l], k>> \in Shapes \X Kinds /\ <<ShapeOf[l], "w4">> \in Shapes \X Kinds
  BY <1>3 DEF IInv, Kinds
<1> QED BY <1>4, <1>5

\* A layer is not both as it was and converted.
LEMMA NotBoth ==
    ASSUME NEW l \in Layers, Untouched(l)
    PROVE  ~Converted(l)
BY DEF Untouched, Converted

\* A step outside the installation that leaves the layers and their count alone.
LEMMA QuietStep ==
    ASSUME IInv, pc # "install", UNCHANGED <<layerVars, active>>
    PROVE  /\ \A l \in Layers : Untouched(l)' \/ Converted(l)'
           /\ \A l \in Layers : Converted(l)' => ShapeOf[l] \in Shapes
           /\ active' = Cardinality({l \in Layers : Converted(l)}')
           /\ \A l \in Layers : Untouched(l) =>
                 active' = Cardinality({k \in Layers : Converted(k)}' \ {l})
           /\ \A l \in todo : Untouched(l)'
<1>1. /\ \A l \in Layers : Untouched(l) \/ Converted(l)
      /\ \A l \in Layers : Converted(l) => ShapeOf[l] \in Shapes
      /\ active = Cardinality({l \in Layers : Converted(l)})
      /\ \A l \in todo : Untouched(l)
      /\ todo \subseteq Layers
  BY DEF IInv, LayersUsable, QuantisedWhenServing, TypeOK
<1>2. /\ \A l \in Layers : Untouched(l)' = Untouched(l) /\ Converted(l)' = Converted(l)
      /\ {l \in Layers : Converted(l)}' = {l \in Layers : Converted(l)}
  BY LayersUnchanged
<1>3. \A l \in Layers : Untouched(l) =>
         {k \in Layers : Converted(k)} \ {l} = {k \in Layers : Converted(k)}
  BY NotBoth
<1>4. active' = Cardinality({l \in Layers : Converted(l)}')
  BY <1>1, <1>2
<1>5. ASSUME NEW l \in Layers, Untouched(l)
      PROVE  active' = Cardinality({k \in Layers : Converted(k)}' \ {l})
  BY <1>2, <1>3, <1>4, <1>5
<1>6. \A l \in todo : Untouched(l)'
  BY <1>1, <1>2
<1> QED BY <1>1, <1>2, <1>4, <1>5, <1>6

\* A layer returned as it is keeps the invariant.
LEMMA SkipLayerInv ==
    ASSUME IInv, NEW l \in Layers, SkipLayer(l)
    PROVE  IInv'
<1> USE QuantAssumption
<1>1. /\ pc = "modules" /\ pc' = pc /\ todo' = todo \ {l}
      /\ UNCHANGED <<envVars, admission, active, layerVars, layer, kinds, installed,
                      benchmarks, forward>>
  BY DEF SkipLayer
<1>2. library' \in BOOLEAN
  BY DEF SkipLayer, IInv, TypeOK
<1>3. TypeOK'
  BY <1>1, <1>2 DEF IInv, TypeOK, envVars, layerVars
<1>4. LayersUsable'
  BY <1>1, QuietStep DEF IInv, LayersUsable
<1>5. QuantisedWhenServing'
  BY <1>1, QuietStep DEF QuantisedWhenServing
<1>6. CacheInvariant'
  BY <1>1 DEF IInv, CacheInvariant
<1>7. OnlyAdmittedKinds'
  BY <1>1, <1>6, AdmittedKept
<1>8. InstallInvariant' /\ LoopInvariant'
  BY <1>1 DEF IInv, InstallInvariant, LoopInvariant
<1>9. \A k \in todo' : Untouched(k)'
  BY <1>1, QuietStep
<1> QED BY <1>1, <1>3, <1>4, <1>5, <1>6, <1>7, <1>8, <1>9, QuietStep DEF IInv

\* Entering the loop over the candidate kinds keeps the invariant.
LEMMA StartLayerInv ==
    ASSUME IInv, NEW l \in Layers, StartLayer(l)
    PROVE  IInv'
<1> USE QuantAssumption
<1>1. /\ pc = "modules" /\ pc' = "kind" /\ todo' = todo \ {l} /\ library' = TRUE
      /\ l \in todo /\ layer' = l
      /\ UNCHANGED <<envVars, admission, active, layerVars, installed, benchmarks, forward>>
  BY DEF StartLayer
<1>2. /\ ShapeOf[l] \in Shapes
      /\ kinds' \in {<<"w8">>, <<"w4", "w8">>}
      /\ (Mode = "hybrid_w4" /\ ShapeOf[l] \in W4MlpShapes) => kinds' = <<"w4", "w8">>
  <2>1. ShapeOf[l] \in Shapes /\ Mode # "off" /\ kinds' = CandidateKinds(Mode, ShapeOf[l])
    BY DEF StartLayer
  <2> QED BY <2>1 DEF CandidateKinds
<1>3. TypeOK'
  BY <1>1, <1>2 DEF IInv, TypeOK, envVars, layerVars
<1>4. LayersUsable'
  BY <1>1, QuietStep DEF IInv, LayersUsable
<1>5. QuantisedWhenServing'
  BY <1>1, QuietStep DEF QuantisedWhenServing
<1>6. CacheInvariant'
  BY <1>1 DEF IInv, CacheInvariant
<1>7. OnlyAdmittedKinds'
  BY <1>1, <1>6, AdmittedKept
<1>8. InstallInvariant'
  BY <1>1 DEF IInv, InstallInvariant
<1>9. LoopInvariant'
  <2>1. Untouched(l)'
    BY <1>1, QuietStep
  <2> QED BY <1>1, <1>2, <2>1, ModeUnchanged DEF LoopInvariant, Untouched
<1>10. \A k \in todo' : Untouched(k)'
  BY <1>1, QuietStep
<1> QED BY <1>1, <1>3, <1>4, <1>5, <1>6, <1>7, <1>8, <1>9, <1>10, QuietStep DEF IInv

\* Leaving the loop without a conversion keeps the invariant.
LEMMA GiveUpLayerInv ==
    ASSUME IInv, GiveUpLayer
    PROVE  IInv'
<1>1. /\ pc = "kind" /\ pc' = "modules"
      /\ UNCHANGED <<envVars, library, admission, active, layerVars, todo, kinds, installed,
                      benchmarks, forward>>
  BY DEF GiveUpLayer
<1>3. TypeOK'
  BY <1>1 DEF IInv, TypeOK, envVars, layerVars
<1>4. LayersUsable'
  BY <1>1, QuietStep DEF IInv, LayersUsable
<1>5. QuantisedWhenServing'
  BY <1>1, QuietStep DEF QuantisedWhenServing
<1>6. CacheInvariant'
  BY <1>1 DEF IInv, CacheInvariant
<1>7. OnlyAdmittedKinds'
  BY <1>1, <1>6, AdmittedKept
<1>8. InstallInvariant' /\ LoopInvariant'
  BY <1>1 DEF IInv, InstallInvariant, LoopInvariant
<1>9. \A k \in todo' : Untouched(k)'
  BY <1>1, QuietStep
<1> QED BY <1>1, <1>3, <1>4, <1>5, <1>6, <1>7, <1>8, <1>9, QuietStep DEF IInv

\* Passing over a kind that the cache refuses keeps the invariant.
LEMMA SkipKindInv ==
    ASSUME IInv, SkipKind
    PROVE  IInv'
<1>1. /\ pc = "kind" /\ pc' = pc /\ kinds # <<>> /\ kinds' = Tail(kinds)
      /\ admission[Key] \in {"rejected", "error"}
      /\ UNCHANGED <<envVars, library, admission, active, layerVars, todo, layer, installed,
                      benchmarks, forward>>
  BY DEF SkipKind
<1>2. kinds' \in {<<>>, <<"w8">>}
  BY <1>1, KindsFacts DEF IInv
<1>3. TypeOK'
  BY <1>1, <1>2 DEF IInv, TypeOK, envVars, layerVars
<1>4. LayersUsable'
  BY <1>1, QuietStep DEF IInv, LayersUsable
<1>5. QuantisedWhenServing'
  BY <1>1, QuietStep DEF QuantisedWhenServing
<1>6. CacheInvariant'
  BY <1>1 DEF IInv, CacheInvariant
<1>7. OnlyAdmittedKinds'
  BY <1>1, <1>6, AdmittedKept
<1>8. InstallInvariant'
  BY <1>1 DEF IInv, InstallInvariant
<1>9. LoopInvariant'
  <2>1. Untouched(layer)'
    BY <1>1, LayersUnchanged DEF IInv, LoopInvariant, TypeOK
  <2>2. (Mode = "hybrid_w4" /\ ShapeOf[layer] \in W4MlpShapes) =>
           admission[<<ShapeOf[layer], "w4">>] \in {"rejected", "error"}
    BY <1>1, KindsFacts DEF IInv, LoopInvariant, Key
  <2>3. layer \notin todo /\ ShapeOf[layer] \in Shapes
    BY <1>1 DEF IInv, LoopInvariant
  <2> QED BY <1>1, <2>1, <2>2, <2>3, ModeUnchanged DEF LoopInvariant, Untouched
<1>10. \A k \in todo' : Untouched(k)'
  BY <1>1, QuietStep
<1> QED BY <1>1, <1>3, <1>4, <1>5, <1>6, <1>7, <1>8, <1>9, <1>10, QuietStep DEF IInv

\* Packing a weight keeps the invariant.
LEMMA PackWeightInv ==
    ASSUME IInv, PackWeight
    PROVE  IInv'
<1>1. /\ pc = "kind" /\ kinds # <<>>
      /\ admission[Key] = "none" => pc' = "benchmark"
      /\ admission[Key] = "accepted" => pc' = "install"
      /\ admission[Key] = "none" \/ admission[Key] = "accepted"
      /\ UNCHANGED <<envVars, library, admission, active, layerVars, todo, layer, kinds,
                      installed, benchmarks, forward>>
  BY DEF PackWeight
<1>2. Untouched(layer) /\ layer \in Layers
  BY <1>1 DEF IInv, LoopInvariant, TypeOK
<1>3. TypeOK'
  BY <1>1, <1>2 DEF IInv, TypeOK, envVars, layerVars
<1>4. LayersUsable'
  BY <1>1, QuietStep DEF IInv, LayersUsable
<1>5. QuantisedWhenServing'
  BY <1>1, QuietStep DEF QuantisedWhenServing
<1>6. CacheInvariant'
  BY <1>1 DEF IInv, CacheInvariant
<1>7. OnlyAdmittedKinds'
  BY <1>1, <1>6, AdmittedKept
<1>8. InstallInvariant'
  <2>1. Key' = Key /\ installed = 0
    BY <1>1 DEF Key, IInv, InstallInvariant
  <2>2. Untouched(layer)'
    BY <1>1, <1>2, LayersUnchanged
  <2>3. active' = Cardinality({k \in Layers : Converted(k)}' \ {layer})
    BY <1>1, <1>2, QuietStep
  <2> QED BY <1>1, <2>1, <2>2, <2>3 DEF InstallInvariant
<1>9. LoopInvariant'
  <2>1. Untouched(layer)' /\ Key' = Key
    BY <1>1, <1>2, LayersUnchanged DEF Key
  <2>2. /\ layer \notin todo /\ ShapeOf[layer] \in Shapes
        /\ (Mode = "hybrid_w4" /\ ShapeOf[layer] \in W4MlpShapes) =>
              kinds = <<"w4", "w8">> \/ admission[<<ShapeOf[layer], "w4">>] \in {"rejected", "error"}
    BY <1>1 DEF IInv, LoopInvariant
  <2> QED BY <1>1, <2>1, <2>2, ModeUnchanged DEF LoopInvariant
<1>10. \A k \in todo' : Untouched(k)'
  BY <1>1, QuietStep
<1> QED BY <1>1, <1>3, <1>4, <1>5, <1>6, <1>7, <1>8, <1>9, <1>10, QuietStep DEF IInv

\* A benchmark and the decision it caches keep the invariant.
LEMMA BenchmarkCandidateInv ==
    ASSUME IInv, BenchmarkCandidate
    PROVE  IInv'
<1>1. PICK decision \in {"accepted", "rejected"} :
          /\ admission' = [admission EXCEPT ![Key] = decision]
          /\ benchmarks' = [benchmarks EXCEPT ![Key] = Append(@, decision)]
          /\ decision = "accepted" => pc' = "install" /\ kinds' = kinds
          /\ decision = "rejected" => pc' = "kind" /\ kinds' = Tail(kinds)
  BY DEF BenchmarkCandidate
<1>2. /\ pc = "benchmark"
      /\ UNCHANGED <<envVars, library, active, layerVars, todo, layer, installed, forward>>
  BY DEF BenchmarkCandidate
<1>3. /\ kinds # <<>> /\ admission[Key] = "none" /\ installed = 0
      /\ Untouched(layer) /\ layer \notin todo
  BY <1>2 DEF IInv, LoopInvariant, InstallInvariant
<1>4. layer \in Layers /\ ShapeOf[layer] \in Shapes /\ Key \in Shapes \X Kinds
  BY <1>2, <1>3, KeyFacts
<1>5. /\ admission \in [Shapes \X Kinds -> {"none", "accepted", "rejected", "error"}]
      /\ benchmarks \in [Shapes \X Kinds -> Seq({"accepted", "rejected"})]
  BY DEF IInv, TypeOK
<1>6. benchmarks[Key] = <<>>
  BY <1>3, <1>4 DEF IInv, CacheInvariant
<1>7. benchmarks'[Key] = <<decision>> /\ admission'[Key] = decision
  BY <1>1, <1>4, <1>5, <1>6
<1>8. \A key \in Shapes \X Kinds :
         key # Key => benchmarks'[key] = benchmarks[key] /\ admission'[key] = admission[key]
  BY <1>1, <1>4, <1>5
<1>9. kinds' \in {<<>>, <<"w8">>, <<"w4", "w8">>}
  BY <1>1, <1>3, KindsFacts DEF IInv, TypeOK
<1>10. TypeOK'
  <2>1. admission' \in [Shapes \X Kinds -> {"none", "accepted", "rejected", "error"}]
    BY <1>1, <1>5
  <2>2. benchmarks' \in [Shapes \X Kinds -> Seq({"accepted", "rejected"})]
    <3>1. Append(benchmarks[Key], decision) \in Seq({"accepted", "rejected"})
      BY <1>4, <1>5
    <3> QED BY <1>1, <1>5, <3>1
  <2>3. pc' \in {"install", "kind"}
    BY <1>1
  <2> QED BY <1>2, <1>4, <1>9, <2>1, <2>2, <2>3 DEF IInv, TypeOK, envVars, layerVars
<1>11. LayersUsable'
  BY <1>2, QuietStep DEF IInv, LayersUsable
<1>12. QuantisedWhenServing'
  BY <1>1, <1>2, QuietStep DEF QuantisedWhenServing
<1>13. CacheInvariant'
  <2> SUFFICES ASSUME NEW key \in Shapes \X Kinds
               PROVE  /\ benchmarks'[key] \in {<<>>, <<"accepted">>, <<"rejected">>}
                      /\ admission'[key] = "none" => benchmarks'[key] = <<>>
                      /\ admission'[key] = "accepted" => benchmarks'[key] = <<"accepted">>
    BY DEF CacheInvariant
  <2>1. CASE key = Key
    BY <1>7, <2>1
  <2>2. CASE key # Key
    BY <1>8, <2>2 DEF IInv, CacheInvariant
  <2> QED BY <2>1, <2>2
<1>14. OnlyAdmittedKinds'
  <2>1. <<>> # <<"accepted">>
    OBVIOUS
  <2>2. \A key \in Shapes \X Kinds :
              /\ benchmarks[key] = <<"accepted">> => benchmarks'[key] = <<"accepted">>
              /\ admission[key] \in {"rejected", "error"} =>
                    admission'[key] \in {"rejected", "error"}
    BY <1>3, <1>6, <1>8, <2>1
  <2> QED BY <1>2, <1>13, <2>2, AdmittedKept
<1>15. Untouched(layer)' /\ layer' = layer
  BY <1>2, <1>3, <1>4, LayersUnchanged
<1>16. InstallInvariant'
  <2>1. CASE decision = "accepted"
    <3>1. Key' = Key /\ kinds' # <<>> /\ pc' = "install"
      BY <1>1, <1>2, <1>3, <2>1 DEF Key
    <3>2. active' = Cardinality({k \in Layers : Converted(k)}' \ {layer})
      BY <1>2, <1>3, <1>4, QuietStep
    <3> QED BY <1>2, <1>3, <1>7, <1>15, <2>1, <3>1, <3>2 DEF InstallInvariant
  <2>2. CASE decision = "rejected"
    BY <1>1, <1>2, <1>3, <2>2 DEF InstallInvariant
  <2> QED BY <2>1, <2>2
<1>17. LoopInvariant'
  <2>1. (Mode = "hybrid_w4" /\ ShapeOf[layer] \in W4MlpShapes) =>
           kinds = <<"w4", "w8">> \/ admission[<<ShapeOf[layer], "w4">>] \in {"rejected", "error"}
    BY <1>2 DEF IInv, LoopInvariant
  <2>2. pc' # "benchmark"
    BY <1>1
  <2>3. (Mode = "hybrid_w4" /\ ShapeOf[layer] \in W4MlpShapes) =>
           kinds' = <<"w4", "w8">> \/ admission'[<<ShapeOf[layer], "w4">>] \in {"rejected", "error"}
    <3>1. <<ShapeOf[layer], "w4">> \in Shapes \X Kinds
      BY <1>4 DEF Kinds
    <3>2. CASE kinds # <<"w4", "w8">>
      BY <1>3, <1>8, <2>1, <3>1, <3>2
    <3>3. CASE kinds = <<"w4", "w8">> /\ decision = "accepted"
      BY <1>1, <3>3
    <3>4. CASE kinds = <<"w4", "w8">> /\ decision = "rejected"
      <4>1. Key = <<ShapeOf[layer], "w4">>
        BY <3>4, <1>3, KindsFacts DEF IInv, Key
      <4> QED BY <1>7, <3>4, <4>1
    <3> QED BY <3>2, <3>3, <3>4
  <2> QED BY <1>2, <1>3, <1>4, <1>15, <2>2, <2>3, ModeUnchanged DEF LoopInvariant
<1>18. \A k \in todo' : Untouched(k)'
  BY <1>2, QuietStep
<1> QED BY <1>2, <1>10, <1>11, <1>12, <1>13, <1>14, <1>16, <1>17, <1>18, QuietStep DEF IInv

\* Giving a kind up for a shape, wherever the loop stands.
LEMMA GiveUpKind ==
    ASSUME IInv, pc \in {"kind", "benchmark", "install"}, kinds # <<>>,
           admission' = [admission EXCEPT ![Key] = "error"],
           pc' = "kind", kinds' = Tail(kinds),
           UNCHANGED <<envVars, library, todo, layer, benchmarks, forward>>,
           Untouched(layer)'
    PROVE  /\ CacheInvariant'
           /\ LoopInvariant'
           /\ kinds' \in {<<>>, <<"w8">>}
           /\ admission' \in [Shapes \X Kinds -> {"none", "accepted", "rejected", "error"}]
           /\ \A key \in Shapes \X Kinds :
                 admission[key] \in {"rejected", "error"} =>
                    admission'[key] \in {"rejected", "error"}
<1>1. layer \in Layers /\ ShapeOf[layer] \in Shapes /\ Key \in Shapes \X Kinds
  BY KeyFacts
<1>2. admission \in [Shapes \X Kinds -> {"none", "accepted", "rejected", "error"}]
  BY DEF IInv, TypeOK
<1>3. admission'[Key] = "error"
  BY <1>1, <1>2
<1>4. \A key \in Shapes \X Kinds : key # Key => admission'[key] = admission[key]
  BY <1>1, <1>2
<1>5. CacheInvariant'
  BY <1>3, <1>4 DEF IInv, CacheInvariant
<1>6. (Mode = "hybrid_w4" /\ ShapeOf[layer] \in W4MlpShapes) =>
         admission'[<<ShapeOf[layer], "w4">>] \in {"rejected", "error"}
  <2>1. <<ShapeOf[layer], "w4">> \in Shapes \X Kinds
    BY <1>1 DEF Kinds
  <2>2. CASE kinds = <<"w4", "w8">>
    <3>1. Key = <<ShapeOf[layer], "w4">>
      BY <2>2, KindsFacts DEF IInv, Key
    <3> QED BY <1>3, <3>1
  <2>3. CASE kinds # <<"w4", "w8">>
    BY <1>3, <1>4, <2>1, <2>3 DEF IInv, LoopInvariant
  <2> QED BY <2>2, <2>3
<1>7. layer \notin todo
  BY DEF IInv, LoopInvariant
<1>8. LoopInvariant'
  BY <1>1, <1>6, <1>7, ModeUnchanged DEF LoopInvariant
<1>9. kinds' \in {<<>>, <<"w8">>}
  BY KindsFacts DEF IInv
<1> QED BY <1>2, <1>3, <1>4, <1>5, <1>8, <1>9

\* A packing or a benchmark that raises keeps the invariant.
LEMMA ConversionFailsInv ==
    ASSUME IInv, ConversionFails
    PROVE  IInv'
<1>1. /\ pc \in {"kind", "benchmark"} /\ pc' = "kind" /\ kinds' = Tail(kinds)
      /\ admission' = [admission EXCEPT ![Key] = "error"]
      /\ UNCHANGED <<envVars, library, active, layerVars, todo, layer, installed,
                      benchmarks, forward>>
  BY DEF ConversionFails
<1>2. kinds # <<>>
  BY DEF ConversionFails, IInv, LoopInvariant
<1>3. Untouched(layer) /\ layer \in Layers
  BY <1>1 DEF IInv, LoopInvariant, TypeOK
<1>4. Untouched(layer)'
  BY <1>1, <1>3, LayersUnchanged
<1>5. /\ CacheInvariant' /\ LoopInvariant' /\ kinds' \in {<<>>, <<"w8">>}
      /\ admission' \in [Shapes \X Kinds -> {"none", "accepted", "rejected", "error"}]
      /\ \A key \in Shapes \X Kinds :
            admission[key] \in {"rejected", "error"} => admission'[key] \in {"rejected", "error"}
  BY <1>1, <1>2, <1>4, GiveUpKind
<1>6. TypeOK'
  BY <1>1, <1>3, <1>5 DEF IInv, TypeOK, envVars, layerVars
<1>7. LayersUsable'
  BY <1>1, QuietStep DEF IInv, LayersUsable
<1>8. QuantisedWhenServing'
  BY <1>1, QuietStep DEF QuantisedWhenServing
<1>9. OnlyAdmittedKinds'
  BY <1>1, <1>5, AdmittedKept
<1>10. InstallInvariant'
  BY <1>1 DEF IInv, InstallInvariant
<1>11. \A k \in todo' : Untouched(k)'
  BY <1>1, QuietStep
<1> QED BY <1>1, <1>5, <1>6, <1>7, <1>8, <1>9, <1>10, <1>11, QuietStep DEF IInv

\* How far the installation is, whether or not it has begun.
LEMMA InstallFacts ==
    ASSUME IInv, pc = "install"
    PROVE  /\ kinds # <<>> /\ admission[Key] = "accepted"
           /\ layer \in Layers /\ layer \notin todo /\ ShapeOf[layer] \in Shapes
           /\ kinds[1] \in Kinds /\ Key \in Shapes \X Kinds
           /\ installed \in 0 .. 6
           /\ installed > 0 => layer \notin parameter
           /\ \A i \in 1 .. 6 :
                 parts[layer][Parts[i]] = IF i <= installed THEN kinds[1] ELSE None
           /\ active = Cardinality({l \in Layers : Converted(l)} \ {layer})
<1>1. /\ kinds # <<>> /\ admission[Key] = "accepted"
      /\ installed > 0 => layer \notin parameter
      /\ active = Cardinality({l \in Layers : Converted(l)} \ {layer})
      /\ installed = 0 => Untouched(layer)
      /\ installed > 0 =>
            \A i \in 1 .. 6 :
               parts[layer][Parts[i]] = IF i <= installed THEN kinds[1] ELSE None
  BY DEF IInv, InstallInvariant
<1>2. /\ layer \in Layers /\ ShapeOf[layer] \in Shapes
      /\ kinds[1] \in Kinds /\ Key \in Shapes \X Kinds
  BY <1>1, KeyFacts
<1>3. layer \notin todo
  BY DEF IInv, LoopInvariant
<1>4. installed \in 0 .. 6
  BY PartsFacts DEF IInv, TypeOK
<1>5. installed = 0 => \A i \in 1 .. 6 : parts[layer][Parts[i]] = None
  BY <1>1, PartsFacts DEF Untouched, NoParts
<1>6. \A i \in 1 .. 6 :
         parts[layer][Parts[i]] = IF i <= installed THEN kinds[1] ELSE None
  BY <1>1, <1>4, <1>5
<1> QED BY <1>1, <1>2, <1>3, <1>4, <1>6

\* A step of the installation changes one layer only.
LEMMA OtherLayers ==
    ASSUME IInv, pc = "install",
           \A l \in Layers \ {layer} :
              parts'[l] = parts[l] /\ (l \in parameter' <=> l \in parameter)
    PROVE  /\ \A l \in Layers \ {layer} : Untouched(l)' = Untouched(l) /\ Converted(l)' = Converted(l)
           /\ \A l \in Layers \ {layer} : Untouched(l)' \/ Converted(l)'
           /\ \A l \in Layers \ {layer} : Converted(l)' => ShapeOf[l] \in Shapes
           /\ {l \in Layers : Converted(l)}' \ {layer} = {l \in Layers : Converted(l)} \ {layer}
           /\ todo' = todo => \A l \in todo' : Untouched(l)'
<1>1. \A l \in Layers \ {layer} : Untouched(l)' = Untouched(l) /\ Converted(l)' = Converted(l)
  BY DEF Untouched, Converted
<1>2. \A l \in Layers \ {layer} : Untouched(l) \/ Converted(l)
  BY DEF IInv, LayersUsable
<1>3. \A l \in Layers \ {layer} : Converted(l)' => ShapeOf[l] \in Shapes
  BY <1>1 DEF IInv
<1>4. {l \in Layers : Converted(l)}' \ {layer} = {l \in Layers : Converted(l)} \ {layer}
  BY <1>1
<1>5. \A l \in todo : l \in Layers \ {layer} /\ Untouched(l)
  BY InstallFacts DEF IInv, TypeOK
<1> QED BY <1>1, <1>2, <1>3, <1>4, <1>5

\* The decisions about the other layers still hold.
LEMMA OthersAdmitted ==
    ASSUME IInv, pc = "install", UNCHANGED <<envVars, benchmarks>>,
           \A key \in Shapes \X Kinds :
              admission[key] \in {"rejected", "error"} =>
                    admission'[key] \in {"rejected", "error"},
           NEW l \in Layers \ {layer}, NEW k \in Kinds,
           parts'[l] = parts[l], Converted(l), parts[l]["weight"] = k
    PROVE  /\ benchmarks'[<<ShapeOf[l], k>>] = <<"accepted">>
           /\ (k = "w8" /\ Mode' = "hybrid_w4" /\ ShapeOf[l] \in W4MlpShapes) =>
                 admission'[<<ShapeOf[l], "w4">>] \in {"rejected", "error"}
<1>1. /\ benchmarks[<<ShapeOf[l], k>>] = <<"accepted">>
      /\ (k = "w8" /\ Mode = "hybrid_w4" /\ ShapeOf[l] \in W4MlpShapes) =>
            admission[<<ShapeOf[l], "w4">>] \in {"rejected", "error"}
  BY DEF IInv, OnlyAdmittedKinds
<1>2. <<ShapeOf[l], "w4">> \in Shapes \X Kinds
  BY DEF IInv, Kinds
<1> QED BY <1>1, <1>2, ModeUnchanged

\* One more part in the layer keeps the invariant.
LEMMA InstallPartInv ==
    ASSUME IInv, InstallPart
    PROVE  IInv'
<1>1. /\ pc = "install" /\ installed < 6
      /\ parameter' = parameter \ {layer}
      /\ parts' = [parts EXCEPT ![layer][Parts[installed + 1]] = kinds[1]]
      /\ installed' = installed + 1
      /\ UNCHANGED <<envVars, library, admission, active, todo, pc, layer, kinds, benchmarks,
                      forward>>
  BY PartsFacts DEF InstallPart
<1>2. /\ kinds # <<>> /\ admission[Key] = "accepted"
      /\ layer \in Layers /\ ShapeOf[layer] \in Shapes
      /\ kinds[1] \in Kinds /\ Key \in Shapes \X Kinds
      /\ installed \in 0 .. 6
      /\ \A i \in 1 .. 6 :
            parts[layer][Parts[i]] = IF i <= installed THEN kinds[1] ELSE None
      /\ active = Cardinality({l \in Layers : Converted(l)} \ {layer})
  BY <1>1, InstallFacts
<1>3. parts \in [Layers -> [PartNames -> Kinds \cup {None}]]
  BY DEF IInv, TypeOK
<1>4. Parts[installed + 1] \in PartNames
  BY <1>1, <1>2, PartsFacts
<1>5. /\ parts' \in [Layers -> [PartNames -> Kinds \cup {None}]]
      /\ \A l \in Layers \ {layer} : parts'[l] = parts[l]
      /\ parts'[layer] = [parts[layer] EXCEPT ![Parts[installed + 1]] = kinds[1]]
  BY <1>1, <1>2, <1>3, <1>4
<1>6. \A i \in 1 .. 6 :
         parts'[layer][Parts[i]] = IF i <= installed' THEN kinds[1] ELSE None
  <2> SUFFICES ASSUME NEW i \in 1 .. 6
               PROVE  parts'[layer][Parts[i]] = IF i <= installed' THEN kinds[1] ELSE None
    OBVIOUS
  <2>1. CASE i = installed + 1
    <3>1. parts[layer] \in [PartNames -> Kinds \cup {None}]
      BY <1>2, <1>3
    <3>2. parts'[layer][Parts[i]] = kinds[1]
      BY <1>4, <1>5, <2>1, <3>1
    <3> QED BY <1>1, <1>2, <2>1, <3>2
  <2>2. CASE i # installed + 1
    <3>1. Parts[i] # Parts[installed + 1] /\ Parts[i] \in PartNames
      BY <1>1, <1>2, <2>2, PartsFacts
    <3>2. parts[layer] \in [PartNames -> Kinds \cup {None}]
      BY <1>2, <1>3
    <3>3. parts'[layer][Parts[i]] = parts[layer][Parts[i]]
      BY <1>5, <3>1, <3>2
    <3> QED BY <1>1, <1>2, <2>2, <3>3
  <2> QED BY <2>1, <2>2
<1>7. \A l \in Layers \ {layer} : l \in parameter' <=> l \in parameter
  BY <1>1
<1>8. /\ \A l \in Layers \ {layer} : Untouched(l)' \/ Converted(l)'
      /\ \A l \in Layers \ {layer} : Converted(l)' = Converted(l)
      /\ \A l \in Layers \ {layer} : Converted(l)' => ShapeOf[l] \in Shapes
      /\ {l \in Layers : Converted(l)}' \ {layer} = {l \in Layers : Converted(l)} \ {layer}
      /\ \A l \in todo' : Untouched(l)'
  BY <1>1, <1>5, <1>7, OtherLayers
<1>9. TypeOK'
  <2>1. installed' \in 0 .. Len(Parts)
    BY <1>1, <1>2, PartsFacts
  <2>2. parameter' \subseteq Layers
    BY <1>1 DEF IInv, TypeOK
  <2> QED BY <1>1, <1>5, <2>1, <2>2 DEF IInv, TypeOK, envVars
<1>10. LayersUsable'
  BY <1>1, <1>8 DEF IInv, LayersUsable
<1>11. QuantisedWhenServing'
  BY <1>1 DEF QuantisedWhenServing
<1>12. CacheInvariant'
  BY <1>1 DEF IInv, CacheInvariant
<1>13. OnlyAdmittedKinds'
  <2>1. \A key \in Shapes \X Kinds : Len(benchmarks'[key]) <= 1
    BY <1>1 DEF IInv, OnlyAdmittedKinds
  <2>2. SUFFICES ASSUME NEW l \in Layers, NEW k \in Kinds,
                        Converted(l)', parts'[l]["weight"] = k
                 PROVE  /\ benchmarks'[<<ShapeOf[l], k>>] = <<"accepted">>
                        /\ (k = "w8" /\ Mode' = "hybrid_w4" /\ ShapeOf[l] \in W4MlpShapes) =>
                              admission'[<<ShapeOf[l], "w4">>] \in {"rejected", "error"}
    BY <2>1 DEF OnlyAdmittedKinds
  <2>3. CASE l # layer
    <3>1. parts'[l] = parts[l] /\ Converted(l) /\ parts[l]["weight"] = k
      BY <1>5, <1>8, <2>2, <2>3
    <3>2. UNCHANGED <<envVars, benchmarks, admission>>
      BY <1>1
    <3> QED BY <1>1, <2>3, <3>1, <3>2, OthersAdmitted
  <2>4. CASE l = layer
    <3>1. k = kinds[1]
      <4>1. Parts[1] = "weight"
        BY DEF Parts
      <4>2. 1 <= installed'
        <5>1. installed \in 0 .. 6 /\ installed' = installed + 1
          BY <1>1, <1>2
        <5> QED BY <5>1
      <4>3. parts'[layer][Parts[1]] = kinds[1]
        <5>1. 1 \in 1 .. 6
          OBVIOUS
        <5> QED BY <1>6, <4>2, <5>1, Zenon
      <4> QED BY <2>2, <2>4, <4>1, <4>3, Zenon
    <3>2. benchmarks[Key] = <<"accepted">>
      BY <1>2 DEF IInv, CacheInvariant
    <3>3. (k = "w8" /\ Mode = "hybrid_w4" /\ ShapeOf[l] \in W4MlpShapes) =>
             admission[<<ShapeOf[l], "w4">>] \in {"rejected", "error"}
      <4>1. k = "w8" => kinds # <<"w4", "w8">>
        BY <1>2, <3>1, KindsFacts DEF IInv
      <4> QED BY <1>1, <2>4, <4>1 DEF IInv, LoopInvariant
    <3> QED BY <1>1, <2>4, <3>1, <3>2, <3>3, ModeUnchanged DEF Key
  <2> QED BY <2>3, <2>4
<1>14. InstallInvariant'
  <2>1. Key' = Key /\ layer' \notin parameter' /\ installed' > 0
    BY <1>1, <1>2 DEF Key
  <2>2. active' = Cardinality({l \in Layers : Converted(l)}' \ {layer'})
    BY <1>1, <1>2, <1>8
  <2>3. \A i \in 1 .. 6 :
           parts'[layer'][Parts[i]] = IF i <= installed' THEN kinds'[1] ELSE None
    BY <1>1, <1>6
  <2>4. installed' # 0 /\ kinds' # <<>> /\ admission'[Key'] = "accepted" /\ pc' = "install"
    BY <1>1, <1>2, <2>1
  <2> QED BY <2>1, <2>2, <2>3, <2>4 DEF InstallInvariant
<1>15. LoopInvariant'
  BY <1>1, ModeUnchanged DEF IInv, LoopInvariant
<1>16. \A l \in Layers : Converted(l)' => ShapeOf[l] \in Shapes
  BY <1>2, <1>8
<1> QED BY <1>8, <1>9, <1>10, <1>11, <1>12, <1>13, <1>14, <1>15, <1>16 DEF IInv

\* An installation that raises and is taken back keeps the invariant.
LEMMA InstallFailsInv ==
    ASSUME IInv, InstallFails
    PROVE  IInv'
<1>1. /\ pc = "install" /\ pc' = "kind" /\ kinds' = Tail(kinds) /\ installed' = 0
      /\ parameter' = parameter \cup {layer}
      /\ parts' = [parts EXCEPT ![layer] = NoParts]
      /\ admission' = [admission EXCEPT ![Key] = "error"]
      /\ UNCHANGED <<envVars, library, active, todo, layer, benchmarks, forward>>
  BY DEF InstallFails, Uninstall
<1>2. /\ kinds # <<>> /\ layer \in Layers /\ ShapeOf[layer] \in Shapes
      /\ active = Cardinality({l \in Layers : Converted(l)} \ {layer})
  BY <1>1, InstallFacts
<1>3. parts \in [Layers -> [PartNames -> Kinds \cup {None}]] /\ parameter \subseteq Layers
  BY DEF IInv, TypeOK
<1>4. /\ parts' \in [Layers -> [PartNames -> Kinds \cup {None}]]
      /\ \A l \in Layers \ {layer} : parts'[l] = parts[l]
      /\ parts'[layer] = NoParts
  BY <1>1, <1>2, <1>3 DEF NoParts
<1>5. Untouched(layer)'
  BY <1>1, <1>4 DEF Untouched, NoParts
<1>6. \A l \in Layers \ {layer} : l \in parameter' <=> l \in parameter
  BY <1>1
<1>7. /\ \A l \in Layers \ {layer} : Untouched(l)' \/ Converted(l)'
      /\ \A l \in Layers \ {layer} : Converted(l)' = Converted(l)
      /\ \A l \in Layers \ {layer} : Converted(l)' => ShapeOf[l] \in Shapes
      /\ {l \in Layers : Converted(l)}' \ {layer} = {l \in Layers : Converted(l)} \ {layer}
      /\ \A l \in todo' : Untouched(l)'
  BY <1>1, <1>4, <1>6, OtherLayers
<1>8. /\ CacheInvariant' /\ LoopInvariant' /\ kinds' \in {<<>>, <<"w8">>}
      /\ admission' \in [Shapes \X Kinds -> {"none", "accepted", "rejected", "error"}]
      /\ \A key \in Shapes \X Kinds :
            admission[key] \in {"rejected", "error"} => admission'[key] \in {"rejected", "error"}
  BY <1>1, <1>2, <1>5, GiveUpKind
<1>9. \A l \in Layers : Converted(l)' => l # layer
  BY <1>1, <1>5 DEF Untouched, Converted
<1>10. TypeOK'
  <2>1. installed' \in 0 .. Len(Parts) /\ parameter' \subseteq Layers
    BY <1>1, <1>2, <1>3, PartsFacts
  <2> QED BY <1>1, <1>2, <1>4, <1>8, <2>1 DEF IInv, TypeOK, envVars
<1>11. LayersUsable'
  BY <1>1, <1>5, <1>7 DEF IInv, LayersUsable
<1>12. QuantisedWhenServing'
  <2>1. {l \in Layers : Converted(l)}' = {l \in Layers : Converted(l)} \ {layer}
    BY <1>7, <1>9
  <2> QED BY <1>1, <1>2, <2>1 DEF QuantisedWhenServing
<1>13. OnlyAdmittedKinds'
  <2>1. \A key \in Shapes \X Kinds : Len(benchmarks'[key]) <= 1
    BY <1>1 DEF IInv, OnlyAdmittedKinds
  <2>2. SUFFICES ASSUME NEW l \in Layers, NEW k \in Kinds,
                        Converted(l)', parts'[l]["weight"] = k
                 PROVE  /\ benchmarks'[<<ShapeOf[l], k>>] = <<"accepted">>
                        /\ (k = "w8" /\ Mode' = "hybrid_w4" /\ ShapeOf[l] \in W4MlpShapes) =>
                              admission'[<<ShapeOf[l], "w4">>] \in {"rejected", "error"}
    BY <2>1 DEF OnlyAdmittedKinds
  <2>3. l \in Layers \ {layer}
    BY <1>9, <2>2
  <2>4. parts'[l] = parts[l] /\ Converted(l) /\ parts[l]["weight"] = k
    BY <1>4, <1>7, <2>2, <2>3
  <2>5. UNCHANGED <<envVars, benchmarks>>
    BY <1>1
  <2> QED BY <1>1, <1>8, <2>3, <2>4, <2>5, OthersAdmitted
<1>14. InstallInvariant'
  BY <1>1 DEF InstallInvariant
<1>15. \A l \in Layers : Converted(l)' => ShapeOf[l] \in Shapes
  BY <1>2, <1>7
<1> QED BY <1>7, <1>8, <1>10, <1>11, <1>12, <1>13, <1>14, <1>15 DEF IInv

\* Counting the converted layer keeps the invariant.
LEMMA FinishInstallInv ==
    ASSUME IInv, FinishInstall
    PROVE  IInv'
<1>1. /\ pc = "install" /\ installed = 6
      /\ active' = active + 1 /\ installed' = 0
      /\ pc' = "modules" /\ kinds' = <<>>
      /\ UNCHANGED <<envVars, library, admission, layerVars, todo, benchmarks, forward>>
  BY PartsFacts DEF FinishInstall
<1>2. /\ layer \in Layers /\ kinds[1] \in Kinds /\ layer \notin parameter
      /\ \A i \in 1 .. 6 : parts[layer][Parts[i]] = kinds[1]
      /\ active = Cardinality({l \in Layers : Converted(l)} \ {layer})
  <2>1. /\ layer \in Layers /\ kinds[1] \in Kinds
        /\ installed > 0 => layer \notin parameter
        /\ active = Cardinality({l \in Layers : Converted(l)} \ {layer})
    BY <1>1, InstallFacts
  <2>2. \A i \in 1 .. 6 : parts[layer][Parts[i]] = IF i <= installed THEN kinds[1] ELSE None
    BY <1>1, InstallFacts
  <2>3. \A i \in 1 .. 6 : parts[layer][Parts[i]] = kinds[1]
    BY <1>1, <2>2
  <2>4. installed > 0
    BY <1>1
  <2> QED BY <2>1, <2>3, <2>4
<1>3. Converted(layer)
  <2>1. ASSUME NEW p \in PartNames PROVE parts[layer][p] = kinds[1]
    <3>1. PICK i \in 1 .. 6 : p = Parts[i]
      BY PartsFacts
    <3>2. parts[layer][Parts[i]] = kinds[1]
      BY <1>2
    <3> QED BY <3>1, <3>2
  <2> QED BY <1>2, <2>1 DEF Converted
<1>4. active + 1 = Cardinality({l \in Layers : Converted(l)})
  <2> DEFINE C == {l \in Layers : Converted(l)}
  <2>1. IsFiniteSet(C)
    BY FS_Subset, QuantAssumption
  <2>2. layer \in C
    BY <1>2, <1>3
  <2>3. Cardinality(C \ {layer}) = Cardinality(C) - 1
    BY <2>1, <2>2, FS_RemoveElement
  <2>4. Cardinality(C) \in Nat
    BY <2>1, FS_CardinalityType
  <2>5. active = Cardinality(C \ {layer})
    BY <1>2
  <2> HIDE DEF C
  <2>6. active + 1 = Cardinality(C)
    BY <2>3, <2>4, <2>5
  <2> QED BY <2>6 DEF C
<1>5. /\ \A l \in Layers : Untouched(l)' = Untouched(l) /\ Converted(l)' = Converted(l)
      /\ {l \in Layers : Converted(l)}' = {l \in Layers : Converted(l)}
  BY <1>1, LayersUnchanged
<1>6. TypeOK'
  <2>1. installed' \in 0 .. Len(Parts) /\ active' \in Nat
    BY <1>1, PartsFacts DEF IInv, TypeOK
  <2> QED BY <1>1, <2>1 DEF IInv, TypeOK, envVars, layerVars
<1>7. LayersUsable'
  BY <1>1, <1>3, <1>5 DEF IInv, LayersUsable
<1>8. QuantisedWhenServing'
  BY <1>1, <1>4, <1>5 DEF QuantisedWhenServing
<1>9. CacheInvariant'
  BY <1>1 DEF IInv, CacheInvariant
<1>10. OnlyAdmittedKinds'
  BY <1>1, <1>9, AdmittedKept
<1>11. InstallInvariant' /\ LoopInvariant'
  BY <1>1 DEF InstallInvariant, LoopInvariant
<1>12. \A l \in todo' : Untouched(l)'
  BY <1>1, <1>5 DEF IInv, TypeOK
<1>13. \A l \in Layers : Converted(l)' => ShapeOf[l] \in Shapes
  BY <1>5 DEF IInv
<1> QED BY <1>6, <1>7, <1>8, <1>9, <1>10, <1>11, <1>12, <1>13 DEF IInv

\* The start-up gate keeps the invariant.
LEMMA GateInv ==
    ASSUME IInv, Gate
    PROVE  IInv'
<1>1. /\ pc = "modules" /\ pc' \in {"serving", "failed"}
      /\ pc' = "serving" => Mode = "off" \/ ~gfx936 \/ active > 0
      /\ UNCHANGED <<envVars, library, admission, active, layerVars, todo, layer, kinds,
                      installed, benchmarks, forward>>
  BY DEF Gate
<1>2. TypeOK'
  BY <1>1 DEF IInv, TypeOK, envVars, layerVars
<1>3. LayersUsable'
  BY <1>1, QuietStep DEF IInv, LayersUsable
<1>4. QuantisedWhenServing'
  <2> DEFINE C == {l \in Layers : Converted(l)}
  <2>1. active' = active /\ active' = Cardinality(C') /\ active = Cardinality(C) /\ C' = C
    BY <1>1, QuietStep, LayersUnchanged DEF IInv, QuantisedWhenServing
  <2>2. active > 0 => C # {}
    BY <2>1, FS_EmptySet
  <2>3. pc' = "serving" /\ Mode' # "off" /\ gfx936' => \E l \in Layers : Converted(l)'
    BY <1>1, <2>1, <2>2, ModeUnchanged DEF envVars
  <2> QED BY <1>1, <2>1, <2>3 DEF QuantisedWhenServing
<1>5. CacheInvariant'
  BY <1>1 DEF IInv, CacheInvariant
<1>6. OnlyAdmittedKinds'
  BY <1>1, <1>5, AdmittedKept
<1>7. InstallInvariant' /\ LoopInvariant'
  BY <1>1 DEF IInv, InstallInvariant, LoopInvariant
<1>8. \A k \in todo' : Untouched(k)'
  BY <1>1, QuietStep
<1> QED BY <1>1, <1>2, <1>3, <1>4, <1>5, <1>6, <1>7, <1>8, QuietStep DEF IInv

\* Every layer that is as it was, or converted, can compute.
LEMMA UsableComputes ==
    ASSUME NEW l \in Layers, Untouched(l) \/ Converted(l), NEW rows \in {1, 2}
    PROVE  Computations(l, rows) \subseteq {"bf16", "gemv", "dequant", "reference"}
<1> USE QuantAssumption
<1>1. CASE Untouched(l)
  <2>1. "quantized" \in PartNames
    BY PartsFacts
  <2>2. parts[l]["quantized"] = None /\ l \in parameter
    BY <1>1, <2>1 DEF Untouched, NoParts
  <2>3. ~IsQuantized(l) /\ l \in parameter
    BY <2>2 DEF IsQuantized
  <2> QED BY <2>3 DEF Computations
<1>2. CASE Converted(l)
  <2>1. \A p \in PartNames : parts[l][p] # None
    BY <1>2 DEF Converted, Kinds
  <2>2. IsQuantized(l)
    BY <2>1, PartsFacts DEF IsQuantized
  <2> QED BY <2>1, <2>2 DEF Computations
<1> QED BY <1>1, <1>2

\* A forward call keeps the invariant.
LEMMA ApplyInv ==
    ASSUME IInv, NEW l \in Layers, Apply(l)
    PROVE  IInv'
<1>1. /\ pc = "serving" /\ pc' = pc
      /\ UNCHANGED <<envVars, library, admission, active, layerVars, todo, layer, kinds,
                      installed, benchmarks>>
  BY DEF Apply
<1>2. forward' \in {"bf16", "gemv", "dequant", "reference"}
  <2>1. PICK rows \in {1, 2} : forward' \in Computations(l, rows)
    BY DEF Apply
  <2>2. Untouched(l) \/ Converted(l)
    BY <1>1 DEF IInv, LayersUsable
  <2> QED BY <2>1, <2>2, UsableComputes
<1>3. TypeOK'
  BY <1>1, <1>2 DEF IInv, TypeOK, envVars, layerVars
<1>4. LayersUsable'
  BY <1>1, <1>2, QuietStep DEF LayersUsable
<1>5. QuantisedWhenServing'
  <2>1. pc' = "serving" /\ Mode' # "off" /\ gfx936' => \E k \in Layers : Converted(k)'
    BY <1>1, LayersUnchanged, ModeUnchanged DEF IInv, QuantisedWhenServing, envVars
  <2> QED BY <1>1, <2>1, QuietStep DEF QuantisedWhenServing
<1>6. CacheInvariant'
  BY <1>1 DEF IInv, CacheInvariant
<1>7. OnlyAdmittedKinds'
  BY <1>1, <1>6, AdmittedKept
<1>8. InstallInvariant' /\ LoopInvariant'
  BY <1>1 DEF IInv, InstallInvariant, LoopInvariant
<1>9. \A k \in todo' : Untouched(k)'
  BY <1>1, QuietStep
<1> QED BY <1>1, <1>3, <1>4, <1>5, <1>6, <1>7, <1>8, <1>9, QuietStep DEF IInv

\* A step that changes nothing keeps the invariant.
LEMMA StutterInv ==
    ASSUME IInv, UNCHANGED vars
    PROVE  IInv'
<1>1. UNCHANGED <<env_mode, gfx936, library, admission, active, parameter, parts, todo, pc, layer,
                  kinds, installed, benchmarks, forward>>
  BY DEF vars, envVars, layerVars
<1>2. Mode' = Mode /\ Key' = Key
  BY <1>1 DEF Mode, Key
<1>3. /\ \A l \in Layers : Untouched(l)' = Untouched(l) /\ Converted(l)' = Converted(l)
      /\ {l \in Layers : Converted(l)}' = {l \in Layers : Converted(l)}
  BY <1>1, LayersUnchanged DEF layerVars
<1>4. TypeOK'
  BY <1>1 DEF IInv, TypeOK
<1>5. LayersUsable' /\ (\A l \in todo' : Untouched(l)')
  BY <1>1, <1>3 DEF IInv, LayersUsable, TypeOK
<1>6. QuantisedWhenServing' /\ \A l \in Layers : Converted(l)' => ShapeOf[l] \in Shapes
  BY <1>1, <1>2, <1>3 DEF IInv, QuantisedWhenServing
<1>7. OnlyAdmittedKinds' /\ CacheInvariant'
  BY <1>1, <1>2, <1>3 DEF IInv, OnlyAdmittedKinds, CacheInvariant
<1>8. InstallInvariant'
  BY <1>1, <1>2, <1>3 DEF IInv, InstallInvariant, Untouched
<1>9. LoopInvariant'
  BY <1>1, <1>2, <1>3 DEF IInv, LoopInvariant, Untouched
<1> QED BY <1>4, <1>5, <1>6, <1>7, <1>8, <1>9 DEF IInv
-------------------------------------------------------------------------------
\* Loading, with any of its calls raising, and serving keep the inductive
\* invariant.
THEOREM Invariance == Spec => []IInv
<1>1. Init => IInv
  BY InitInv
<1>2. IInv /\ [Next]_vars => IInv'
  <2> SUFFICES ASSUME IInv, [Next]_vars PROVE IInv'
    OBVIOUS
  <2>1. ASSUME NEW l \in Layers, SkipLayer(l) PROVE IInv'
    BY <2>1, SkipLayerInv
  <2>2. ASSUME NEW l \in Layers, StartLayer(l) PROVE IInv'
    BY <2>2, StartLayerInv
  <2>3. CASE GiveUpLayer
    BY <2>3, GiveUpLayerInv
  <2>4. CASE SkipKind
    BY <2>4, SkipKindInv
  <2>5. CASE PackWeight
    BY <2>5, PackWeightInv
  <2>6. CASE BenchmarkCandidate
    BY <2>6, BenchmarkCandidateInv
  <2>7. CASE ConversionFails
    BY <2>7, ConversionFailsInv
  <2>8. CASE InstallPart
    BY <2>8, InstallPartInv
  <2>9. CASE InstallFails
    BY <2>9, InstallFailsInv
  <2>10. CASE FinishInstall
    BY <2>10, FinishInstallInv
  <2>11. CASE Gate
    BY <2>11, GateInv
  <2>12. ASSUME NEW l \in Layers, Apply(l) PROVE IInv'
    BY <2>12, ApplyInv
  <2>13. CASE Refused \/ UNCHANGED vars
    BY <2>13, StutterInv DEF Refused
  <2> QED BY <2>1, <2>2, <2>3, <2>4, <2>5, <2>6, <2>7, <2>8, <2>9, <2>10, <2>11, <2>12, <2>13
          DEF Next, LoaderStep
<1> QED BY <1>1, <1>2, PTL DEF Spec

\* Whatever raises, every layer has its own weight or a complete quantised one,
\* and apply never finds a part missing.
THEOREM LayersAlwaysUsable == Spec => []LayersUsable
<1>1. IInv => LayersUsable
  BY DEF IInv
<1> QED BY <1>1, Invariance, PTL

\* The count behind the start-up gate is exact, so a server that was asked to
\* quantise never serves without a converted layer.
THEOREM NeverServesUnquantised == Spec => []QuantisedWhenServing
<1>1. IInv => QuantisedWhenServing
  BY DEF IInv
<1> QED BY <1>1, Invariance, PTL

\* Only accepted kinds are installed, W8 in place of a preferred W4 only after
\* W4 was given up, and no shape is benchmarked twice for a kind.
THEOREM AdmissionRespected == Spec => []OnlyAdmittedKinds
<1>1. IInv => OnlyAdmittedKinds
  BY DEF IInv
<1> QED BY <1>1, Invariance, PTL
-------------------------------------------------------------------------------
\* Two four-bit values survive pack_w4 and the reference unpacking, although
\* the byte is computed in signed arithmetic that overflows for a negative
\* high nibble.
THEOREM NibblesRoundTrip ==
    ASSUME NEW low \in -8 .. 7, NEW high \in -8 .. 7
    PROVE  UnpackPair(PackPair(low, high)) = <<low, high>>
<1> DEFINE l == low % 16
           h == high % 16
<1>1. l \in 0 .. 15 /\ h \in 0 .. 15 /\ Signed(l) = low /\ Signed(h) = high
  BY DEF Signed
<1>2. PackPair(low, high) = h * 16 + l
  <2> HIDE DEF l, h
  <2>1. ToUint8(ToInt8(h * 16) + l) = h * 16 + l
    BY <1>1 DEF ToUint8, ToInt8
  <2> QED BY <2>1 DEF PackPair, l, h
<1> HIDE DEF l, h
<1>3. (h * 16 + l) % 16 = l /\ (h * 16 + l) \div 16 = h
  BY <1>1
<1> QED BY <1>1, <1>2, <1>3 DEF UnpackPair

\* The chunks in which the rows of a weight are packed or compared cover every
\* row once, the last chunk being shorter where the sizes do not divide.
THEOREM RowsInOneChunk ==
    ASSUME NEW n \in Nat \ {0}, NEW rows \in Nat, NEW r \in 0 .. rows - 1
    PROVE  \E i \in Nat : /\ i * n < rows
                          /\ r \in RowChunk(i, n, rows)
                          /\ \A j \in Nat : r \in RowChunk(j, n, rows) => j = i
<1>1. PICK i \in Nat : i * n <= r /\ r < i * n + n
  <2>1. r \div n \in Nat /\ r = n * (r \div n) + (r % n) /\ r % n \in 0 .. n - 1
    OBVIOUS
  <2> DEFINE q == r \div n
             prod == q * n
  <2>2. q \in Nat /\ prod \in Nat /\ r = prod + (r % n)
    BY <2>1
  <2> HIDE DEF prod
  <2>3. prod <= r /\ r < prod + n
    BY <2>1, <2>2
  <2>4. q * n <= r /\ r < q * n + n
    BY <2>3 DEF prod
  <2> HIDE DEF q
  <2> QED BY <2>2, <2>4
<1>2. r \in RowChunk(i, n, rows) /\ i * n < rows
  BY <1>1 DEF RowChunk
<1>3. ASSUME NEW j \in Nat, j * n <= r, r < j * n + n PROVE j = i
  <2>1. CASE j < i
    <3>1. (j + 1) * n <= i * n
      BY <2>1
    <3> QED BY <1>1, <1>3, <3>1
  <2>2. CASE i < j
    <3>1. (i + 1) * n <= j * n
      BY <2>2
    <3> QED BY <1>1, <1>3, <3>1
  <2> QED BY <2>1, <2>2
<1> QED BY <1>1, <1>2, <1>3 DEF RowChunk
===============================================================================
