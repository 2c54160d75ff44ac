SPECIFICATION Spec
CONSTANTS
    Layers = {"up1", "up2", "up3", "qkv", "head"}
    Shapes = {"mlp", "attn"}
    W4MlpShapes = {"mlp"}
    Other = "other"
    None = "none"
    ShapeOf <- MCShapeOf
INVARIANTS
    LayersUsable
    QuantisedWhenServing
    OnlyAdmittedKinds
