SPECIFICATION Spec
CONSTANTS
    node = node
    meshLayer = meshLayer
    fireLayer = fireLayer
    town = town
    c1 = c1
    tel1 = tel1
    Nil = Nil
    NoExtra = NoExtra
    Event <- OneNode
    Content <- Contents
    Extra <- Extras
    Place <- Towns
    Near <- NodeNear
    Layer <- Layers
    Mesh <- Meshes
    LayerOf <- NodeLayer
    Query <- Queries
    MaxRev = 2
    MaxBoot = 1
CHECK_DEADLOCK FALSE
INVARIANTS TagMeansBody
PROPERTIES NotModifiedIsCurrent
