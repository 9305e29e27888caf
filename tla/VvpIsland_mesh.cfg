SPECIFICATION FairSpec
CONSTANTS
    Meshes <- MCMeshes
    pa = pa
    pb = pb
    pc = pc
    pe = pe
    NoPort = NoPort
INVARIANTS
    MeshSettled
PROPERTIES
    Rests
