SPECIFICATION Spec
CONSTANTS
    q1 = q1
    q2 = q2
    Unknown = Unknown
    Ids = {q1, q2}
    Lengths = {0, 1, 3}
    Memory = 3
    Instants = {0, 15}
    Scale = 10
    Limits = {0, 2}
    MaxAdds = 4
    TimeBits = 4
PROPERTIES
    ImplementsService
SYMMETRY Symmetric
