SPECIFICATION Spec
CONSTANTS
    Pages <- MCPages
    Users = {alice, bob}
    Nobody = nobody
    Ids = {i1}
    MaxWrites = 3
SYMMETRY Alike
INVARIANTS
    
    OwnChangeShown
    SavedAsMeant
