SPECIFICATION ConfigSpec
INVARIANTS
    SettledInBounds
    LayersInOrder
