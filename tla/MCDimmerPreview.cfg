SPECIFICATION DimmerSpec
CONSTANT MaxLights = 9
INVARIANT DimmerInRange
