SPECIFICATION Spec
CONSTANT Configurations <- LowRate
INVARIANT SuperframeFits
