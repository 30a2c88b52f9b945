CONSTANTS
    Toggle = Toggle
    Undefined = Undefined
    MaxBatch <- MCMaxBatch
SPECIFICATION Spec
INVARIANT TypeOK
