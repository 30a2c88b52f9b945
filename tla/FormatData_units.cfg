CONSTANTS
    ST_NONE = ST_NONE
    ST_BYTES = ST_BYTES
    ST_DURATION_NS = ST_DURATION_NS
    ST_PERCENT = ST_PERCENT
    ST_THROUGHPUT_PER_NS = ST_THROUGHPUT_PER_NS
    ST_THROUGHPUT_BYTES_PER_NS = ST_THROUGHPUT_BYTES_PER_NS
    SemanticTypes <- MCSemanticTypes
    RenderCalls <- MCRenderCalls
    ScaledCalls <- MCScaledCalls
    CellCalls <- MCCellCalls
    StatusTexts <- MCStatusTexts
    NaN = NaN
SPECIFICATION Spec
INVARIANT UnitMatchesReference
INVARIANT RoundedWithinHalfUnit
INVARIANT StatusColourUnique
