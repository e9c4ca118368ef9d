\* Every JSON value is written at any time, and the service changes by itself.
CONSTANTS
    Bits32 = 2
    Bits64 = 4
    Writes <- MCWrites
    Values <- MCValues
    Limits <- MCLimits
    Masked = "******"
    None = None
    Variants <- ItemVariants
    Unknown <- MCUnknown
    ValueError <- MCValueError
    TextOf <- as_json_value
SPECIFICATION Spec
INVARIANTS
    RoundTrip
    UniformArrays
    TextIsCurrent
PROPERTIES
    ImplementsText
