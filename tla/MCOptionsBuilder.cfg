\* Up to three options; none is pushed behind a value of more than 600 bytes.
CONSTANTS
    None = None
    Inputs <- MCInputs
    Typed <- MCTyped
    Raw <- MCRaw
    MaxOptions = 3
    MaxValueBytes = 600
SPECIFICATION CodecSpec
INVARIANTS
    RoundTrip
    ItemsTile
\* Bytes read, or a refused body, are the end.
CHECK_DEADLOCK FALSE
