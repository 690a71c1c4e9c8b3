CONSTANTS
    WireFrames <- MC_WireFrames
    StripTpids <- MC_StripTpids
INIT Init
NEXT Next

INVARIANT SpliceInBounds
