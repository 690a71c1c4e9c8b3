CONSTANTS
    Chars <- MC_Chars
    NL <- MC_NL
    MaxLen = 5

SPECIFICATION Spec

\* run() never returns and main returns after "exit": both are final.
CHECK_DEADLOCK FALSE

INVARIANT TypeOK
INVARIANT ConfiguredNamesAdded
