\* Key and value sizes one past their fields: fill must not accept them silently.
CONSTANTS
    PosBits = 3
    KBits = 2
    VBits = 2
    FlagsIn <- MCFlagsIn
    PosIn <- MCPosIn
    KIn <- MCKInOver
    VIn <- MCVInOver
    PageIds <- MCPageIds
    FlagsValues <- MCFlagsValues
SPECIFICATION Spec
INVARIANTS
    FillRoundTrip
