\* Leaf elements with in-range key and value sizes; fastCheck on all headers.
CONSTANTS
    PosBits = 3
    KBits = 2
    VBits = 2
    FlagsIn <- MCFlagsIn
    PosIn <- MCPosIn
    KIn <- MCKIn
    VIn <- MCVIn
    PageIds <- MCPageIds
    FlagsValues <- MCFlagsValues
SPECIFICATION Spec
INVARIANTS
    FillRoundTrip
