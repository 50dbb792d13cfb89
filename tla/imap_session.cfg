CONSTANTS
    Users = {alice, bob}
    Folders = {inbox, sent}
    NoUser = NoUser
    MaxLiteral = 7
SPECIFICATION Spec
SYMMETRY Symmetry
INVARIANTS
    OnlyOwnMail
    ReadOnlyKeepsMail
    SelectionIsAsAsked
    LiteralIsWhole
CHECK_DEADLOCK FALSE
