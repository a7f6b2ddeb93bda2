SPECIFICATION Spec
CONSTANTS
    a = a
    b = b
    Comma = Comma
    Space = Space
    Char = {a, b, Comma, Space}
    NL = NL
    Tag <- TwoTags
    Opening <- Texts
    Viewport = 2
    MaxText = 5
    MaxField = 6
INVARIANT TypeOK
PROPERTIES AreaIsBuffer CursorVisible CompletionKeepsTags
