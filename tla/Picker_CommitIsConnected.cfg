SPECIFICATION PickerSpec

CONSTANTS
    Elements <- MCElements
    Points <- MCPoints
    FromPoint <- MCFromPoint
    Pointers = {"mouse", "pen"}
    Document = Document
    Body = Body
    Host = Host
    Highlight = Highlight
    None = None
    card = card
    button = button
    section = section
    near = near
    far = far

PROPERTIES
    CommitIsConnected
