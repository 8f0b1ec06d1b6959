SPECIFICATION Spec
CONSTANTS
    d1 = d1
    d2 = d2
    n1 = n1
    c1 = c1
    c2 = c2
    c3 = c3
    c4 = c4
    c5 = c5
    c6 = c6
    c7 = c7
    c8 = c8
    l1 = l1
    l2 = l2
    None = None
    Devices <- MCDevices
    Paths <- MCPaths3
    Notes <- MCNotes
    Lines <- MCLines
    CopyNames <- MCCopyNames3
    Deletes = TRUE
    EditDuringRun = FALSE
    MaxEdits = 3
    MaxFails = 0
    MaxEvents = 4
SYMMETRY Symm
PROPERTY DeletionsArePublished
