SPECIFICATION Spec
CONSTANTS
    Clients = {c1}
    DstName = "upstream"
    MaxVersion = 2
    None = None
    c1 = c1
PROPERTIES
    PopulatedIsEnough
