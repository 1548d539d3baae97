SPECIFICATION FairSpec
CONSTANTS
    Connections = {c1, c2, c3}
    FirstLines <- EachFirstLine
    MinPoolSize = 1
    MaxPoolSize = 2
    Nobody = Nobody
CHECK_DEADLOCK FALSE
PROPERTIES BodyIsOptional
