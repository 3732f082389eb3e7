SPECIFICATION Spec
CONSTANTS
    e1 = e1
    e2 = e2
    n1 = n1
    n2 = n2
    o1 = o1
    o2 = o2
    None = None
    Entry = {e1}
    Number = {n1, n2}
    Owner = {o1}
    Command <- MCCommand
    MaxRetries = 2
    Timeout = 1
    MaxAge = 2
PROPERTY AcknowledgedIsSkipped
