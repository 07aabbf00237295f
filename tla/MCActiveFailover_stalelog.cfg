SPECIFICATION Spec
CONSTANTS
    Nodes = {n1, n2, n3}
    NoNode = NoNode
INVARIANT
    FailoverHappened
