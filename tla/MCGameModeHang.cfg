\* Players who create a replica before their master.
SPECIFICATION FairSpec
CONSTANTS
    n1 = n1
    n2 = n2
    n3 = n3
    Nodes = {n1, n2, n3}
    MaxVersion = 2
    Scenarios <- ReplicasFirst
PROPERTY CallsReturn
CHECK_DEADLOCK FALSE
