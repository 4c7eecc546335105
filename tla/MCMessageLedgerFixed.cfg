CONSTANTS
    Parts <- MCParts
    Merges <- MCMerges
    MaxParts = 0
    MaxItems = 0
    Calls = {c1, c2, c3}
    NoEnvelope = NoEnvelope
    m1 = m1
    m2 = m2
    alice = alice
    bob = bob
    Envelopes <- MCEnvelopes
    MessageIds <- MCMessageIds
    Deployments = {FALSE}
    MaxFaults = 0
SYMMETRY CallSymmetry
SPECIFICATION Spec
PROPERTY FixedNeverChanges
CHECK_DEADLOCK FALSE
