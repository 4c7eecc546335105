CONSTANTS
    Parts <- MCParts
    Merges <- MCMerges
    MaxParts = 3
    MaxItems = 2
    Calls = {c1, c2, c3, c4}
    NoEnvelope = NoEnvelope
    m1 = m1
    m2 = m2
    alice = alice
    bob = bob
    Envelopes <- MCEnvelopes
    MessageIds <- MCMessageIds
    Deployments = {TRUE, FALSE}
    MaxFaults = 1
SYMMETRY CallSymmetry
SPECIFICATION Spec
INVARIANT TypeOK
INVARIANT SeqsAreDense
INVARIANT LogCoversVersions
INVARIANT AckIsOwnVersion
INVARIANT EnvelopeAppliedOnce
INVARIANT RepliedOnce
INVARIANT EditsAreExact
PROPERTY EditsAreAtomic
CHECK_DEADLOCK FALSE
