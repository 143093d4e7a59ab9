SPECIFICATION ComposingSpec
CONSTANTS
    b1 = b1
    u1 = u1
    m1 = m1
    m2 = m2
    Batches = {b1}
    Targets = {u1}
    Templates = {m1, m2}
    MaxBatch = 2
    MaxSlips = 0
    MaxTweaks = 0
    NoText = NoText
PROPERTIES VariantNotRepeated
CHECK_DEADLOCK FALSE
