\* The real delay, two batches of one channel.
CONSTANTS
    Clients = {v1}
    Keys = {k1}
    NoKey = NoKey
    Info = Info
    Root = Root
    Keep = 3
    MaxBatches = 2
SPECIFICATION Spec
PROPERTIES
    KeptThreeSeconds
