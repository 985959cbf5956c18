SPECIFICATION Spec
CONSTANTS
    Pools = {parcel, neighbour}
    null = null
    Consumers = {house, car, vendor}
    MaxTotal = 3
INVARIANTS
    UsedIsSum
PROPERTIES
    OverOnlyByTotal
