CONSTANTS
    NoCell = NoCell
    NoThread = NoThread
    Producers = {video, audio}
    Consumers = {spi}
    Cell <- MCCell
    PacketLen = 2
    Packets <- MCPackets
    Capacity = 7
SPECIFICATION Spec
PROPERTY ImplementsFifo
