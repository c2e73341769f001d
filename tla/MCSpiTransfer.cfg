CONSTANTS
    NoCell = NoCell
    Packet = Packet
    uploader = uploader
    Channels = {data, cmd, uploader}
    Polled = {cmd}
    DataChannel = data
    CmdChannel = cmd
    DrainOrder <- MCDrainOrder
    TxCapacity <- MCTxCapacity
    RxCapacity <- MCRxCapacity
SPECIFICATION TransferSpec
INVARIANT TransferTypeOK
PROPERTIES
    EveryTxDrains
    EveryRxDrains
