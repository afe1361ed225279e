CONSTANTS
    Device = {d1, d2}
    Socket = {s1, s2, s3}
    NoDevice = NoDevice
    NoSocket = NoSocket
SPECIFICATION Spec
SYMMETRY Symmetric
INVARIANTS
    OwnerIsConnection
    NoTimerWhileLive
    ServedIsNotOffline
    TagsDrain
    ServedIsNotSilent
PROPERTY LiveIsNotTaken
