CONSTANTS
    Device = {d1}
    Socket = {s1, s2, s3}
    NoDevice = NoDevice
    NoSocket = NoSocket
SPECIFICATION FairSpec
PROPERTY GoneIsNoticed
