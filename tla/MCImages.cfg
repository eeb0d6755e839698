\* Two tags, the second with a name that looks like an ID, of two images;
\* two requests at a time; a container is created under the one name there is.
CONSTANTS
    dA = dA
    dB = dB
    ContainerID = {c1, c2}
    Name = {web}
    NoName = NoName
    Data <- ImageData
    Absent = Absent
    NoID = NoID
    Digest = {dA, dB}
    NoImage = NoImage
    NRefs = 2
    HexRef = {2}
    HexID = NoImage
    CreateFrom <- From
    CreateName = {web}
    Thread = {t1, t2}
SYMMETRY Symmetry
SPECIFICATION ISpec
INVARIANTS IndexConsistent DigestPinned
PROPERTIES ImplementsNameSpace ImagesInUseStay
