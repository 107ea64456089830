SPECIFICATION FairSpec
CONSTANTS
    u1 = u1
    u2 = u2
    u3 = u3
    n1 = n1
    n2 = n2
    n3 = n3
    Upload <- ThreeUploads
    Name <- Names
    NameOf <- OwnNames
    Millis <- OneMilli
    Source = Source
    NoFile = NoFile
    Empty = Empty
INVARIANTS
    StoredBetweenFiles
    OvertakenOnce
PROPERTIES
    ImplementsUploads
    UploadProcessed
