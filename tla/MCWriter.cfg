CONSTANTS
    HashLen = 2
    MaxFiles = 3
    MaxFileLength = 3
    Dicts <- SomeDicts
SPECIFICATION Spec
INVARIANTS BytesInPlace FilesComplete DataUsedExactly
