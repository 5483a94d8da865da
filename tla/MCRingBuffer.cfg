SPECIFICATION Spec
CONSTANTS
    Byte = {0, 1}
    Zero = 0
    Chunks <- ShortChunks
    Counts = {0, 2, 3}
    NewSizes = {0, 3}
    initSize = 2
    maxArg = 8
    CeilToPowerOfTwo <- PowerOfTwo
INVARIANT TypeOK
PROPERTIES FifoSpec GrowsOnlyWhenFull
