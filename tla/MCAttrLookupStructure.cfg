CONSTANTS
    linux = linux
    ver = ver
    file = file
    Names <- MCNames
    GlobalKeys <- MCGlobalKeys
    Keys <- MCKeysShadow
    Slots = {1, 2, 3, 4, 5, 6, 7, 8}
    Buckets = {0, 1}
    Hash <- MCHash
    Orig = Orig
    Clone = Clone
    NoKey = NoKey
    None = None
    NoCall = NoCall
    Free = Free
    Dup = Dup
SPECIFICATION Spec
INVARIANT DictStructure
