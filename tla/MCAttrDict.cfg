CONSTANTS
    root = root
    linux = linux
    vercode = vercode
    task = task
    xen = xen
    p2m = p2m
    xver = xver
    extra = extra
    Attrs <- MCAttrs
    Root = root
    Parent <- MCParent
    NoParent = NoParent
    AType <- MCAType
    StaticAttrs = {vercode}
    PreSetAttrs = {p2m, extra}
    PostSetAttrs = {}
    ApiKeys <- MCApiKeys
    Nums = {0, 1}
    StrIds = {s1, s2}
    StaticStr = StaticStr
    BlobIds = {b1, b2}
    NoVal = NoVal

SPECIFICATION Spec
INVARIANT TypeOK
INVARIANT ParentSet
INVARIANT OwnershipExact
