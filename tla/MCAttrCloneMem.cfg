CONSTANTS
    root = root
    linux = linux
    vercode = vercode
    task = task
    xen = xen
    xver = xver
    extra = extra
    Attrs <- MCAttrs
    Root = root
    Parent <- MCParent
    NoParent = NoParent
    AType <- MCAType
    StaticAttrs = {vercode}
    PreSetAttrs = {task}
    PostSetAttrs = {task}
    ApiKeys <- MCApiKeysRoot
    Nums = {0, 1}
    StrIds = {s1, s2, s3}
    StaticStr = StaticStr
    BlobIds = {b1}
    NoVal = NoVal
    PreOrder <- MCPreOrder
    o1 = o1
    o2 = o2
    Ovr <- MCOvr
    OvrAttrs = {vercode}
    Hooks = {"post_set", "revalidate"}
    HookOf <- MCHookOf
    Base = Base
    Off = Off
    CloneKeys <- MCCloneKeysAll

\* the root set through the API, and every path cloned, blobs included
SPECIFICATION CloneSpec
INVARIANT MemorySafe
