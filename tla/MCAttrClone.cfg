\* The small tree of MCAttrClone with two owners overriding the static
\* number, both replacing post_set; one value per number and two string
\* addresses keep the product of the dictionary, its clone and the
\* override chain in reach. The violation run keeps two members.
CONSTANTS
    root = root
    linux = linux
    vercode = vercode
    xen = xen
    extra = extra
    task = task
    xver = xver
    Attrs <- MCAttrsOvr
    Root = root
    Parent <- MCParentOvr
    NoParent = NoParent
    AType <- MCAType
    StaticAttrs = {vercode}
    PreSetAttrs = {}
    PostSetAttrs = {}
    ApiKeys <- MCApiKeys
    Nums = {0}
    StrIds = {s1, s2}
    StaticStr = StaticStr
    BlobIds = {}
    NoVal = NoVal
    PreOrder <- MCPreOrderOvr
    o1 = o1
    o2 = o2
    Ovr <- MCOvr
    OvrAttrs = {vercode}
    Hooks = {"post_set"}
    HookOf <- MCHookOfOne
    Base = Base
    Off = Off
    CloneKeys <- MCCloneKeysOvr

SPECIFICATION CloneSpec
INVARIANT CloneTypeOK
INVARIANT HeapOwnershipExact
INVARIANT OverrideChain
