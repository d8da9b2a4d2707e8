----------------------------- MODULE AttrOverride -----------------------------
(***************************************************************************)
(* Template overrides of the attribute dictionary (attr.c                  *)
(* attr_add_override, attr_remove_override).  An override is a struct      *)
(* attr_override owned by a caller: adding it copies the ops of the        *)
(* attribute's current template, links its own template above that one     *)
(* (template.parent) and makes it the attribute's template; the caller     *)
(* then replaces one member of the copied ops with its own hook.           *)
(* Removing it walks the chain of override templates from                  *)
(* attr->template and unlinks it wherever it is.  After removal the owner  *)
(* may free or reuse the struct.                                           *)
(*                                                                         *)
(* A template is Base (the attribute's own entry of global_keys[]) or an   *)
(* override; a hook is named by the template whose function it is.  Each   *)
(* call is one atomic step under the shared rwlock, interleaved with the   *)
(* dictionary's other calls (AttrDict).                                    *)
(***************************************************************************)
EXTENDS AttrDict, SequencesExt

CONSTANTS
    Ovr,        \* the struct attr_override objects of the callers
    OvrAttrs,   \* attributes the callers install overrides on
    Hooks,      \* the members of struct attr_ops a caller replaces
    HookOf,     \* HookOf[o]: the member the owner of o sets after adding it
    Base,       \* an attribute's own template
    Off         \* ovOn[o] of an override not installed anywhere

ASSUME OvrAttrs \subseteq Attrs /\ HookOf \in [Ovr -> Hooks]

VARIABLES
    tmpl,       \* attr->template of every attribute: Base or an override
    tpar,       \* override->template.parent
    ops,        \* override->ops: whose function each member holds
    ovOn,       \* the attribute an override is installed on, or Off
    ovSeq       \* auxiliary: the overrides installed on each attribute,
                \* most recent first, as the callers added and removed them

ovrVars == <<tmpl, tpar, ops, ovOn, ovSeq>>

Templates == Ovr \cup {Base}
Installed == {o \in Ovr : ovOn[o] # Off}

\* The ops a template provides: Base for every member of an attribute's
\* own template, a copy for an override.
OpsOf(t) == IF t = Base THEN [k \in Hooks |-> Base] ELSE ops[t]

\* The templates from t down the parent links to the first one whose
\* override flag is clear (Base), t first; the fuel n bounds the walk.
RECURSIVE ChainFrom(_, _)
ChainFrom(t, n) ==
    IF t = Base \/ n = 0 THEN <<>> ELSE Cons(t, ChainFrom(tpar[t], n - 1))

Chain(a) == ChainFrom(tmpl[a], Cardinality(Ovr) + 1)

(* attr_add_override(): copy the current template's ops (memset to zero   *)
(* when it has none: Base), take its key and type, link it as parent and   *)
(* install the override's template; the owner then sets its own member.   *)
(* An override is added only while it is not installed.                    *)
attr_add_override(a, o) ==
    /\ ovOn[o] = Off
    /\ ops' = [ops EXCEPT ![o] = [OpsOf(tmpl[a]) EXCEPT ![HookOf[o]] = o]]
    /\ tpar' = [tpar EXCEPT ![o] = tmpl[a]]
    /\ tmpl' = [tmpl EXCEPT ![a] = o]
    /\ ovOn' = [ovOn EXCEPT ![o] = a]
    /\ ovSeq' = [ovSeq EXCEPT ![a] = Cons(o, @)]
    /\ UNCHANGED vars

\* Seeded fault: the do-while loop reduced to its first test, so only an
\* override at the top of the chain is unlinked.
attr_remove_override_top(a, o) ==
    /\ ovOn[o] = a
    /\ IF tmpl[a] = o THEN tmpl' = [tmpl EXCEPT ![a] = tpar[o]]
                      ELSE UNCHANGED tmpl
    /\ ovOn' = [ovOn EXCEPT ![o] = Off]
    /\ ovSeq' = [ovSeq EXCEPT ![a] = Remove(@, o)]
    /\ UNCHANGED <<vars, tpar, ops>>

(* attr_remove_override(): pprev starts at &attr->template and follows the *)
(* parent links while the template is an override; the one equal to o is  *)
(* replaced by its parent in *pprev: attr->template when o is on top, the  *)
(* parent link of the override above it otherwise.  The struct itself is  *)
(* left as it was and returned to its owner.                               *)
attr_remove_override(a, o) ==
    LET ch == Chain(a)
        i  == SelectInSeq(ch, LAMBDA t : t = o)
    IN
    /\ ovOn[o] = a
    /\ \/ /\ i = 1
          /\ tmpl' = [tmpl EXCEPT ![a] = tpar[o]]
          /\ UNCHANGED tpar
       \/ /\ i > 1
          /\ tpar' = [tpar EXCEPT ![ch[i - 1]] = tpar[o]]
          /\ UNCHANGED tmpl
    /\ ovOn' = [ovOn EXCEPT ![o] = Off]
    /\ ovSeq' = [ovSeq EXCEPT ![a] = Remove(@, o)]
    /\ UNCHANGED <<vars, ops>>

OvrInit ==
    /\ tmpl = [a \in Attrs |-> Base]
    /\ tpar = [o \in Ovr |-> Base]
    /\ ops = [o \in Ovr |-> [k \in Hooks |-> Base]]
    /\ ovOn = [o \in Ovr |-> Off]
    /\ ovSeq = [a \in Attrs |-> <<>>]

\* The callers' calls on the original dictionary
OvrNext ==
    /\ ~crashed
    /\ \E a \in OvrAttrs, o \in Ovr :
          attr_add_override(a, o) \/ attr_remove_override(a, o)

-----------------------------------------------------------------------------
OvrTypeOK ==
    /\ tmpl \in [Attrs -> Templates]
    /\ tpar \in [Ovr -> Templates]
    /\ ops \in [Ovr -> [Hooks -> Templates]]
    /\ ovOn \in [Ovr -> OvrAttrs \cup {Off}]
    /\ ovSeq \in [Attrs -> Seq(Ovr)]

(* After any sequence of adds and removes by several owners, in any order  *)
(* (an override below the top removed first included), following the      *)
(* parent links from attr->template meets exactly the overrides still     *)
(* installed on the attribute, most recent first, and then the attribute's *)
(* own template: attr_remove_override unlinks the one it is given wherever *)
(* it sits and keeps the others linked in order.                           *)
OverrideChain ==
    \A a \in Attrs : Chain(a) = ovSeq[a]

====
