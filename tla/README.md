# TLA+ models of libkdumpfile

This directory holds TLA+ models of the parts of libkdumpfile
(`src/src/kdumpfile`, `src/src/addrxlat`, `src/tools/kdumpid`) that a
model checker can check, with TLC configurations for each. `PROJECT.json`
lists:

- the components, and which modules model them;
- every run and its expected outcome;
- the mutants that show each property can fail;
- the source lines each definition translates;
- the findings;
- the hazards.

## 1. The system

| Part | Source | State | Operations |
|---|---|---|---|
| Attribute dictionary | `kdumpfile/attr.c` | A tree of attributes. Each has flags (`isset`, `persist`, `dynstr`, `indirect`, ...). Its value is inline, or in a field of `kdump_shared` for the static attributes. Values own heap strings and reference-counted blobs. Dictionaries can be cloned, with a fallback to the parent. | `set_attr` and its wrappers (number, address, string, static string, blob); `check_set_attr` behind `kdump_set_attr`/`kdump_attr_ref_set`; `clear_attr`; `clear_volatile_attrs`; `attr_dict_clone`; lookups; references; iterators. |
| ELF notes parser | `kdumpfile/notes.c` | Stateless. It walks a byte buffer and writes attributes. | `process_notes`, `process_noarch_notes`, `process_arch_notes` → `do_notes` → per-producer handlers (VMCOREINFO, CORE, QEMU, Xen, .note.Xen). |
| x86_64 paging | `addrxlat/x86_64.c` | Translation system methods and maps, set up from dump facts (registers, symbols, version codes, reads through the page tables). | `pgt_x86_64` (one page-table step); the canonical check; `sys_x86_64` with the Linux and Xen setup (root page table with the KPTI retry, rdirect, ktext, directmap); virtual-address bits. |
| PFN region map | `kdumpfile/pfn.c` | An array of `(pfn, cnt, ...)` regions, grown in steps of `RGN_ALLOC_INC`. | `add_pfn_region`, `find_pfn_region` (binary search), `sort_pfn_file_maps`. |
| kdumpid PPC detection | `tools/kdumpid/ppc.c` | A disassembly buffer and a scan state (SRR0/SRR1 set). | `disas_at` loop, `append_insn`, `looks_like_kcode_ppc`. |
| kdumpid declarations | `tools/kdumpid/kdumpid.h` | Declarations only. | None. |

The translation engine (maps, the generic walk, `fulladdr_conv`) and the
dump-format readers are not in this source snapshot.

### How the parts interact

- **Notes into the dictionary.** The notes parser writes its results into
  the attribute dictionary: `num_cpus`, the VMCOREINFO blobs, the `xen.*`
  version and p2m attributes, and `arch.page_size`.
- **Dictionary into x86_64 setup.** The x86_64 setup reads attributes
  (`linux.version_code`, `xen.p2m_mfn`, ...) through the option block, and
  reads the dump through callbacks.
- **PFN map.** The format readers use it to locate pages in the file.
- **Locking.** All dictionary calls run under the per-dump rwlock, so each
  call is atomic. References and iterators are held across calls.

### What is hard to test

`PROJECT.json` lists each hazard at the line where it bites. In short:

- **Ownership.**
  - A pre_set rejection or a clear must free exactly what is owned.
  - A caller that cleans up after a failed `set_attr` must not release
    what `set_attr` already released or kept.
- **Tree shape.** `clear_volatile` must keep the path to every persistent
  attribute.
- **Name resolution.** Lookups walk hash buckets shared by other paths.
  A clone falls back to its original, and `create_attr_path` builds on
  whatever the lookup found.
- **Template overrides.** Owners add and remove overrides in any order;
  each override carries a copy of the ops below it, and a clone copies
  whatever template is on top.
- **Byte arithmetic of `do_notes`.**
  - Truncated tails and missing padding.
  - A 32-bit `size_t` that wraps.
- **Layout choice in the Xen crash-info decoder.** It picks a layout by
  pointer size and by length.
- **x86_64 setup.**
  - The order of the steps: the KPTI probe runs before `sme_mask` and
    before the reverse direct mapping exist.
  - Which error statuses are cleared and which abort.
- **PFN map.** The binary search relies on an order nothing enforces.
- **kdumpid.** A scan whose checks are made one instruction at a time.

### What makes each part correct

- **Dictionary.**
  - Every set attribute's parent is set.
  - The live heap is exactly what the set values own.
  - A lookup finds the attribute with the full path, falling back from a
    clone to its original.
  - The override chain holds exactly the installed overrides, in order.
- **Notes.**
  - Every read stays in the buffer and in its descriptor.
  - On OK, exactly the valid prefix was processed (spec §8.6).
  - The p2m MFN is the last aligned word (spec §4.D).
- **x86_64.**
  - A step agrees with a reference walk, huge pages included.
  - The KPTI fallback ends on the kernel table when that table is usable.
  - Installed direct and reverse direct mappings are the real ones.
  - A missing direct mapping is left undefined rather than failing.
- **PFN map.** `find_pfn_region` returns the region containing the PFN, or
  the next one above it (checked against a linear search).

## 2. Modules

### AttrDict (attr.c)

**Constants** (all from the MC module):

- a fixed tree of attributes (`Attrs`, `Parent`);
- the attribute types;
- the static (indirect) attributes;
- the attributes whose template has a pre_set hook (`PreSetAttrs`), and
  those whose post_set hook may fail (`PostSetAttrs`);
- the keys the API reaches;
- small value sets.

**Variables:**

- `isset`, `persist`, `dynstr`, `indirect`: `struct attr_flags`;
- `inl`: `attr->val`;
- `slot`: the `kdump_shared` fields behind `attr->pval`;
- `strLive`: the live `strdup` strings;
- `blobRef`: the blob reference counts;
- `crashed`: a NULL dereference.

One step is one library call, made under the lock. Each call is modelled
whole, as follows:

- `set_attr`:
  - `attr_has_value` decides whether hooks are skipped;
  - a pre_set rejection discards the new value with the new flags;
  - `instantiate_path` sets every unset ancestor;
  - the old value is discarded;
  - the new value goes to `*pval` for indirect attributes, inline
    otherwise;
  - the flags are replaced, keeping `indirect`;
  - a failing post_set hook leaves the value installed and returns an
    error (`PostSetFails`).
  `set_attr`'s last argument is the blob heap as the caller leaves it on
  an error return; only `process_task_struct` cleans up.
- `SetPlain`, `set_attr_string` and `SetNewBlob` are the internal callers.
  `SetNewBlob` is `process_task_struct` (notes.c): a new blob with one
  reference is set on `linux.task_struct`, and on any error the caller
  drops that reference with `internal_blob_decref`.
- `check_set_attr` is the user path: NIL clears; a string is copied and
  made persistent; a blob is referenced.
- `clear_attr` clears a whole subtree.
- `clear_volatile` clears every attribute with no persistent descendant.

A pre_set hook may reject or accept, and the model lets it do either.

**Properties:**

- `ParentSet` (spec §8.2).
- `OwnershipExact`: the live heap equals what the set values own, and no
  string is owned twice. The attr_dict run gives the string `xen.ver.extra`
  and the number `xen.p2m_mfn` a pre_set hook, and `linux.task_struct`
  none, so a rejection is exercised on a heap object without reaching the
  double release of `process_task_struct` (that one is the violation
  run's).

### AttrOverride (attr.c template overrides)

`AttrOverride` extends `AttrDict` with `attr_add_override` and
`attr_remove_override`. An override is a `struct attr_override` owned by a
caller (the callers are not in this snapshot, so `OvrAttrs` and `HookOf`
say which attribute each owner overrides and which `attr_ops` member it
then replaces).

- `tmpl[a]` is `attr->template`: `Base` (the attribute's own template) or
  an override; `tpar[o]` is `override->template.parent`.
- `ops[o]` is `override->ops`: for each member, the template whose function
  it holds. `attr_add_override` copies the ops of the current top template
  and the owner sets its own member.
- `attr_remove_override(a, o)` follows `pprev` down `Chain(a)` and rewrites
  `attr->template` (o on top) or the parent link of the override above o.
  The struct keeps its old contents and goes back to its owner, who may
  free it (`ovOn[o] = Off`).
- `ovSeq[a]` is auxiliary: the overrides the owners have installed, most
  recent first.

`OverrideChain` (in the attr_clone run): after any adds and removes in any
order, the chain from `attr->template` is exactly `ovSeq[a]`.

### AttrClone (attr.c cloning)

`AttrClone` extends `AttrOverride` with a clone of the dictionary. The
original's calls are `AttrDict`'s actions, and its owners' overrides
`AttrOverride`'s. The clone's calls interleave with them, one atomic step
each, under the shared rwlock.

- `cAttrs`, `cIsset`, `cPersist`, `cDynstr` and `cVal` are the clone's own
  attributes: its hash table and their flags and values.
- `cGlobal` is the set of `global_attrs[]` entries of the clone that point
  into the clone; the others still point into the original.
- `dangling` holds freed attributes still linked in a parent's `dir` list.
- `attr_dict_clone` makes a fresh, unset root and copies `global_attrs[]`.
- `clone_attr_path(a, oom)` is the whole of `clone_attr_path`, in one step:
  - it finds the deepest path component already in the clone;
  - it runs `clone_attr` on each component below it, then on the subtree
    of a directory (`clone_subtree`, in `PreOrder`);
  - on failure it frees what the call cloned, as the error path does.
- `clone_attr` is `new_attr` (reuse or allocate) and `copy_data`. `oom`
  names the attribute whose `calloc` or `strdup` fails, if any.
- `cTmpl[x]` is the copy's template: `clone_attr` passes `orig->template`,
  an override included, and then points `global_attrs[]` at the copy only
  if that template lies in `global_keys[]`.
- `attr_dict_free` frees the clone.
- The clone's own `set_attr` and `clear_attr` calls are not modelled.

**Properties:**

- `HeapOwnershipExact`: across both dictionaries, a string is live exactly
  when one set attribute owns it, because `copy_data` duplicates it.
- `MemorySafe` (the violation run). It requires:
  - no NULL parent is dereferenced when the root is set;
  - no NULL blob is handed to `internal_blob_decref`;
  - no freed attribute is still named by `global_attrs[]` or a child list;
  - no set string attribute of the clone is NULL;
  - `global_attrs[]` of the clone names every copy that holds a value;
  - no template or hook in use by an attribute of either dictionary
    belongs to a removed override;
  - no blob's reference count is below the number of set attributes of
    the original holding it.

### AttrLookup (attr.c name resolution and creation by path)

`AttrLookup` models how attributes are found and added by name, in the
dictionary of a context (`Orig`) and in a clone of it (`Clone`, whose
`fallback` is `Orig`). Values, flags and hooks are left to `AttrDict`; an
attribute here is its dictionary, parent and template.

- `at` maps each heap slot to `struct attr_data` (dictionary, parent,
  template, `tflags.dyntmpl`) or `Free`. `dirl` is each attribute's
  `dir`/`next` list, head first. `tbl` is each dictionary's hash table, one
  `hlist` per bucket, head first.
- A template is identified by pointer, as `keycmp` compares it: a global
  template by its index in `global_keys[]`, one from
  `alloc_attr_template` by the slot it was made for.
- A path is the sequence of its keys, so `memrchr`/`memchr` over the dots
  and `strncmp` over partial keys become sequence operations. `Hash` is
  `fold_hash` of the `phash` of a path; `PathOf` is what `path_hash` and
  `attr_hash_index` feed it.
- `KeyCmp`, `LookupChain`, `LookupDirAttr(NoFallback)` and `LookupAttr` are
  `keycmp`, the `hlist` walk and the lookups, as pure operators.
- `Init` is `attr_dict_new` over `GlobalKeys`. `create_attr_path(d, k, oom)`
  is the whole call under the root: the backward probe with the fallback
  (`FoundPrefix`), then `alloc_attr_template` and `new_attr` for each
  missing component. `oom` names the component whose allocation fails.
- `attr_dict_clone` makes the clone's root; `attr_dict_free` runs
  `dealloc_attr` on the clone's tree and frees its table. The clone can be
  made again after it is freed.

**Properties:**

- `LookupByPath`: `lookup_attr` of every key, with and without a leading
  dot, finds the attribute of the dictionary's table with that full path,
  falling back to the original only when the clone has none. This holds
  across buckets shared by paths of different lengths.
- `CreateFindsOrMakes` (an action property): `create_attr_path` returns what
  a lookup of the path then finds, and an attribute that was already there
  (in the dictionary or its fallback) rather than a second one.
- `DictStructure` (the violation run). It requires three things of every
  live dictionary:
  - its root reaches exactly the attributes of its table;
  - only directories have children;
  - a lookup under any of its directories finds what the lookup of the
    full path finds.

### NotesParser (notes.c)

A note is a record of its header fields (`namesz`, `descsz`, `type`), the
name, whether the name is NUL-terminated, and the one descriptor field a
handler decodes as a number (the format version). A buffer is up to
`MaxNotes` notes laid out back to back, cut short by one of `Cuts` bytes.

**Variables:**

- the `do_notes` locals `pos` (`hdr`), `size` and `ret`;
- `done`;
- the attributes the handlers write;
- a ghost sequence of the notes handed to `do_note`;
- a flag for any read outside the buffer or past a descriptor.

**Actions:** one step is one loop iteration.

- `ProcessNote`:
  - reads the header, checks `size < descoff + descsz`, updates `size`
    with the clamp, and moves `hdr`;
  - calls the chosen `do_note`, one of `do_noarch_note`, `do_arch_note` or
    `do_any_note`;
  - the handler's attribute writes and status are part of the same step.
- `TruncatedTail` is the `break`.
- `Return` is the loop exit.

**What the handlers decide, and how it is abstracted:**

- `process_xen_crash_info` decides the layout from `PtrSize`, `Arch` and
  `descsz` exactly as the code does.
- Field values are abstracted to tags. p2m_mfn is `"last_word"` or
  `"zero"`.
- The services the handlers call may fail: blob allocation,
  `init_cpu_prstatus` and `set_page_size`. Failure is a nondeterministic
  input.

**size_t arithmetic:**

- All `size_t` arithmetic is taken modulo `SizeMod`.
- In the 64-bit runs `SizeMod` (2^16) exceeds anything the fields can
  reach, as 2^64 does for 32-bit fields.
- In the 32-bit run, `size_t` and `Elf32_Word` have the same width. Both
  are scaled to 12 bits: a 32-bit value near 2^32 becomes one near 2^12.

**Properties:**

- `InBounds`: every header is read at a note boundary inside the buffer; no
  name or descriptor that leaves the buffer reaches a handler; no handler
  reads past its descriptor.
- `PrefixProcessed` (spec §8.6): on OK, exactly the notes that fit were
  processed. It is checked against a reference, `ValidPrefixLen`, computed
  from absolute offsets rather than the running `size`.
- `P2mIsLastWord` (spec §4.D).
- `Notes32Correct` is `InBounds /\ P2mIsLastWord`, for a 32-bit build reading a 32-bit dump. Only the violation run checks it.

### PfnMap (pfn.c)

**Constants:** the PFNs (`Pfns`), the largest region count, the growth
step `RGN_ALLOC_INC` (1024 in the code, 2 here so that growth happens on
every second region), a bound on the number of regions, the end PFNs of
the file maps and how many maps there are.

**Variables:** `regions` (the `regions` array in use), `alloc` (its
allocated length), `status` (the last allocation result) and `maps` (the
`pfn_file_map` array).

**Actions:**

- `add_pfn_region`: grow by `RGN_ALLOC_INC` when the count is a multiple
  of it (the realloc may fail, leaving everything unchanged), then append.
- `sort_pfn_file_maps`: `maps` becomes any permutation sorted by
  `map_cmp` (`qsort` is not stable, so every sorted order is allowed).

`find_pfn_region` is a `RECURSIVE` operator `Search`, the binary search of
the code step for step.

**Properties:**

- `WithinAlloc`: the regions never outgrow the allocation.
- `FindCorrect`: when the regions are sorted and disjoint (what the readers
  add), `find_pfn_region` returns the region that contains the PFN or the
  first one above it. The reference is SequencesExt `SelectInSeq`.

### X86_64Sys (x86_64.c)

The dump being opened is a record of facts, fixed for a behaviour:

- the options (`virt_bits`, `rootpgt`, `phys_base`, `xen_xlat`,
  `xen_p2m_mfn`, `version_code`);
- what the callbacks resolve: `cr4`, `pgtable_l5_enabled`, `_stext` or
  `_text`, `init_top_pgt`, `init_level4_pgt`, `cr3`, `sme_mask`,
  `page_offset_base`;
- what the dump is: 4- or 5-level paging, whether PTEs carry the SME bit,
  where the kernel maps physical memory, and which address spaces the
  reader can read;
- for Xen: whether `pgd_l4` lies in the text or in the direct mapping,
  the text base, BIGMEM or not, and whether the page-table pages are in
  the dump.

Addresses are abstracted to the regions the code tells apart. The direct
mapping is at one of the fixed bases (`2_6_0` … `5L_4_2`) or at a
randomized base (`kaslr`). `cr3` points to a kernel table at an even
frame, a kernel table at an odd frame, or the KPTI user half.

**The engine.** The walk is not in this snapshot. Its outcome is
`WalkOK`: a walk of a region succeeds when all of these hold:

- the root is the kernel table;
- the page-table pages can be read: physical memory through the reader
  or through a correct `RDIRECT`, and a KV root through the reader or
  through the minimal ktext mapping;
- SME is off or `sme_mask` is applied;
- the paging form matches the dump;
- the kernel table maps the region.

**Variables:** `pc` (the set-up function to run next), `status`, `failed`
(which step returned a failure) and `sys`, the translation system: the
PGT root, `nfields`, whether the PTE mask is applied, the kind of each
method, the direct-mapping base, the reverse base, how the KTEXT offset
was found and the KV_PHYS ranges set up.

**Actions.** Each is one function, with everything it calls:

1. `init_pgt_meth`, with `get_virt_bits`;
2. `sys_x86_64` (the layout copy may fail to allocate);
3. `RootStep`: `get_linux_pgt_root`, with the KPTI probe
   `linux_directmap`, the NOTIMPL retry and the restore;
4. `SmeStep`: `sme_mask`;
5. `XenStep`: the p2m methods;
6. `RdirectStep`: `linux_rdirect_map` when no physical space is readable;
7. `KtextStep`: `linux_ktext_map` and `set_pgt_fallback`;
8. `DirectmapStep`: `linux_directmap`.

For Xen, step 2 runs all of `map_xen_x86_64`:

- `setup_xen_pgt`: the root, and for a KV root a temporary KTEXT offset
  for the root page;
- the probes of the two direct-mapping bases and of the text bases, or
  else the version table;
- `calc_ktext_offset` (its failure cleared) and `set_pgt_fallback`.

**Properties:**

- `DirectmapCorrect`: an installed direct mapping is the real one, whether
  it was found in the page tables or taken from the version table.
- `RdirectCorrect`: a reverse direct mapping left installed uses the real
  base.
- `RootIsATable`: after set-up the root is a page table of the dump.
- `LinuxFallbacks` (spec §4.C steps 2 and 7) is the conjunction of two
  statements:
  - `KptiKernelRoot`: with a KPTI cr3 and a usable kernel table, the kernel
    table ends up as the root;
  - `DirectmapOptional`: failing to find the direct mapping never makes the
    set-up fail.
- `KtextCorrect` (only inside `ProbeFallbacks`): the KTEXT method that
  translates the Xen text uses an offset computed for text.
- `ProbeFallbacks` (spec §4.C as a whole) is `LinuxFallbacks /\
  KtextCorrect`: every probe that may fail has a fallback that still gives
  the right layout. Only the violation run checks it.

### X86_64Pgt and X86_64Translate (x86_64.c `pgt_x86_64`, engine walk)

`X86_64Pgt` models one page-table walk, as `vtop_pgt` runs it:

- The variables `mem`, `pgt` and `vaddr` hold the readable page-table
  entries of the dump, the PGT method (root, `pte_mask`, `nfields`) and the
  address. All three are chosen in `Init` and never change.
- `step` is the engine's `addrxlat_step_t`: `base`, `remain`, `idx`,
  `elemsz`.
- `LaunchStep` is the engine's launch. It rejects an address in the
  non-canonical hole as INVALID. Otherwise it splits the address into
  `idx[]` and starts at the root with `remain = nfields - 1`.
- `WalkStep` is one engine step. It calls `pgt_x86_64`, decrements
  `remain` on success, and at 0 adds `idx[0]` to the base.
- `pgt_x86_64` is translated line by line. `read_pte64` fails with NODATA
  when the entry is not in the dump and clears the `pte_mask` bits. A clear
  present bit gives NOTPRESENT. Otherwise the frame is
  `pte & PHYSADDR_MASK`. With PSE at `remain` 3 or 2 the walk ends in a
  1G or 2M page through `pgt_huge_page`, which folds the lower indices
  into the offset. Otherwise the frame is the next table or, at
  `remain` 1, the page.
- The engine's launch, step, `read_pte64` and `pgt_huge_page` are not in the
  source tree. They are modelled from spec §4.B and marked spec_modelled.

Sizes are scaled and kept in proportion:

| Model constant | Stands for |
|---|---|
| `PageShift` = 8 | 12 |
| `FieldBits` = 1 | 9 |
| `PhysBits` = 13 | 52 |
| `VaBits` = 16 | 64 |

`PAGE_SHIFT_2M` and `PAGE_SHIFT_1G` are `PageShift` plus one or two fields,
as 21 and 30 are. The flag bits keep their real positions: present is
bit 0, PSE bit 7, the PAT bit of a huge page bit `PageShift`. NX is the top
bit and the SME C-bit lies inside `PHYSADDR_MASK`.

`X86_64Translate` is the abstract specification. It states the
architectural translation of spec §4.C as one step, `out' = Translate`.
`Translate` is a recursive lookup written from the architecture: the span
of a level, its offset by `mod`, and the PSE rule. It does not reuse
`pgt_x86_64`'s masks or the engine's index folding.

**Properties:**

- `WalkRefinesTranslate`: the walk implements `X86_64Translate` under
  the refinement mapping `Out`. `Out` is the walk's status and base once
  it is done, and no result before. Every detailed step but the last is a
  stutter of the abstract specification.
  - The abstract specification's liveness is checked as `Abs!Answered`.
    This is what its weak fairness gives, because `TranslateStep` stays
    enabled until it is taken.
  - TLC cannot check `WF` through the mapping cheaply: it would have to
    solve `ENABLED` over the detailed variables.

### PpcScan (kdumpid ppc.c)

`PpcScan` models `looks_like_kcode_ppc`, which decides whether a page holds
PowerPC kernel start-up code:

- `page`, `readable` and `disasm` are the page `read_page` returns, whether
  it succeeded and whether `disassembler()` found a `print_insn`. They are
  chosen in `Init`.
- `looks_like_kcode_ppc` answers -1 for an unreadable page and 0 without a
  disassembler. Otherwise it starts `disas_at`.
- `CallPrintInsn` is the top of the `disas_at` loop: `iptr` is reset and
  `print_insn` is called. It returns 4, or -1 past the end of the page.
- `disas_fn` is one call of the print callback. `print_insn` prints an
  instruction in fragments, the mnemonic first, and `append_insn` adds each
  one to the 100-byte `insn` buffer. `remain` is a `size_t`, so it is
  computed modulo `SizeMod`. `vsnprintf` writes at most `remain - 1`
  characters and returns the untruncated length, which `iptr` advances by.
- `disas_at` is the rest of the loop body, in the code's order: a
  negative count breaks; the first three instructions must be nops
  (`pc <= 3 * 4` after the advance); an `rfi` after both `mtsrr0` and
  `mtsrr1` answers 1; otherwise the SRR flags are updated, and `.long`
  ends the scan with 0.

An instruction is abstracted to its mnemonic and the lengths of the
fragments libopcodes prints for it. libopcodes is not in the repository.

**Properties:**

- `ScanAgreesWithStartup`: the scan's answer is 1 exactly for a page that
  starts with three nops and has an `rfi` after an `mtsrr0` and an
  `mtsrr1` and before any `.long`. It is -1 exactly for an unreadable
  page. The property is stated over the whole page, not one step at a
  time, so the prologue bound and the order of the loop's checks are what
  it tests.

`overflow` records a write past the end of `insn` in `append_insn`. No
property is stated on it: the longest text libopcodes prints for the
modelled instructions is far below the 100-byte buffer.

## 3. Runs

| Run | Cfg | Expect | What it shows |
|---|---|---|---|
| attr_dict | MCAttrDict.cfg | pass | Any sequence of internal sets, user sets and clears, and clear_volatile keeps `ParentSet` and `OwnershipExact` (about 131k states). |
| attr_clone | MCAttrClone.cfg | pass | Any interleaving of the original's sets, clears and `clear_volatile`, two owners adding and removing overrides of `linux.version_code` in any order, and cloning, re-cloning and freeing a clone of `linux.version_code` and of the `linux` subtree, with any one allocation failing, keeps `HeapOwnershipExact` and `OverrideChain` (about 204k states, under 2 minutes). |
| attr_memory_safety | MCAttrCloneMem.cfg | violation | `MemorySafe` fails seven ways, and each fails alone. (1) Setting the root reaches `instantiate_path(NULL)` (attr.c:953). (2) Cloning a set blob leaves a set copy holding NULL, which is discarded through `internal_blob_decref` (attr.c:639, 374). (3) After a failed allocation the error path frees copies that `global_attrs[]` and the parent's child list still name (attr.c:754). (4) A failed `strdup` leaves a set NULL string (attr.c:631). (5) Cloning an attribute with an override leaves the clone's `global_attrs[]` naming the original and the copy using the original owner's override, also after the owner removes it (attr.c:667). (6) Adding o1 then o2 and removing o1 leaves o2's copied ops calling o1's hook (attr.c:1093). (7) `process_task_struct` drops its blob reference after `set_attr` failed: after a pre_set rejection `set_attr` has already released the blob (a second release), after a post_set failure the attribute keeps the freed blob (notes.c:159); the run gives `linux.task_struct` both hooks, as its template is not in this snapshot. TLC reports the shortest, the root set. |
| attr_lookup | MCAttrLookup.cfg | pass | Any sequence of `create_attr_path` calls (with any allocation failing) on the context's dictionary and its clone, with cloning and freeing the clone, keeps `LookupByPath` and `CreateFindsOrMakes` (about 47k states, 1 minute). |
| attr_dict_structure | MCAttrLookupStructure.cfg | violation | `DictStructure` fails three ways, and each conjunct fails alone. (1) `create_attr_path` on the clone of `linux.file` finds `linux` through the fallback and links the new attribute into the original's `dir` list, while hashing it into the clone's table (attr.c:583, 599, 527). (2) `create_attr_path` of `file.ver` after `file` was made a number gives the number a child that `dealloc_attr` and `clear_attr` never reach (attr.c:583, 470, 422). (3) The clone makes `file.linux` and then the original makes `file.ver`: the two `file` directories have different templates, so `keycmp` (attr.c:161) makes a lookup of `ver` under the clone's `file` miss what the lookup of `file.ver` finds. |
| notes_x86_64 | MCNotesParser.cfg | pass | On a 64-bit build with x86_64 dumps, every buffer of up to two notes (kdump, QEMU, Xen crash info and version, xc header and format, malformed names), cut by 0, 1, 2, 5 or 13 bytes, is parsed in bounds; exactly the valid prefix is processed; p2m_mfn is the last word. |
| notes_32bit | MCNotes32.cfg | violation | A 32-bit build reading an ia32 Xen dump breaks `Notes32Correct` (`InBounds /\ P2mIsLastWord`) in three note families. (1) A 40-byte ia32 crash-info note sets `xen.p2m_mfn` to 0 (notes.c:239 compares with the 64-bit structure size). (2) A short `.note.Xen` DUMPCORE_HEADER is read past its descriptor (notes.c:377). (3) `descoff + descsz` wraps (notes.c:468), so a descriptor outside the buffer reaches `set_blob_attr`. TLC reports one trace; each family alone (`MCNotes32`, `MCNotesShortHeader`, `MCNotesWrap`) violates it, and `InBounds` holds on the first alone. The short-header read happens with a 64-bit `size_t` too. |
| pfn_map | MCPfnMap.cfg | pass | Any sequence of region additions (with allocation failures) and sorts keeps the regions within the allocation, and the binary search agrees with a linear search (about 31k states). |
| x86_sys | MCX86_64Sys.cfg | pass | Over 6533 realistic dump-fact combinations (Linux, Xen, other OSes), `sys_x86_64` installs only the real direct, reverse direct and Xen text mappings It also leaves a page table as the root (about 57k states). |
| x86_probe_fallbacks | MCX86_64SysFallbacks.cfg | violation | Four dump families break `ProbeFallbacks`. (1) A KPTI dump whose version is known: `linux_directmap_by_ver` answers OK, the retry never runs, and the user table stays the root (x86_64.c:758). (2) A KPTI dump with SME active: the probe runs before `sme_mask` is applied (x86_64.c:789), so the user table stays the root. (3) A 4.8+ dump whose page tables cannot be walked: the version table returns NOMETH and `sys_x86_64` fails (x86_64.c:832). (4) A Xen dump with `pgd_l4` in the direct mapping whose page tables cannot be walked: `calc_ktext_offset` fails and its error is cleared (x86_64.c:1051), so KTEXT keeps the temporary offset `-XEN_DIRECTMAP` and the text region translates to the wrong pages. TLC reports one trace; each family alone (`MCDumpsKptiVersion`, `MCDumpsKptiSme`, `MCDumpsNoWalk`, `MCDumpsXen`) violates it. |
| x86_pgt_walk | MCX86_64Pgt.cfg | pass | Every walk of a small page-table tree implements the architectural translation and is eventually answered: 4 and 5 levels, 1G and 2M pages with and without PAT, PSE above the PDPT level, NX, encrypted entries with and without `pte_mask`, missing and not-present entries, and addresses at the edges of both canonical holes (about 56k states, 2 minutes). |
| ppc_scan | MCPpcScan.cfg | pass | Over 3124 pages (four prologues and every tail of up to four of `mtsrr0`, `mtsrr1`, `rfi`, `.long` and a five-operand instruction), unreadable pages and a missing disassembler, `looks_like_kcode_ppc` answers as the start-up-code description does (about 55k states). |

### Bounds and why they are enough

- **attr_dict.** The tree has 8 attributes:
  - root;
  - two top-level directories;
  - a nested directory;
  - numbers, one of them static;
  - a blob with a pre_set hook;
  - a string under the nested directory.

  So every path length up to 3 occurs. There are two strings, two blobs and
  two numbers. That gives:
  - two distinct values of each type;
  - reuse of a freed heap id;
  - a second reference to a blob;
  - a set over a set.

  The behaviour of one attribute depends on its ancestors and descendants
  only. A deeper tree or more values adds no new case.
- **notes_x86_64.** Two notes are enough:
  - a note followed by a second note;
  - the second note truncated;
  - a failure in the first note stopping the second.

  The cuts exercise:
  - missing padding (1, 2);
  - a cut into the descriptor (5);
  - a cut into the header (13).

  Descriptor sizes cover:
  - not a multiple of 4 (6, 3);
  - both Xen layouts (72, 80);
  - the version note (1280 bytes on 64-bit, 1276 on 32-bit, pagesize included).

- **pfn_map.** Five PFNs, regions of up to two pages, up to three regions
  with a growth step of two. That gives:
  - growth at 0 and 2;
  - a failed growth;
  - searches that land in, between, before and after regions;
  - three maps with equal and distinct ends for the sort.
- **x86_sys.** Each family varies the facts one part of the set-up reads.
  The rest stay those of a plain modern dump.
  - The paging-mode family: every cr4, `pgtable_l5_enabled`, `_stext` and
    option combination, 4- and 5-level, Linux and another OS.
  - The root family: every root source and cr3 kind, six version classes,
    SME on or off, readable or unreadable physical memory, and every
    direct-mapping base.
  - The readability family: KV-only readers, with or without
    `page_offset_base` and `phys_base`, and every ktext symbol.
  - The Xen family: cr3, `pgd_l4` in the text or in the direct mapping,
    `phys_base`, six version classes, every text base, BIGMEM or not.
    The pass run keeps the Xen dumps whose page tables can be read from
    the root the code picks (`XenRootUsable`). The others are where the
    stale KTEXT offset and the BIGMEM version assumption (x86_64.c:1024)
    show; `x86_probe_fallbacks` checks them.

  `Realistic` drops fact combinations no kernel produces. Examples: a
  4.4 kernel with a KASLR direct mapping, or 5-level paging before 4.14.

- **attr_clone.** The tree is the root, `linux`, the static number and a
  string under `linux` (`MCAttrsOvr`); no blob (cloning a blob is the
  violation run's case, which keeps the seven-attribute tree).
  - The product of the original, two overrides and the clone is the
    largest of the project; one number value and two string addresses
    keep it at about 204k states. Two addresses still let the original
    and the clone each hold a string.
  - Cloning `linux.version_code` copies a static value along a new path;
    cloning `linux` copies a subtree with the string.
  - Two overrides are the fewest for which removal order matters:
    removing the lower one first exercises the middle-of-chain unlink.
    Both replace `post_set` here (`MCHookOfOne`), so the copied ops never
    outlive their member; a second member (`revalidate`) multiplies the
    state space by about two and is needed only for the stale-hook case,
    which the violation run checks with two members.
  - Cloning `xen.ver` copies a subtree, re-clones it over existing copies,
    and fails at the path or in the subtree.
  - The blob is left to the violation run, where its copy always fails.

- **attr_lookup.** The globals are the root, `linux` and `linux.ver`; the
  keys are `linux.ver` (already there), `linux.file` (new, under an
  existing directory), `ver` and `file` (new at the root, `ver` named like
  a deeper attribute) and `file.ver` (through a new component). Seven slots
  hold the three globals, the clone's root and three more attributes, so
  allocation also fails by running out of slots. The hash puts `ver` and
  `linux.ver` in one bucket and `file` and `linux.file` in different ones,
  so `keycmp` has to reject a path of another length, and a hash that left
  out the directory would miss. The violation run adds `file.linux` and
  `linux`, and an eighth slot, so that both dictionaries can make a `file`
  directory.

- **x86_pgt_walk.** The tree has one table per level. Each table holds two
  entries, so both index values are read, and both entries are equal. Each
  level's entry is chosen from four kinds:
  - absent;
  - a table, with or without NX, or a table outside the dump;
  - a 1G or 2M page, with or without the PAT bit;
  - a 4K page, with or without PAT (bit 7) or NX.

  The encrypted image sets the C-bit in every present entry. It is checked
  with and without that bit in `pte_mask`. The addresses are both sides of
  the 4-level hole (2047 and 2048, 63487 and 63488) and of the 5-level hole
  (61440), plus two addresses whose indices differ. With one field bit per
  level, a huge page's offset includes a table index, so the folding of
  `pgt_huge_page` is exercised. A wider field adds values, not cases.

- **ppc_scan.** The prologues are three nops, two nops and an `mtsrr0`,
  a nop then an `rfi`, and four nops, so the bound `pc <= 3 * 4` is tested
  on both sides. Tails of up to four instructions put `mtsrr0`, `mtsrr1`,
  `rfi` and `.long` in every order. The longest text, a five-operand
  instruction, is 21 characters, as real PowerPC texts are well under 100.
  A page shorter than its scan makes `print_insn` return -1.

Every action and every disjunct of `Next` fires in the passing runs.

### Fairness

Only the walk assumes fairness: `X86_64Pgt` has `WF_vars(Next)`. `walk()`
loops in the caller's thread until `remain` is 0 or a step fails. It waits
for nothing, so it keeps taking steps. `WalkRefinesTranslate` uses this to
show that every walk is answered. Every other property is a safety
property. Each API call is atomic under the rwlock, and `do_notes` and
`sys_x86_64` terminate. The
notes, x86_64 and ppc runs set `CHECK_DEADLOCK FALSE`, because a single
`do_notes`, `sys_x86_64`, walk or `looks_like_kcode_ppc` really stops when
it returns. The attribute runs check deadlock: a dictionary can always be
set, cleared or cloned again, and in `AttrLookup` the clone can always be
freed or made again.

## 4. Plan

Modules are listed in order of importance. Each is checked on its own
before being composed with others.

1. **AttrDict** (done), with overrides in **AttrOverride** and cloning in
   **AttrClone**. Still to add:
   - the clone's own sets and clears, through `gattr()` entries that still
     name the original (attr.c:854);
   - attribute references and iterators held across calls, interleaved
     with clears by another thread (two threads, lock-step calls).
   Name resolution and `create_attr_path` are done in **AttrLookup**.
2. **NotesParser** (done).
3. **X86_64Pgt** (done, with the abstract `X86_64Translate` it refines).
4. **X86_64Sys** (done: Linux, Xen and other OSes).
5. **PfnMap** (done).
6. **PpcScan** (done).
7. **Composition**: NotesParser writing into AttrDict (`set_attr` on blob
   and number attributes), so that ownership is checked across the parser.
8. **Abstract specifications**:
   - a map-lookup refinement for the translation engine (spec-modelled,
     since its code is not in this snapshot), with X86_64Setup's maps
     shown to implement it;
   - an abstract "attribute store" (key → value, with persistence) that
     AttrDict refines.

## 5. What is not modelled

- **Lookup in AttrDict and AttrClone.** These name attributes directly.
  Lookup by path and hashing are modelled on their own in `AttrLookup`.
- **Attribute references, iterators, `kdump_get_attr` and
  `lookup_attr_child`.** They only read the dictionary under the lock.
  References and iterators matter only when they are held across calls
  by several threads, which no module yet models.
- **Formatting of error messages.**
- **The architecture register decoders** (`process_prstatus`,
  `process_qemu_cpustate`). They live in files not in this snapshot.
- **The attribute templates and their hooks** (`global_keys`). They are not
  in this snapshot either.
  - The dictionary model lets the attributes of `PreSetAttrs` be rejected
    or accepted.
  - The notes model assumes its sets succeed.
- **The translation engine beyond one PGT walk, the format readers and the
  I/O cache.** Their code is not in this snapshot. The engine's walk is
  modelled from spec §4.B in `X86_64Pgt`.
- **The rest of the `kdumpid` CLI.** Only its PowerPC detection is
  modelled; `kdumpid.h` holds declarations only.
