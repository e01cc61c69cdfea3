------------------------------ MODULE TypeWalk ------------------------------
(***************************************************************************)
(* Types: how the adapter turns a type of the compiler into one of the     *)
(* visitor's (adapter.rs), the rules the visitor finds broken in it, and   *)
(* the size it estimates for a local of it (visitor.rs).                   *)
(*                                                                         *)
(* A type is a record with its kind in "k" and its parts in "of" (a type,  *)
(* or a tuple of them).  An ADT is named by its root and the rest of its   *)
(* path; the compiler's also has generic arguments, which the visitor's    *)
(* does not.                                                               *)
(***************************************************************************)
EXTENDS Integers, SequencesExt

CONSTANTS depth,    \* the types of the programs, and how deep each is nested
          u64_max   \* the largest u64, where sizes saturate

ASSUME U64Assumption == u64_max \in Nat \ {0}

Adt(root, name) == [k |-> "adt", root |-> root, name |-> name, is_union |-> FALSE]
Synthetic(name) == Adt("__pitbull", name)
Kind(k) == [k |-> k]
Made(k, t) == [k |-> k, of |-> t]
Array(t, n) == [k |-> "array", of |-> t, len |-> n]
Unevaluated == -1   \* an array length that cannot be evaluated

Atoms == {"bool", "char", "int", "uint", "float", "fn_def", "fn_ptr", "closure"}

Types == DOMAIN depth

\* The types a type is made of, as far as the visitor can see them: not the
\* arguments of an ADT.
Inside(t) ==
  CASE t.k \in {"ref", "raw_ptr", "slice", "array", "pat"} -> {t.of}
    [] t.k = "tuple" -> ToSet(t.of)
    [] OTHER -> {}

ValidType(t) ==
  \/ /\ t.k \in {"bool", "char", "never", "str", "dynamic", "param", "alias", "bound", "foreign",
                 "fn_def", "fn_ptr", "closure", "coroutine", "coroutine_closure",
                 "coroutine_witness"}
     /\ t = Kind(t.k)
  \/ t.k \in {"int", "uint", "float"} /\ t.bytes \in Nat
  \/ /\ t.k = "adt" /\ t.is_union \in BOOLEAN
     /\ t = [k |-> "adt", root |-> t.root, name |-> t.name, is_union |-> t.is_union, of |-> t.of]
  \/ t.k \in {"ref", "raw_ptr", "slice", "pat"} /\ t = Made(t.k, t.of)
  \/ /\ t.k = "array" /\ t = Array(t.of, t.len)
     /\ t.len \in Nat \cup {Unevaluated}
  \/ t.k = "tuple" /\ t = Made("tuple", t.of) /\ t.of \in Seq(Types)

ASSUME TypesAssumption ==
  /\ Kind("bool") \in Types
  /\ \A t \in Types :
       /\ ValidType(t) /\ depth[t] \in Nat
       /\ \A u \in Inside(t) : u \in Types /\ depth[u] < depth[t]
-----------------------------------------------------------------------------
(***************************************************************************)
(* The adapter.                                                            *)
(***************************************************************************)
\* The type a pattern type stands for, if it has a rigid one.
rigid_ty_of(t) == IF t.k \in {"param", "dynamic"} THEN Synthetic("unrigid") ELSE t

ArrayLength(n) == IF n = Unevaluated THEN u64_max ELSE n

\* One level; "part" is what becomes of the parts.
adapted_ty(t, part) ==
  CASE t.k \in Atoms \cup {"dynamic", "param"} -> t
    [] t.k = "alias" -> Kind("param")
    [] t.k = "bound" -> Kind("dynamic")
    [] t.k \in {"coroutine", "coroutine_closure"} -> Kind("closure")
    [] t.k \in {"foreign", "coroutine_witness", "never"} -> Synthetic(t.k)
    [] t.k = "str" -> Adt("core", "str")
    [] t.k = "adt" -> [t EXCEPT !.of = <<>>]
    [] t.k = "pat" -> rigid_ty_of(part[t.of])
    [] t.k \in {"ref", "raw_ptr", "slice"} -> Made(t.k, part[t.of])
    [] t.k = "array" -> Array(part[t.of], ArrayLength(t.len))
    [] t.k = "tuple" -> Made("tuple", [i \in DOMAIN t.of |-> part[t.of[i]]])

ty[t \in Types] == adapted_ty(t, ty)
-----------------------------------------------------------------------------
(***************************************************************************)
(* The rules a type breaks.                                                *)
(***************************************************************************)
\* Variant, used only to test the properties: the roots as they were matched once.
core_only(root) == root = "core"

\* The roots are interchangeable: std only re-exports what core and alloc define.
IsStdlibRoot(root) == root \in {"core", "std", "alloc"}

\* Rules by the path below the root.
StdlibRules ==
  [PB008 |-> {"mem::MaybeUninit", "mem::maybe_uninit::MaybeUninit"},
   PB011 |-> {"boxed::Box"},
   PB012 |-> {"vec::Vec", "string::String", "collections::VecDeque",
              "collections::vec_deque::VecDeque", "collections::BTreeMap",
              "collections::btree_map::BTreeMap", "collections::BTreeSet",
              "collections::btree_set::BTreeSet", "collections::HashMap",
              "collections::hash_map::HashMap", "collections::HashSet",
              "collections::hash_set::HashSet", "collections::LinkedList",
              "collections::linked_list::LinkedList", "collections::BinaryHeap",
              "collections::binary_heap::BinaryHeap", "borrow::Cow", "ffi::CString",
              "ffi::c_str::CString", "ffi::OsString", "ffi::os_str::OsString", "path::PathBuf"},
   PB015 |-> {"rc::Rc", "rc::Weak", "sync::Arc", "sync::Weak"},
   PB021 |-> {"cell::Cell", "cell::RefCell", "cell::OnceCell", "cell::LazyCell",
              "cell::SyncUnsafeCell"},
   PB022 |-> {"cell::UnsafeCell"},
   \* PB023 and PB030 match a prefix: these are the names of the models that have it
   PB023 |-> {"sync::atomic::AtomicBool", "sync::atomic::AtomicU32", "sync::atomic::AtomicUsize"},
   PB024 |-> {"sync::Mutex", "sync::RwLock", "sync::Once", "sync::OnceLock", "sync::Barrier",
              "sync::Condvar", "sync::poison::Mutex", "sync::poison::RwLock",
              "sync::poison::Once"},
   PB030 |-> {"sync::mpsc::Sender", "sync::mpsc::Receiver", "sync::mpmc::Sender",
              "sync::mpmc::Receiver"}]

SyntheticRule(name) ==
  CASE name = "never" -> {}
    [] name = "dyn_trait_fallback" -> {"PB031"}
    [] name = "coroutine_witness" -> {"PB027"}
    [] name = "foreign" -> {"PB056"}
    [] OTHER -> {"PB039"}

classify_adt(adt) ==
  CASE adt.is_union -> {"PB005"}
    [] ~adt.is_union /\ adt.root = "__pitbull" -> SyntheticRule(adt.name)
    [] ~adt.is_union /\ IsStdlibRoot(adt.root) ->
         {rule \in DOMAIN StdlibRules : adt.name \in StdlibRules[rule]}
    [] OTHER -> {}

rules_of(t, part) ==
  CASE t.k \in {"bool", "char", "int", "uint", "fn_def"} -> {}
    [] t.k = "param"   -> {"PB039"}
    [] t.k = "dynamic" -> {"PB031"}
    [] t.k = "float"   -> {"PB050"}
    [] t.k = "fn_ptr"  -> {"PB032"}
    [] t.k = "closure" -> {"PB033"}
    [] t.k \in {"ref", "array", "slice"} -> part[t.of]
    [] t.k = "raw_ptr" -> part[t.of] \cup {"PB004"}
    [] t.k = "tuple"   -> UNION {part[t.of[i]] : i \in DOMAIN t.of}
    [] t.k = "adt"     -> classify_adt(t)

\* The types of the shadow MIR.
Adapted == {ty[t] : t \in Types}

visit_ty[t \in Adapted] == rules_of(t, visit_ty)
-----------------------------------------------------------------------------
(***************************************************************************)
(* The size of a local.                                                    *)
(***************************************************************************)
Unknown == -1

\* Variant, used only to test the properties: sizes wrap at the width of u64.
WrapAround(n) == n % (u64_max + 1)

Saturate(n) == IF n > u64_max THEN u64_max ELSE n

\* The sizes of a tuple's elements together, unless one is unknown.
SaturatedSum(sizes) ==
  LET sum[n \in 0..Len(sizes)] ==
        IF n = 0 THEN 0
        ELSE IF Unknown \in {sum[n - 1], sizes[n]} THEN Unknown
        ELSE Saturate(sum[n - 1] + sizes[n])
  IN sum[Len(sizes)]

\* Integers and floats carry their bytes; those of isize and usize are 0, for
\* the width of a pointer.
min_size(t, part, ptr_bytes) ==
  CASE t.k = "bool" -> 1
    [] t.k = "char" -> 4
    [] t.k \in {"int", "uint", "float"} -> IF t.bytes = 0 THEN ptr_bytes ELSE t.bytes
    [] t.k \in {"ref", "raw_ptr", "fn_ptr", "fn_def"} -> ptr_bytes
    [] t.k = "array" -> IF part[t.of] = Unknown THEN Unknown ELSE Saturate(t.len * part[t.of])
    [] t.k = "tuple" -> SaturatedSum([n \in DOMAIN t.of |-> part[t.of[n]]])
    [] OTHER -> Unknown

estimate_min_size(type, ptr_bytes) ==
  LET size[t \in Adapted] == min_size(t, size, ptr_bytes) IN size[type]

\* Variant, used only to test the properties: the limit itself is too large.
reaches_stack_limit(t, config) ==
  LET size == estimate_min_size(t, config.target_pointer_width \div 8)
  IN size # Unknown /\ size >= config.stack_allocation_limit_bytes

exceeds_stack_limit(t, config) ==
  LET size == estimate_min_size(t, config.target_pointer_width \div 8)
  IN size # Unknown /\ size > config.stack_allocation_limit_bytes
-----------------------------------------------------------------------------
(***************************************************************************)
(* What a type is, for the properties to compare with: the parts it is     *)
(* made of, and the size the compiler gives it.                            *)
(***************************************************************************)
Parts[t \in Types] == {t} \cup UNION {Parts[u] : u \in Inside(t)}

IsPointer(t) == t.k \in {"ref", "raw_ptr"}

\* The parts that are in a value itself, not behind a pointer.
Held[t \in Types] == {t} \cup UNION {Held[u] : u \in IF IsPointer(t) THEN {} ELSE Inside(t)}

Unsized(t) == t.k \in {"slice", "str", "dynamic"}

Total(sizes) ==
  LET sum[n \in 0..Len(sizes)] == IF n = 0 THEN 0 ELSE sum[n - 1] + sizes[n]
  IN sum[Len(sizes)]

\* The greatest alignment, at least 1.
Strictest(aligns) ==
  LET max[n \in 0..Len(aligns)] ==
        IF n = 0 THEN 1 ELSE IF aligns[n] > max[n - 1] THEN aligns[n] ELSE max[n - 1]
  IN max[Len(aligns)]

RoundUp(n, to) == to * ((n + to - 1) \div to)

Extent(size, align) == [size |-> size, align |-> align]

\* Size and alignment.  Fields may be reordered: only the end needs padding.
ExtentOf(t, part, ptr_bytes) ==
  CASE t.k = "bool" -> Extent(1, 1)
    [] t.k = "char" -> Extent(4, 4)
    [] t.k \in {"int", "uint", "float"} ->
         LET bytes == IF t.bytes = 0 THEN ptr_bytes ELSE t.bytes IN Extent(bytes, bytes)
    [] IsPointer(t) -> Extent(IF Unsized(t.of) THEN 2 * ptr_bytes ELSE ptr_bytes, ptr_bytes)
    [] t.k = "fn_ptr" -> Extent(ptr_bytes, ptr_bytes)
    [] t.k = "pat" -> part[t.of]
    [] t.k = "array" -> Extent(t.len * part[t.of].size, part[t.of].align)
    [] t.k = "tuple" ->
         LET align == Strictest([n \in DOMAIN t.of |-> part[t.of[n]].align])
         IN Extent(RoundUp(Total([n \in DOMAIN t.of |-> part[t.of[n]].size]), align), align)
    [] OTHER -> Extent(0, 1)

Layout(type, ptr_bytes) ==
  LET layout[t \in Types] == ExtentOf(t, layout, ptr_bytes) IN layout[type]

\* Types whose size follows from their parts, every length being known.
HasLayout(t) ==
  \A u \in Held[t] :
    /\ u.k \in {"bool", "char", "int", "uint", "float", "ref", "raw_ptr", "fn_ptr", "fn_def",
                "never", "pat", "array", "tuple"}
    /\ u.k = "array" => u.len # Unevaluated

\* What a value takes at the least: no padding, no metadata beside a pointer.
BulkOf(t, part, ptr_bytes) ==
  CASE t.k = "pat"   -> part[t.of]
    [] t.k = "array" -> t.len * part[t.of]
    [] t.k = "tuple" -> Total([n \in DOMAIN t.of |-> part[t.of[n]]])
    [] IsPointer(t)  -> ptr_bytes
    [] OTHER -> Layout(t, ptr_bytes).size

Bulk(type, ptr_bytes) ==
  LET bulk[t \in Types] == BulkOf(t, bulk, ptr_bytes) IN bulk[type]
=============================================================================
