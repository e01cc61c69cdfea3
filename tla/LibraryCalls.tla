---------------------------- MODULE LibraryCalls ----------------------------
(***************************************************************************)
(* What the visitor concludes from the path of a called function           *)
(* (visitor.rs, classify_called_function and the matchers it consults).    *)
(*                                                                         *)
(* The bodies of core, std and alloc are never walked, so a panic inside   *)
(* them is visible only in the name of what is called.  A path is a        *)
(* record: the crate it is rendered under, the type, trait or module the   *)
(* method belongs to, the family prefix of the method (wrapping_,          *)
(* checked_, ...; to_ and is_ of char), and the rest of its name.          *)
(* Substring tests of the code become tests of these parts.                *)
(***************************************************************************)
EXTENDS Mir

Path(root, anchor, family, name) ==
  [root |-> root, anchor |-> anchor, family |-> family, name |-> name]

\* The callee is a constant, but not a function item: there is no path.
NoPath == Path("", "", "", "")

Result(rule, outcome) == [rule |-> rule, outcome |-> outcome]

DivRem == {"div", "rem", "div_euclid", "rem_euclid"}
Tamed  == {"wrapping", "overflowing", "saturating"}
Ints   == {"int", "uint"}      \* num::<impl i..> and num::<impl u..>

is_panic_call_path(p) ==
  \/ p.root \in {"core", "std"} /\ p.anchor = "panicking"
  \/ p.root \in {"core", "std"} /\ p.anchor = "" /\ p.name \in {"panic", "panic_any"}
  \/ /\ p.root = "std" /\ p.anchor = "rt"
     /\ p.name \in {"panic_fmt", "panic_display", "begin_panic", "begin_panic_fmt"}

is_panicking_library_call(p) ==
  \/ p.anchor = "Ord" /\ p.name = "clamp"
  \/ p.anchor \in {"Option", "Result"} /\ p.family = ""
     /\ p.name \in {"unwrap", "expect", "unwrap_err", "expect_err"}

\* Variant, used only to test the properties: the matcher as it was before
\* the division members of the wrapping, overflowing and saturating families.
int_method_by_name(p) ==
  \/ p.anchor = "int" /\ p.family = "" /\ p.name = "isqrt"
  \/ p.anchor \in Ints /\ p.family = "strict"
  \/ p.anchor \in Ints /\ p.family = ""
     /\ p.name \in {"pow", "abs", "div_euclid", "rem_euclid", "div_ceil", "ilog",
                    "ilog2", "ilog10", "next_power_of_two", "next_multiple_of"}

is_panicking_int_method(p) ==
  \/ p.anchor = "Iterator" /\ p.name \in {"sum", "product", "step_by"}
  \/ p.anchor = "int" /\ p.family = "" /\ p.name = "isqrt"
  \/ /\ p.anchor \in Ints
     /\ \/ p.family = "strict"
        \/ p.family \in Tamed /\ p.name \in DivRem
        \/ p.family = "from" /\ p.name = "str_radix"
        \/ /\ p.family = ""
           /\ p.name \in {"pow", "abs", "div_euclid", "rem_euclid", "div_ceil", "div_floor",
                          "next_power_of_two", "next_multiple_of", "ilog", "ilog2", "ilog10"}

is_panicking_char_method(p) ==
  \/ p.anchor = "char_fn" /\ <<p.family, p.name>> = <<"from", "digit">>
  \/ p.anchor = "char" /\ p.family \in {"to", "is"} /\ p.name = "digit"
  \/ p.anchor = "char" /\ p.family = "encode" /\ p.name \in {"utf8", "utf16"}

is_panicking_index_or_slice_call(p) ==
  \/ p.anchor = "Index" /\ p.name \in {"index", "index_mut"}
  \/ /\ p.anchor \in {"slice", "str"} /\ p.family = ""
     /\ p.name \in
          {"split_at", "split_at_mut", "chunks", "chunks_mut", "chunks_exact",
           "chunks_exact_mut", "rchunks", "rchunks_mut", "rchunks_exact",
           "rchunks_exact_mut", "windows", "swap", "swap_with_slice", "rotate_left",
           "rotate_right", "copy_from_slice", "clone_from_slice", "copy_within",
           "select_nth_unstable", "select_nth_unstable_by", "select_nth_unstable_by_key",
           "sort", "sort_unstable", "as_chunks", "as_chunks_mut", "as_rchunks",
           "as_rchunks_mut"}

KnownToPanic(p) ==
  \/ is_panicking_library_call(p) \/ is_panicking_int_method(p)
  \/ is_panicking_index_or_slice_call(p) \/ is_panicking_char_method(p)

is_stdlib_namespace_path(p) == p.root \in {"core", "std", "alloc"}

TotalOptionMethods ==
  {"is_some", "is_none", "is_ok", "is_err", "is_some_and", "is_none_or", "is_ok_and",
   "is_err_and", "unwrap_or", "unwrap_or_else", "unwrap_or_default", "map", "map_or",
   "map_or_else", "map_err", "and_then", "or_else", "and", "or", "xor", "zip", "transpose",
   "get_or_insert", "ok", "err", "ok_or", "ok_or_else", "as_ref", "as_mut", "take",
   "replace", "filter", "flatten", "cloned", "copied"}

TotalIntMethods ==
  {"midpoint", "abs_diff", "unsigned_abs", "signum", "is_positive", "is_negative",
   "is_power_of_two", "count_ones", "count_zeros", "leading_zeros", "trailing_zeros",
   "leading_ones", "trailing_ones", "rotate_left", "rotate_right", "swap_bytes",
   "reverse_bits", "isqrt"}

TotalSliceMethods ==
  {"len", "is_empty", "first", "last", "first_chunk", "last_chunk", "split_first",
   "split_last", "split_first_chunk", "split_last_chunk", "get", "get_mut", "iter",
   "iter_mut", "split_at_checked", "split_at_mut_checked", "binary_search", "as_ptr",
   "as_mut_ptr", "as_bytes", "contains", "starts_with", "ends_with", "fill", "reverse"}

\* The prelude: the calls trusted never to panic.
is_trusted_total_library_call(p) ==
  /\ ~KnownToPanic(p)
  /\ CASE p.anchor \in {"Option", "Result"} -> p.family = "" /\ p.name \in TotalOptionMethods
       [] p.anchor \in Ints ->
            \/ p.family \in Tamed \cup {"checked", "unbounded", "from", "to"}
            \/ p.family = "" /\ p.name \in TotalIntMethods
       [] p.anchor = "Ord" -> p.name \in {"min", "max", "cmp"}
       [] p.anchor = "cmp" -> p.name \in {"min", "max"}
       [] p.anchor \in {"PartialOrd", "PartialEq", "Ordering"} -> TRUE
       [] p.anchor = "convert" -> p.name \in {"from", "into", "try_from", "try_into", "identity"}
       [] p.anchor = "char" ->
            \/ p.family \in {"is", "to", "make_ascii"}
            \/ p.family = "" /\ p.name \in {"eq_ignore_ascii_case", "len_utf8", "len_utf16"}
       [] p.anchor = "char_fn" -> <<p.family, p.name>> = <<"from", "u32">>
       [] p.anchor \in {"slice", "str"} -> p.family = "" /\ p.name \in TotalSliceMethods
       [] OTHER -> FALSE

IsAllocator(p) ==
  \/ p.root \in {"alloc", "std"} /\ p.anchor = "alloc"
  \/ p.root \in {"core", "std"} /\ p.anchor = "Allocator"
IsTransmute(p) ==
  /\ p.root \in {"core", "std"}
  /\ \/ p.anchor = "mem" /\ p.name = "transmute"
     \/ p.anchor = "intrinsics" /\ p.name \in {"transmute", "transmute_unchecked"}
IsVolatile(p) ==
  p.root \in {"core", "std"} /\ p.anchor = "ptr" /\ p.name \in {"read_volatile", "write_volatile"}
IsAtomic(p) == p.root \in {"core", "std"} /\ p.anchor = "atomic"
IsSpawn(p) ==
  /\ p.root = "std"
  /\ \/ p.anchor = "thread" /\ p.name = "spawn"
     \/ p.anchor = "Builder" /\ p.name \in {"spawn", "spawn_scoped"}

\* A library call nothing vouches for: neither known to panic nor known not to.
IsUnmodelled(p) == is_stdlib_namespace_path(p) /\ ~is_trusted_total_library_call(p)

\* A possible panic is refused outright, or left as a (pending) obligation.
PanicVerdict(strict_panic) == {Result("PB043", IF strict_panic THEN "error" ELSE "obligation")}

classify_called_function(p, config) ==
  CASE p = NoPath -> {Result("", "gap")}
    [] is_panic_call_path(p) -> PanicVerdict(config.strict_panic)
    [] IsAllocator(p) -> {Result("PB011", "error")}
    [] IsTransmute(p) -> {Result("PB007", "error")}
    [] IsVolatile(p)  -> {Result("PB025", "error")}
    [] IsAtomic(p)    -> {Result("PB023", "error")}
    [] IsSpawn(p)     -> {Result("PB028", "error")}
    [] KnownToPanic(p) -> PanicVerdict(config.strict_panic)
    [] OTHER -> IF config.strict_library /\ IsUnmodelled(p) THEN {Result("", "gap")} ELSE {}
=============================================================================
