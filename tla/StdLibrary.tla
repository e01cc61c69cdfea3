----------------------------- MODULE StdLibrary -----------------------------
(***************************************************************************)
(* The standard library as a program meets it: which calls can panic, on   *)
(* which arguments, and what its types are made of.  None of this is code  *)
(* of the repository; it is what the matchers of LibraryCalls and TypeWalk *)
(* have to get right.                                                      *)
(*                                                                         *)
(* Whether an integer method can panic is computed from its arithmetic in  *)
(* small types of Mir, not listed.                                         *)
(***************************************************************************)
EXTENDS LibraryCalls

\* An integer type that stands for all those of its signedness.
Repr(anchor) == CHOOSE ty \in IntTy : Signed(ty) = (anchor = "int")

IntMethods(anchor) ==
  LET ring == {"add", "sub", "mul", "neg", "shl", "shr", "pow"} \cup DivRem
      abs  == IF anchor = "int" THEN {"abs"} ELSE {}
      logs == {"isqrt", "ilog", "ilog2", "ilog10"}
      steps == IF anchor = "uint" THEN {"next_power_of_two", "next_multiple_of"} ELSE {}
  IN ({"wrapping", "overflowing", "checked", "strict"} \X (ring \cup abs))
     \cup ({"saturating"} \X ({"add", "sub", "mul", "div", "pow"} \cup abs))
     \cup ({"checked"} \X (logs \cup steps))
     \cup ({"unbounded"} \X {"shl", "shr"})
     \cup ({""} \X ({"pow", "div_euclid", "rem_euclid", "midpoint", "abs_diff", "rotate_left",
                     "count_ones"} \cup abs \cup logs \cup steps))
     \cup ({""} \X IF anchor = "int" THEN {"unsigned_abs", "signum"}
                   ELSE {"div_ceil", "is_multiple_of"})
     \cup {<<"from", "le_bytes">>, <<"to", "le_bytes">>, <<"from", "str_radix">>}

\* The method has no result at all on these arguments.
Undefined(name, a, b) ==
  \/ name \in DivRem \cup {"div_ceil", "next_multiple_of"} /\ b = 0
  \/ name = "isqrt" /\ a < 0
  \/ name \in {"ilog", "ilog2", "ilog10"} /\ a <= 0
  \/ name = "ilog" /\ b < 2
  \/ name = "str_radix" /\ b \notin 2..36

\* The result before it is made to fit the type (of the quotient, for a
\* remainder: that is what overflows); zero for the methods that always fit.
Result_of(name, a, b) ==
  CASE name = "add" -> a + b
    [] name = "sub" -> a - b
    [] name = "mul" -> a * b
    [] name = "neg" -> -a
    [] name = "abs" -> Magnitude(a)
    [] name = "pow" -> IF b <= 0 THEN 1 ELSE a ^ b
    [] name \in DivRem -> Quotient(a, b)
    [] name = "next_multiple_of" -> b * ((a + b - 1) \div b)
    [] name = "next_power_of_two" -> CHOOSE p \in {1, 2, 4, 8} : p >= a /\ (p = 1 \/ p \div 2 < a)
    [] OTHER -> 0

Overflows(name, a, b, ty) ==
  IF name \in {"shl", "shr"} THEN b \notin 0..(Bits(ty) - 1) ELSE Result_of(name, a, b) \notin Values(ty)

IntPanics(family, name, a, b, ty) ==
  CASE family \in {"", "strict"} -> Undefined(name, a, b) \/ Overflows(name, a, b, ty)
    [] family \in Tamed \cup {"from", "to"} -> Undefined(name, a, b)
    [] OTHER -> FALSE

\* On a slice of n elements with an argument k: an index, a chunk size, or the
\* length of the other slice.
SlicePanics(name, n, k) ==
  CASE name \in {"split_at", "split_at_mut", "rotate_left", "rotate_right", "copy_within"} -> k > n
    [] name \in {"swap", "select_nth_unstable"} -> k >= n
    [] name \in {"swap_with_slice", "copy_from_slice", "clone_from_slice"} -> k # n
    [] name \in {"chunks", "chunks_exact", "rchunks", "windows", "as_chunks", "as_rchunks"} -> k = 0
    [] OTHER -> FALSE

SliceMethods ==
  {"split_at", "split_at_mut", "rotate_left", "rotate_right", "copy_within", "swap",
   "select_nth_unstable", "swap_with_slice", "copy_from_slice", "clone_from_slice", "chunks",
   "chunks_exact", "rchunks", "windows", "as_chunks", "as_rchunks", "len", "get", "first",
   "split_at_checked", "binary_search", "reverse", "sort", "sort_unstable"}

\* Panics of the remaining methods: the wrong variant, an order that is not
\* total, bounds the wrong way round, a radix out of range, a short buffer.
OtherPanics ==
  {<<"Option", "", "unwrap">>, <<"Option", "", "expect">>, <<"Result", "", "unwrap">>,
   <<"Result", "", "expect_err">>, <<"slice", "", "sort">>, <<"slice", "", "sort_unstable">>,
   <<"Ord", "", "clamp">>, <<"Iterator", "", "sum">>, <<"Iterator", "", "product">>,
   <<"Iterator", "", "step_by">>, <<"Index", "", "index">>, <<"Index", "", "index_mut">>,
   <<"char", "to", "digit">>, <<"char", "is", "digit">>, <<"char", "encode", "utf8">>,
   <<"char_fn", "from", "digit">>, <<"panicking", "", "panic_fmt">>, <<"rt", "", "begin_panic">>,
   <<"", "", "panic_any">>, <<"RefCell", "", "borrow_mut">>, <<"ops", "", "div">>}

MayPanic(p) ==
  /\ is_stdlib_namespace_path(p)
  /\ \/ /\ p.anchor \in Ints
        /\ \E a, b \in Values(Repr(p.anchor)) : IntPanics(p.family, p.name, a, b, Repr(p.anchor))
     \/ p.anchor = "slice" /\ \E n, k \in 0..2 : SlicePanics(p.name, n, k)
     \/ <<p.anchor, p.family, p.name>> \in OtherPanics

\* Calls that do what the subset forbids without panicking.
Forbidden ==
  {Path("alloc", "alloc", "", "alloc"), Path("core", "Allocator", "", "allocate"),
   Path("core", "mem", "", "transmute"), Path("std", "intrinsics", "", "transmute_unchecked"),
   Path("std", "ptr", "", "read_volatile"), Path("core", "atomic", "", "fetch_add"),
   Path("std", "thread", "", "spawn"), Path("std", "Builder", "", "spawn_scoped")}

\* Calls that return on every argument.
OtherTotal ==
  {<<"Option", "", "unwrap_or">>, <<"Option", "", "map">>, <<"Result", "", "ok">>,
   <<"Ord", "", "min">>, <<"cmp", "", "max">>, <<"PartialOrd", "", "lt">>,
   <<"convert", "", "try_from">>, <<"char", "is", "alphabetic">>, <<"char", "", "len_utf8">>,
   <<"char_fn", "from", "u32">>, <<"mem", "", "swap">>}

StdCalls ==
  {Path(r, i, m[1], m[2]) : r \in {"core", "std"}, i \in {"int"}, m \in IntMethods("int")}
  \cup {Path(r, i, m[1], m[2]) : r \in {"core", "std"}, i \in {"uint"}, m \in IntMethods("uint")}
  \cup {Path(r, "slice", "", m) : r \in {"core", "alloc"}, m \in SliceMethods}
  \cup {Path(r, t[1], t[2], t[3]) : r \in {"core", "std"},
          t \in {u \in OtherPanics \cup OtherTotal : u[1] # "rt"}}
  \cup {Path("std", "rt", "", "begin_panic"), Path("alloc", "slice", "", "concat")}
-----------------------------------------------------------------------------
\* The rule each kind of library type falls under, and the module paths it can
\* be rendered with.
Rendered(rule, names) == [rule |-> rule, names |-> names]
StdTypes ==
  {Rendered("PB008", {"mem::MaybeUninit", "mem::maybe_uninit::MaybeUninit"}),
   Rendered("PB011", {"boxed::Box"}),
   Rendered("PB012", {"vec::Vec", "string::String", "collections::VecDeque",
                      "collections::vec_deque::VecDeque", "collections::BTreeMap",
                      "collections::HashMap", "collections::binary_heap::BinaryHeap",
                      "collections::LinkedList", "borrow::Cow", "ffi::c_str::CString",
                      "path::PathBuf"}),
   Rendered("PB015", {"rc::Rc", "rc::Weak", "sync::Arc", "sync::Weak"}),
   Rendered("PB021", {"cell::Cell", "cell::RefCell", "cell::OnceCell", "cell::LazyCell"}),
   Rendered("PB022", {"cell::UnsafeCell"}),
   Rendered("PB023", {"sync::atomic::AtomicU32", "sync::atomic::AtomicBool"}),
   Rendered("PB024", {"sync::Mutex", "sync::poison::Mutex", "sync::RwLock", "sync::Condvar"}),
   Rendered("PB030", {"sync::mpsc::Sender", "sync::mpmc::Receiver"}),
   Rendered("", {"option::Option", "ops::Range", "cmp::Ordering"})}
=============================================================================
