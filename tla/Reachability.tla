---------------------------- MODULE Reachability ----------------------------
(***************************************************************************)
(* The two reachability gates, crates/pitbull-subset/src/reachability.rs:  *)
(* the in-crate gate of one wrapper run (#27) and the cross-crate gate of  *)
(* `cargo pitbull check`, with the path renderings they compare.           *)
(*                                                                         *)
(* A path is kept as what the code parses out of its text: the crate of    *)
(* the path (of the Self type, for a trait impl), a name, and the trait    *)
(* method an impl provides, rendered `<crate::Type as Trait>::method`.     *)
(***************************************************************************)
EXTENDS FiniteSets

NoTrait == [crate |-> "", method |-> ""]

IsTraitImpl(path) == path.trait # NoTrait

\* The crate segment of a path: for a trait impl, the crate of its Self type.
crate_of_path(path) == path.crate

\* `<Type as Trait>::method` as `Trait::method`.
trait_method_form(path) ==
  [crate |-> path.trait.crate, name |-> path.trait.method, trait |-> NoTrait]

with_trait_method_forms(set) ==
  set \cup {trait_method_form(p) : p \in {q \in set : IsTraitImpl(q)}}

\* How rustc renders the callee of a statically dispatched call: a call of a
\* trait method names the trait, not the impl it resolves to.
Rendered(path) == IF IsTraitImpl(path) THEN trait_method_form(path) ELSE path

\* Variant, used only to test the properties: fn items passed as arguments are missed.
called_paths(calls, f) ==
  {Rendered(c.to) : c \in {d \in calls : d.from = f /\ d.how = "call"}}

\* The paths of direct calls and of fn items passed as arguments.  Calls
\* through a fn pointer or dyn value and drop glue carry no path.
callee_paths(calls, f) ==
  {Rendered(c.to) : c \in {d \in calls : d.from = f /\ d.how \in {"call", "argument"}}}

\* Variant, used only to test the properties: trait calls are not matched with the impls
\* of the universe, or not with the impls that were walked.
gate_without_universe_forms(referenced, local_universe, walked, trusted) ==
  {c \in referenced \cap local_universe :
     c \notin with_trait_method_forms(walked \cup trusted)}

gate_without_walked_forms(referenced, local_universe, walked, trusted) ==
  {c \in referenced \cap with_trait_method_forms(local_universe) :
     c \notin walked \cup trusted}

unverified_reachable_callees(referenced, local_universe, walked, trusted) ==
  {c \in referenced : /\ c \in with_trait_method_forms(local_universe)
                      /\ c \notin with_trait_method_forms(walked)
                      /\ c \notin with_trait_method_forms(trusted)}
-----------------------------------------------------------------------------
(***************************************************************************)
(* The cross-crate gate, over the manifests read back from one build.      *)
(***************************************************************************)
Field(manifests, f) == UNION {m[f] : m \in manifests}

\* Variant, used only to test the properties: only the walked paths themselves cover.
CoveredByPath(manifests) == Field(manifests, "walked") \cup Field(manifests, "trusted")

Covered(manifests) ==
  with_trait_method_forms(Field(manifests, "walked") \cup Field(manifests, "trusted"))

\* The crates that count as analyzed this run, by the declared name of a
\* manifest and by the crate segment of its paths.
Analyzed(manifests) ==
  {m.crate_name : m \in manifests}
    \cup {crate_of_path(p) : p \in Field(manifests, "walked") \cup Field(manifests, "universe")}

\* Referenced members of the workspace that no run walked or trusts.
Uncovered(manifests, workspace) ==
  {r \in Field(manifests, "referenced") :
     crate_of_path(r) \in workspace /\ r \notin Covered(manifests)}

cross_crate_unverified(manifests, workspace) ==
  {r \in Uncovered(manifests, workspace) :
     /\ crate_of_path(r) \in Analyzed(manifests)
     /\ r \in with_trait_method_forms(Field(manifests, "universe"))}

\* Variant, used only to test the properties: a crate not analyzed is nobody's business.
no_indeterminate(manifests, workspace) == {}

cross_crate_indeterminate(manifests, workspace) ==
  {r \in Uncovered(manifests, workspace) : crate_of_path(r) \notin Analyzed(manifests)}
=============================================================================
