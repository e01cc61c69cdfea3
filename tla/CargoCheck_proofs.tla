-------------------------- MODULE CargoCheck_proofs --------------------------
(***************************************************************************)
(* Proofs about checks of a workspace, for every workspace, every number   *)
(* of checks and every sequence of edits between and during them.          *)
(***************************************************************************)
EXTENDS CargoCheck, TLAPS, FiniteSetTheorems

\* The walk recorded in a cache entry of c found nothing in what it covered.
CleanEntry(c, entry) ==
  Walked(Program[c], entry.section) \cap entry.defects \subseteq Binding(Program[c].trusted)

\* A member is left behind by cargo only when it is fresh and what it depends
\* on is built, unless something failed.
LeftFresh ==
  phase # "idle" /\ ~ failed =>
    \A c \in Members \ todo : Fresh(c) /\ Deps[c] \subseteq built

\* The bundle is of the last analysis of its crate, if that had one to write.
BundleFresh ==
  \A b \in bundle :
    /\ Fresh(b.crate) /\ b.crate \notin unwritten
    /\ Obliged(b.crate, cache[b.crate].section)
    => b.entry = cache[b.crate]

\* Until something fails, the crate that wrote the file last in this check is
\* the one the file names.
NamesAWriter ==
  phase # "idle" /\ ~ failed /\ Writers # {} => \E b \in bundle : b.crate \in Writers

CargoInv ==
  /\ TypeOK
  /\ \A c \in Members : Fresh(c) => CleanEntry(c, cache[c])
  /\ LeftFresh
  /\ Accepted => ~ failed /\ todo = {}
  /\ BundleFresh
  /\ NamesAWriter

LEMMA CacheRestricted ==
  ASSUME NEW S
  PROVE  /\ DOMAIN Restrict(cache, S) = S
         /\ \A c \in S : Restrict(cache, S)[c] = cache[c]
BY DEF Restrict

LEMMA WalkedAreItems ==
  ASSUME NEW c, NEW s
  PROVE  Walked(Program[c], s) \subseteq Items(c)
BY DEF Walked, Universe, Items

\* The wrapper ran on c.
LEMMA AnalyzeKeepsCargoInv ==
  ASSUME CargoInv, NEW c \in Members, Analyze(c)
  PROVE  CargoInv'
<1>1. /\ UNCHANGED <<section, defects, phase, strict, read, metadata, exit_code, edits, checks>>
      /\ phase = "building" /\ c \in todo /\ Deps[c] \subseteq built /\ ~ Fresh(c)
      /\ todo' = todo \ {c}
      /\ manifests' = manifests \cup {Manifest(c, Program[c], section)}
      /\ failed' = (failed \/ WrapperFails(c))
      /\ built' = IF WrapperFails(c) THEN built ELSE built \cup {c}
  BY DEF Analyze, Ready
<1>2. \A d \in Members :
        Fresh(d)' <=> \/ Fresh(d) /\ d \notin Dependents(c)
                      \/ d = c /\ ~ WrapperFails(c)
  BY <1>1, CacheRestricted DEF Analyze, Recached, Fresh
<1>3. \A d \in Members : Fresh(d)' => cache'[d] = IF d = c THEN Entry(c) ELSE cache[d]
  BY <1>1, <1>2, CacheRestricted DEF Analyze, Recached, Fresh
<1>4. Entry(c) = [section |-> section, defects |-> defects \cap Items(c)]
  BY DEF Entry, Items
<1>5. \A d \in Members : Fresh(d)' => CleanEntry(d, cache'[d])
  <2>1. ~ WrapperFails(c) => CleanEntry(c, Entry(c))
    BY <1>4 DEF WrapperFails, Findings, CleanEntry
  <2> QED
    BY <1>1, <1>2, <1>3, <2>1 DEF CargoInv
<1>6. LeftFresh'
  <2> SUFFICES ASSUME ~ failed', NEW d \in Members \ todo'
               PROVE  Fresh(d)' /\ Deps[d] \subseteq built'
    BY DEF LeftFresh
  <2>1. ~ failed /\ ~ WrapperFails(c)
    BY <1>1 DEF CargoInv, TypeOK
  <2>2. CASE d = c
    BY <1>1, <1>2, <2>1, <2>2
  <2>3. CASE d # c
    <3>1. Fresh(d) /\ Deps[d] \subseteq built
      BY <1>1, <2>1, <2>3 DEF CargoInv, LeftFresh
    <3>2. c \notin built
      BY <1>1 DEF CargoInv, TypeOK
    <3>3. d \notin Dependents(c)
      BY <3>1, <3>2 DEF Dependents
    <3> QED
      BY <1>1, <1>2, <3>1, <3>3
  <2> QED
    BY <2>2, <2>3
<1>7. /\ \A b \in bundle' : b \in bundle \/ b = About(c)
      /\ Cardinality(bundle') <= 1 /\ unwritten' \subseteq Members
      /\ \A b \in bundle' : b.crate \in Members /\ Obliged(b.crate, b.entry.section)
  <2>1. Cardinality({About(c)}) = 1
    BY FS_Singleton
  <2>2. Obliged(c, section) => About(c).crate \in Members
                               /\ Obliged(About(c).crate, About(c).entry.section)
    BY <1>4 DEF About
  <2>3. /\ Cardinality(bundle) <= 1 /\ unwritten \subseteq Members
        /\ \A b \in bundle : b.crate \in Members /\ Obliged(b.crate, b.entry.section)
    BY DEF CargoInv, TypeOK
  <2>4. WriteBundle(c)
    BY DEF Analyze
  <2>5. CASE UNCHANGED file
    BY <2>3, <2>5 DEF file
  <2>6. CASE Obliged(c, section) /\ bundle' = {About(c)} /\ unwritten' = unwritten \ {c}
    BY <2>1, <2>2, <2>3, <2>6
  <2>7. CASE unwritten' = unwritten \cup {c} /\ UNCHANGED bundle
    BY <2>3, <2>7
  <2> QED
    BY <2>4, <2>5, <2>6, <2>7 DEF WriteBundle
<1>8. \A b, s : Obliged(b, s)' <=> Obliged(b, s)
  BY DEF Obliged
<1>9. BundleFresh'
  <2> SUFFICES ASSUME NEW b \in bundle', Fresh(b.crate)', b.crate \notin unwritten',
                      Obliged(b.crate, cache'[b.crate].section)
               PROVE  b.entry = cache'[b.crate]
    BY DEF BundleFresh, Obliged
  <2>1. CASE b = About(c)
    BY <1>3, <2>1 DEF About
  <2>2. CASE b \in bundle /\ b # About(c)
    <3>1. b.crate \in Members /\ bundle' = bundle
      BY <1>7, <2>2 DEF Analyze, WriteBundle, file
    <3>2. CASE b.crate = c
      <4>1. cache'[b.crate].section = section
        BY <1>3, <1>4, <3>1, <3>2
      <4>2. Obliged(c, section)
        BY <3>2, <4>1
      <4>3. c \in unwritten'
        BY <2>2, <4>2 DEF Analyze, WriteBundle
      <4> QED
        BY <3>2, <4>3
    <3>3. CASE b.crate # c
      <4>1. Fresh(b.crate) /\ cache'[b.crate] = cache[b.crate]
        BY <1>2, <1>3, <3>1, <3>3
      <4>2. b.crate \notin unwritten
        BY <3>3 DEF Analyze, WriteBundle, file
      <4> QED
        BY <2>2, <4>1, <4>2 DEF CargoInv, BundleFresh
    <3> QED
      BY <3>2, <3>3
  <2> QED
    BY <1>7, <2>1, <2>2
<1>10. TypeOK'
  <2>1. /\ todo' \subseteq Members /\ built' \subseteq Members \ todo' /\ failed' \in BOOLEAN
        /\ {m.crate_name : m \in manifests'} \subseteq Members \ todo'
        /\ read' \subseteq manifests'
    BY <1>1 DEF CargoInv, TypeOK, Manifest
  <2>2. DOMAIN cache' \subseteq Members
    BY CacheRestricted DEF Analyze, Recached, CargoInv, TypeOK
  <2>3. \A d \in Members : Fresh(d)' => /\ cache'[d].section \in Sections
                                        /\ cache'[d].defects = defects' \cap Items(d)
    BY <1>1, <1>2, <1>3, <1>4 DEF CargoInv, TypeOK
  <2> QED
    BY <1>1, <1>7, <1>8, <2>1, <2>2, <2>3 DEF CargoInv, TypeOK
<1>11. NamesAWriter'
  <2> SUFFICES ASSUME ~ failed', NEW d \in Writers'
               PROVE  \E b \in bundle' : b.crate \in Writers'
    BY DEF NamesAWriter
  <2>1. ~ failed /\ ~ WrapperFails(c)
    BY <1>1 DEF CargoInv, TypeOK
  <2>2. /\ AnalyzedHere' = AnalyzedHere \cup {c} /\ c \notin AnalyzedHere
        /\ AnalyzedHere \subseteq Members \ todo
    <3> DEFINE m == Manifest(c, Program[c], section)
    <3>1. m.crate_name = c
      BY DEF Manifest
    <3> HIDE DEF m
    <3>2. manifests' = manifests \cup {m}
      BY <1>1 DEF m
    <3>3. AnalyzedHere \subseteq Members \ todo
      BY DEF AnalyzedHere, CargoInv, TypeOK
    <3> QED
      BY <1>1, <3>1, <3>2, <3>3 DEF AnalyzedHere
  <2>3. ASSUME NEW e \in AnalyzedHere PROVE e # c /\ cache'[e] = cache[e]
    <3>1. Fresh(e) /\ Deps[e] \subseteq built
      BY <1>1, <2>1, <2>2 DEF CargoInv, LeftFresh
    <3>2. e \notin Dependents(c)
      BY <1>1, <3>1 DEF Dependents, CargoInv, TypeOK
    <3> QED
      BY <1>2, <1>3, <2>2, <3>1, <3>2
  <2>4. cache'[c].section = section
    BY <1>2, <1>3, <1>4, <2>1
  <2>5. \A e \in AnalyzedHere : e \in Writers' <=> e \in Writers
    <3>1. \A e \in Members \ {c} : e \in unwritten' <=> e \in unwritten
      BY DEF Analyze, WriteBundle, file
    <3> QED
      BY <1>8, <2>2, <2>3, <3>1 DEF Writers
  <2>6. CASE c \in Writers'
    <3>1. Obliged(c, section) /\ c \notin unwritten'
      BY <1>8, <2>4, <2>6 DEF Writers
    <3>2. About(c) \in bundle' /\ About(c).crate = c
      BY <3>1 DEF Analyze, WriteBundle, About
    <3> QED
      BY <2>6, <3>2
  <2>7. CASE c \notin Writers'
    <3>1. d \in AnalyzedHere /\ d \in Writers
      BY <2>2, <2>5, <2>7 DEF Writers
    <3>2. PICK b \in bundle : b.crate \in Writers
      BY <1>1, <2>1, <3>1 DEF CargoInv, NamesAWriter
    <3>3. b.crate \in Writers'
      BY <2>5, <3>2 DEF Writers
    <3>4. ~ Obliged(c, section) \/ c \in unwritten'
      BY <1>8, <2>2, <2>4, <2>7 DEF Writers
    <3>5. bundle' = bundle
      BY <3>4 DEF Analyze, WriteBundle, file
    <3> QED
      BY <3>2, <3>3, <3>5
  <2> QED
    BY <2>6, <2>7
<1> QED
  BY <1>1, <1>5, <1>6, <1>9, <1>10, <1>11 DEF CargoInv, Accepted

LEMMA CargoInvIsInductive == CargoInv /\ [Next]_vars => CargoInv'
<1> SUFFICES ASSUME CargoInv, [Next]_vars PROVE CargoInv'
  OBVIOUS
<1> USE CargoCheckAssumption
<1>1. \A b, s : Obliged(b, s)' <=> Obliged(b, s)
  BY DEF Obliged
<1>2. \A c, e : CleanEntry(c, e)' <=> CleanEntry(c, e)
  BY DEF CleanEntry
<1>3. CASE EditConfig
  BY <1>1, <1>2, <1>3
     DEF EditConfig, CargoInv, TypeOK, LeftFresh, Accepted, BundleFresh, Fresh, build, file,
         NamesAWriter, Writers, AnalyzedHere
<1>4. ASSUME NEW c \in Members, EditSource(c) PROVE CargoInv'
  <2>1. /\ UNCHANGED <<section, file, phase, strict, build, read, metadata, exit_code, checks>>
        /\ phase = "idle" /\ edits < MaxEdits /\ edits' = edits + 1
    BY <1>4 DEF EditSource
  <2>2. PICK d \in Defects : defects' = (defects \ Items(c)) \cup (d \cap Items(c))
    BY <1>4 DEF EditSource
  <2>3. defects' \in SUBSET UNION {Items(e) : e \in Members}
    BY <2>2 DEF CargoInv, TypeOK, Items
  <2>4. \A e \in Members \ {c} : defects' \cap Items(e) = defects \cap Items(e)
    BY <2>2 DEF Items
  <2>5. DOMAIN cache' = DOMAIN cache \ {c} /\ \A e \in DOMAIN cache' : cache'[e] = cache[e]
    BY <1>4 DEF EditSource, Restrict
  <2>6. \A e \in Members : Fresh(e)' => e # c /\ Fresh(e) /\ cache'[e] = cache[e]
    BY <2>5 DEF Fresh
  <2>7. TypeOK'
    BY <1>1, <2>1, <2>3, <2>4, <2>5, <2>6 DEF CargoInv, TypeOK, build, file
  <2>8. BundleFresh'
    BY <1>1, <2>1, <2>6 DEF CargoInv, TypeOK, BundleFresh, file
  <2> QED
    BY <1>2, <2>1, <2>6, <2>7, <2>8 DEF CargoInv, LeftFresh, Accepted, NamesAWriter, build
<1>5. CASE Start
  <2>1. /\ UNCHANGED <<section, defects, cache, bundle, unwritten, edits>>
        /\ phase' = "building" /\ strict' \in BOOLEAN /\ todo' = Members /\ failed' = FALSE
        /\ metadata' = TRUE /\ exit_code' = 0 /\ checks < MaxChecks /\ checks' = checks + 1
    BY <1>5 DEF Start, file
  <2>2. built' = {} /\ manifests' = {} /\ read' = {}
    BY <1>5 DEF Start
  <2>3. /\ built' \subseteq Members \ todo' /\ read' \subseteq manifests'
        /\ {m.crate_name : m \in manifests'} \subseteq Members \ todo'
    BY <2>2
  <2>4. exit_code' \in 0..2 /\ checks' \in 0..MaxChecks /\ edits' \in 0..MaxEdits
    BY <2>1 DEF CargoInv, TypeOK
  <2>5. TypeOK'
    BY <1>1, <2>1, <2>3, <2>4 DEF CargoInv, TypeOK, Fresh
  <2>6. LeftFresh' /\ ~ Accepted'
    BY <2>1 DEF LeftFresh, Accepted
  <2>7. BundleFresh'
    BY <1>1, <2>1 DEF CargoInv, BundleFresh, Fresh
  <2>8. NamesAWriter'
    BY <2>2 DEF NamesAWriter, Writers, AnalyzedHere
  <2> QED
    BY <1>2, <2>1, <2>5, <2>6, <2>7, <2>8 DEF CargoInv, Fresh
<1>6. ASSUME NEW c \in Members, UseCached(c) PROVE CargoInv'
  <2>1. Deps[c] \subseteq built /\ Fresh(c) /\ c \in todo /\ phase = "building"
    BY <1>6 DEF UseCached, Ready
  <2>2. /\ UNCHANGED <<section, defects, cache, file, phase, strict, manifests, failed, read,
                       metadata, exit_code, edits, checks>>
        /\ todo' = todo \ {c} /\ built' = built \cup {c}
    BY <1>6 DEF UseCached
  <2>3. TypeOK'
    BY <1>1, <2>1, <2>2 DEF CargoInv, TypeOK, file, Fresh
  <2>4. LeftFresh'
    BY <2>1, <2>2 DEF CargoInv, LeftFresh, Fresh
  <2>5. NamesAWriter'
    BY <1>1, <2>2 DEF CargoInv, NamesAWriter, Writers, AnalyzedHere, file
  <2> QED
    BY <1>1, <1>2, <2>1, <2>2, <2>3, <2>4, <2>5 DEF CargoInv, Accepted, BundleFresh, Fresh, file
<1>7. ASSUME NEW c \in Members, CannotAnalyze(c) PROVE CargoInv'
  <2>1. /\ UNCHANGED <<section, defects, cache, file, phase, strict, built, manifests, read,
                       metadata, exit_code, edits, checks>>
        /\ todo' = todo \ {c} /\ failed' = TRUE /\ phase = "building"
    BY <1>7 DEF CannotAnalyze, Ready
  <2> QED
    BY <1>1, <1>2, <2>1
       DEF CargoInv, TypeOK, LeftFresh, Accepted, BundleFresh, NamesAWriter, Fresh, file
<1>8. CASE Aggregate
  <2>1. /\ UNCHANGED <<section, defects, cache, file, strict, build, edits, checks>>
        /\ phase = "building" /\ phase' = "done" /\ (todo = {} \/ failed)
        /\ read' \in SUBSET manifests /\ metadata' \in BOOLEAN
        /\ exit_code' = check_exit_code(~ failed, metadata' /\ run_cross_crate_gate(read'),
                                        read' # {})
    BY <1>8 DEF Aggregate
  <2>2. exit_code' \in 0..2 /\ (exit_code' = 0 => ~ failed)
    BY <2>1 DEF check_exit_code
  <2>3. NamesAWriter'
    BY <1>1, <2>1 DEF CargoInv, NamesAWriter, Writers, AnalyzedHere, file, build
  <2> QED
    BY <1>1, <1>2, <2>1, <2>2, <2>3
       DEF CargoInv, TypeOK, LeftFresh, Accepted, BundleFresh, Fresh, file, build
<1>9. CASE Settle
  BY <1>1, <1>2, <1>9
     DEF Settle, CargoInv, TypeOK, LeftFresh, Accepted, BundleFresh, NamesAWriter, Fresh, file, build
<1>10. CASE UNCHANGED vars
  BY <1>1, <1>2, <1>10
     DEF vars, CargoInv, TypeOK, LeftFresh, Accepted, BundleFresh, Fresh, file, build,
         NamesAWriter, Writers, AnalyzedHere
<1> QED
  BY <1>3, <1>4, <1>5, <1>6, <1>7, <1>8, <1>9, <1>10, AnalyzeKeepsCargoInv
     DEF Next, Cargo, Finished

LEMMA CargoInvAlways == Spec => []CargoInv
<1>1. Init => CargoInv
  <2> SUFFICES ASSUME Init PROVE CargoInv
    OBVIOUS
  <2>1. Cardinality(bundle) = 0 /\ DOMAIN cache = {} /\ bundle = {}
    BY FS_EmptySet DEF Init
  <2>2. defects \in SUBSET UNION {Items(c) : c \in Members}
    BY CargoCheckAssumption DEF Init, Items
  <2>3. \A c \in Members : ~ Fresh(c)
    BY <2>1 DEF Fresh
  <2>4. /\ built \subseteq Members \ todo /\ todo \subseteq Members
        /\ {m.crate_name : m \in manifests} \subseteq Members \ todo
        /\ read \subseteq manifests /\ unwritten \subseteq Members
    BY DEF Init
  <2>5. exit_code \in 0..2 /\ edits \in 0..MaxEdits /\ checks \in 0..MaxChecks
    BY CargoCheckAssumption DEF Init
  <2>6. /\ section \in Sections /\ phase = "idle" /\ strict = FALSE
        /\ failed = FALSE /\ metadata = TRUE
    BY DEF Init
  <2>7. TypeOK
    <3>1. DOMAIN cache \subseteq Members
      BY <2>1
    <3>2. \A c \in Members : Fresh(c) => /\ cache[c].section \in Sections
                                         /\ cache[c].defects = defects \cap Items(c)
      BY <2>3
    <3>3. /\ Cardinality(bundle) <= 1
          /\ \A b \in bundle : b.crate \in Members /\ Obliged(b.crate, b.entry.section)
      BY <2>1
    <3>4. strict \in BOOLEAN /\ failed \in BOOLEAN /\ metadata \in BOOLEAN
      BY <2>6
    <3>5. section \in Sections /\ phase \in {"idle", "building", "done"}
      BY <2>6
    <3> QED
      BY <2>2, <2>4, <2>5, <3>1, <3>2, <3>3, <3>4, <3>5 DEF TypeOK
  <2> QED
    BY <2>1, <2>3, <2>6, <2>7 DEF CargoInv, LeftFresh, Accepted, BundleFresh, NamesAWriter
<1> QED
  BY <1>1, CargoInvIsInductive, PTL DEF Spec

\* Type correctness of the checks of a workspace.
THEOREM CargoTypeCorrect == Spec => []TypeOK
<1>1. CargoInv => TypeOK
  BY DEF CargoInv
<1> QED
  BY <1>1, CargoInvAlways, PTL

\* Exit 0 of `cargo pitbull check` means that each member, as its source is
\* now, passed the wrapper - in this check or in the one that left it fresh.
THEOREM AcceptedIsAnalyzed == Spec => []AcceptedMeansAnalyzed
<1>1. CargoInv => AcceptedMeansAnalyzed
  <2> SUFFICES ASSUME CargoInv, Accepted, NEW c \in Members
               PROVE  /\ Fresh(c)
                      /\ Walked(Program[c], cache[c].section) \cap defects
                           \subseteq Binding(Program[c].trusted)
    BY DEF AcceptedMeansAnalyzed
  <2>1. Fresh(c)
    BY DEF CargoInv, LeftFresh, Accepted
  <2>2. cache[c].defects = defects \cap Items(c) /\ CleanEntry(c, cache[c])
    BY <2>1 DEF CargoInv, TypeOK
  <2> QED
    BY <2>1, <2>2, WalkedAreItems DEF CleanEntry
<1> QED
  BY <1>1, CargoInvAlways, PTL

\* After exit 0 the bundle file names a crate whose run of this check wrote it,
\* if any did, and is of the last analysis of the crate it names, if that left
\* obligations and could be written.
THEOREM BundleIsFresh == Spec => []BundleIsOfLastAnalysis
<1>1. CargoInv => BundleIsOfLastAnalysis
  <2> SUFFICES ASSUME CargoInv, Accepted PROVE BundleIsOfLastAnalysis
    BY DEF BundleIsOfLastAnalysis
  <2>1. Writers # {} => \E b \in bundle : b.crate \in Writers
    BY DEF CargoInv, NamesAWriter, Accepted
  <2>2. ASSUME NEW b \in bundle,
               Obliged(b.crate, cache[b.crate].section), b.crate \notin unwritten
        PROVE  b.entry = cache[b.crate]
    <3>1. Fresh(b.crate)
      BY DEF CargoInv, TypeOK, LeftFresh, Accepted
    <3> QED
      BY <2>2, <3>1 DEF CargoInv, BundleFresh
  <2> QED
    BY <2>1, <2>2 DEF BundleIsOfLastAnalysis
<1> QED
  BY <1>1, CargoInvAlways, PTL
-----------------------------------------------------------------------------
(***************************************************************************)
(* The manifests.                                                          *)
(***************************************************************************)

\* A manifest is about functions of its crate, and no crate leaves two.
ManifestInv ==
  /\ \A m \in manifests : /\ m.crate_name \in Members
                          /\ m.walked \subseteq Items(m.crate_name)
                          /\ m.universe \subseteq Items(m.crate_name)
  /\ \A m, n \in manifests : m.crate_name = n.crate_name => m = n

LEMMA ManifestInvAlways == Spec => []ManifestInv
<1>1. Init => ManifestInv
  BY DEF Init, ManifestInv
<1>2. CargoInv /\ ManifestInv /\ [Next]_vars => ManifestInv'
  <2> SUFFICES ASSUME CargoInv, ManifestInv, [Next]_vars PROVE ManifestInv'
    OBVIOUS
  <2>1. CASE manifests' \in {manifests, {}}
    BY <2>1 DEF ManifestInv
  <2>2. ASSUME NEW c \in Members, Analyze(c) PROVE ManifestInv'
    <3> DEFINE new == Manifest(c, Program[c], section)
    <3>1. manifests' = manifests \cup {new} /\ c \in todo
      BY <2>2 DEF Analyze, Ready
    <3>2. /\ new.crate_name = c /\ new.walked \subseteq Items(c)
          /\ new.universe \subseteq Items(c)
      BY WalkedAreItems DEF Manifest, Universe, Items
    <3>3. \A m \in manifests : m.crate_name # c
      BY <3>1 DEF CargoInv, TypeOK
    <3> HIDE DEF new
    <3> QED
      BY <3>1, <3>2, <3>3 DEF ManifestInv
  <2> QED
    BY <2>1, <2>2
       DEF Next, Cargo, EditConfig, EditSource, Start, UseCached, CannotAnalyze, Aggregate,
           Settle, Finished, vars, build
<1> QED
  BY <1>1, <1>2, CargoInvAlways, PTL DEF Spec

\* In the workspace no impl goes by the name of another function or impl.
OneImplEach ==
  \A c, d \in Members : \A f \in Items(c), g \in Items(d) :
    Rendered(f) \in {g, Rendered(g)} => f = g

\* A lost manifest or a warm cache never makes the cross-crate gate flag a
\* function that a wrapper run of this check has walked.
THEOREM WalkedIsNotFlagged ==
  ASSUME OneImplEach
  PROVE  Spec => []NothingWalkedIsFlagged
<1>1. CargoInv /\ ManifestInv => NothingWalkedIsFlagged
  <2> SUFFICES ASSUME CargoInv, ManifestInv,
                      NEW r \in cross_crate_unverified(read, Members),
                      r \in with_trait_method_forms(Field(manifests, "walked"))
               PROVE  FALSE
    BY DEF NothingWalkedIsFlagged
  <2>1. read \subseteq manifests
    BY DEF CargoInv, TypeOK
  <2>2. PICK w \in Field(manifests, "walked") : r \in {w, Rendered(w)}
    BY DEF with_trait_method_forms, Rendered
  <2>3. PICK m \in manifests : w \in m.walked
    BY <2>2 DEF Field
  <2>4. r \in with_trait_method_forms(Field(read, "universe")) /\ r \notin Covered(read)
    BY DEF cross_crate_unverified, Uncovered
  <2>5. PICK u \in Field(read, "universe") : r \in {u, Rendered(u)}
    BY <2>4 DEF with_trait_method_forms, Rendered
  <2>6. PICK n \in read : u \in n.universe
    BY <2>5 DEF Field
  <2>7. /\ w \in Items(m.crate_name) /\ u \in Items(n.crate_name)
        /\ m.crate_name \in Members /\ n.crate_name \in Members
    BY <2>1, <2>3, <2>6 DEF ManifestInv
  <2>8. w = u
    BY <2>2, <2>5, <2>7 DEF OneImplEach
  <2>9. m = n
    BY <2>1, <2>7, <2>8, CargoCheckAssumption DEF ManifestInv, Items
  <2>10. w \in Field(read, "walked")
    BY <2>3, <2>6, <2>9 DEF Field
  <2>11. r \in Covered(read)
    BY <2>2, <2>10 DEF Covered, with_trait_method_forms, Rendered
  <2> QED
    BY <2>4, <2>11
<1> QED
  BY <1>1, CargoInvAlways, ManifestInvAlways, PTL
-----------------------------------------------------------------------------
(***************************************************************************)
(* The calls across the workspace.                                         *)
(***************************************************************************)

\* A manifest tells of one walk, and none without a failure met an indirect call.
Unsuspicious(m) ==
  \A call \in Program[m.crate_name].calls : call.from \in m.walked => call.how # "indirect"

OriginInv ==
  \A m \in manifests :
    /\ \E s \in Sections : m = Manifest(m.crate_name, Program[m.crate_name], s)
    /\ failed \/ Unsuspicious(m)

\* Exit 0 is given only past the cross-crate gate.
GatePassed == Accepted /\ metadata => ~ run_cross_crate_gate(read)

LEMMA OriginInvAlways == Spec => [](OriginInv /\ GatePassed)
<1>1. Init => OriginInv /\ GatePassed
  BY DEF Init, OriginInv, GatePassed, Accepted
<1>2. CargoInv /\ OriginInv /\ GatePassed /\ [Next]_vars => (OriginInv /\ GatePassed)'
  <2> SUFFICES ASSUME CargoInv, OriginInv, GatePassed, [Next]_vars
               PROVE  OriginInv' /\ GatePassed'
    OBVIOUS
  <2>1. manifests' = {} => OriginInv'
    BY DEF OriginInv
  <2>2. manifests' = manifests /\ (failed => failed') => OriginInv'
    BY DEF OriginInv, Unsuspicious
  <2>3. ASSUME NEW c \in Members, Analyze(c) PROVE OriginInv' /\ GatePassed'
    <3> DEFINE new == Manifest(c, Program[c], section)
    <3>1. /\ manifests' = manifests \cup {new} /\ failed' = (failed \/ WrapperFails(c))
          /\ phase' # "done"
      BY <2>3 DEF Analyze, Ready
    <3>2. new.crate_name = c /\ new.walked = Walked(Program[c], section)
      BY DEF Manifest
    <3>3. section \in Sections
      BY DEF CargoInv, TypeOK
    <3>4. new = Manifest(new.crate_name, Program[new.crate_name], section)
      BY <3>2
    <3> HIDE DEF new
    <3>5. WrapperFails(c) \/ Unsuspicious(new)
      BY <3>2 DEF WrapperFails, Findings, Unsuspicious
    <3> QED
      BY <3>1, <3>3, <3>4, <3>5 DEF OriginInv, Unsuspicious, GatePassed, Accepted
  <2>4. CASE Aggregate
    <3>1. /\ phase = "building" /\ phase' = "done" /\ UNCHANGED build
          /\ exit_code' = check_exit_code(~ failed, metadata' /\ run_cross_crate_gate(read'),
                                          read' # {})
          /\ strict' = strict
      BY <2>4 DEF Aggregate
    <3>2. exit_code' = 0 => ~ (metadata' /\ run_cross_crate_gate(read'))
      BY <3>1 DEF check_exit_code
    <3>3. run_cross_crate_gate(read)' = run_cross_crate_gate(read')
      BY <3>1 DEF run_cross_crate_gate
    <3> QED
      BY <2>2, <3>1, <3>2, <3>3 DEF GatePassed, Accepted, build
  <2>5. phase' # "done" => GatePassed'
    BY DEF GatePassed, Accepted
  <2>6. UNCHANGED <<phase, exit_code, metadata, read, strict>> => GatePassed'
    <3> SUFFICES ASSUME UNCHANGED <<phase, exit_code, metadata, read, strict>> PROVE GatePassed'
      OBVIOUS
    <3>1. Accepted' = Accepted
      BY DEF Accepted
    <3>2. run_cross_crate_gate(read)' <=> run_cross_crate_gate(read)
      BY DEF run_cross_crate_gate
    <3> QED
      BY <3>1, <3>2 DEF GatePassed
  <2>7. CASE EditConfig \/ Settle \/ Start
    BY <2>1, <2>2, <2>5, <2>6, <2>7 DEF EditConfig, Settle, Start, build
  <2>8. ASSUME NEW c \in Members, EditSource(c) \/ UseCached(c) \/ CannotAnalyze(c)
        PROVE  OriginInv' /\ GatePassed'
    BY <2>2, <2>6, <2>8 DEF EditSource, UseCached, CannotAnalyze, build
  <2>9. CASE UNCHANGED vars
    BY <2>2, <2>6, <2>9 DEF vars, build
  <2> QED
    BY <2>3, <2>4, <2>7, <2>8, <2>9 DEF Next, Cargo, Finished
<1> QED
  BY <1>1, <1>2, CargoInvAlways, PTL DEF Spec

\* What the gate has to know of a workspace: every call leads to a function of a
\* member, and a function goes by the name of its crate, an impl that is called
\* and not dropped by that of a trait of its crate.
NamedByCrate ==
  \A c \in Members :
    /\ \A f \in Items(c) : crate_of_path(f) = c
    /\ \A call \in Program[c].calls :
         /\ call.how \in How
         /\ \E d \in Members :
              /\ call.to \in Items(d)
              /\ IF call.how = "drop" THEN call.to \in Program[d].drops
                 ELSE crate_of_path(Rendered(call.to)) = d

\* A name of f that is covered stands for f itself, walked or waived.
LEMMA CoveredIsDone ==
  ASSUME OneImplEach, ManifestInv, NEW d \in Members, NEW f \in Items(d),
         NEW r \in {f, Rendered(f)}, r \in Covered(manifests), OriginInv
  PROVE  f \in Field(manifests, "walked") \cup WaivedHere
<1>1. PICK w \in Field(manifests, "walked") \cup Field(manifests, "trusted") : r \in {w, Rendered(w)}
  BY DEF Covered, with_trait_method_forms, Rendered
<1>2. CASE w \in Field(manifests, "walked")
  <2>1. PICK m \in manifests : w \in m.walked
    BY <1>2 DEF Field
  <2>2. w \in Items(m.crate_name) /\ m.crate_name \in Members
    BY <2>1 DEF ManifestInv
  <2>3. w = f
    <3>1. CASE r = Rendered(f)
      BY <1>1, <2>2, <3>1 DEF OneImplEach
    <3>2. CASE r = f
      BY <1>1, <2>2, <3>2 DEF OneImplEach
    <3> QED
      BY <3>1, <3>2
  <2> QED
    BY <1>2, <2>3
<1>3. CASE w \in Field(manifests, "trusted")
  <2>1. PICK m \in manifests : w \in m.trusted
    BY <1>3 DEF Field
  <2>2. w \in Binding(Program[m.crate_name].trusted)
    BY <2>1 DEF OriginInv, Manifest
  <2>3. ~ IsTraitImpl(w)
    BY <2>2 DEF Binding
  <2>4. r = w
    BY <1>1, <2>3 DEF Rendered
  <2>5. Rendered(f) = w
    BY <2>3, <2>4 DEF Rendered
  <2> QED
    BY <1>3, <2>5 DEF WaivedHere
<1> QED
  BY <1>1, <1>2, <1>3

\* Exit 0 covers the calls out of the verified code of the whole workspace, if
\* every member was analyzed, or with --strict whichever were.
THEOREM AcceptedCallsAreCovered ==
  ASSUME OneImplEach, NamedByCrate
  PROVE  Spec => []AcceptedWorkspaceVerified
<1>1. CargoInv /\ ManifestInv /\ OriginInv /\ GatePassed => AcceptedWorkspaceVerified
  <2> SUFFICES ASSUME CargoInv, ManifestInv, OriginInv, GatePassed, Accepted, metadata,
                      read = manifests, strict \/ AnalyzedHere = Members,
                      NEW m \in manifests, NEW call \in Program[m.crate_name].calls,
                      call.from \in m.walked \ m.trusted,
                      call.how # "drop" \/ AnalyzedHere = Members
               PROVE  call.to \in Field(manifests, "walked") \cup WaivedHere
    BY DEF AcceptedWorkspaceVerified
  <2>1. m.crate_name \in Members
    BY DEF ManifestInv
  <2>2. PICK d \in Members :
          /\ call.to \in Items(d)
          /\ IF call.how = "drop" THEN call.to \in Program[d].drops
             ELSE crate_of_path(Rendered(call.to)) = d
    BY <2>1 DEF NamedByCrate
  <2>3. /\ cross_crate_unverified(manifests, Members) = {}
        /\ strict => cross_crate_indeterminate(manifests, Members) = {}
    BY DEF GatePassed, run_cross_crate_gate
  <2>4. call.how \in {"call", "argument", "drop"}
    BY <2>1 DEF OriginInv, Unsuspicious, CargoInv, NamedByCrate, How
  <2>5. ASSUME NEW n \in manifests, n.crate_name = d, call.to \notin n.universe
        PROVE  call.to \in WaivedHere
    BY <2>2, <2>5 DEF WaivedHere
  <2>6. ASSUME NEW n \in manifests, n.crate_name = d, call.to \in n.universe,
               NEW r \in {call.to, Rendered(call.to)}, r \in Field(manifests, "referenced"),
               crate_of_path(r) = d
        PROVE  r \in Covered(manifests)
    <3>1. r \in with_trait_method_forms(Field(manifests, "universe"))
      BY <2>6 DEF with_trait_method_forms, Rendered, Field
    <3>2. d \in Analyzed(manifests)
      BY <2>6 DEF Analyzed
    <3> QED
      BY <2>3, <2>6, <3>1, <3>2 DEF cross_crate_unverified, Uncovered
  <2>7. CASE call.how = "drop"
    <3>1. PICK n \in manifests : n.crate_name = d
      BY <2>7 DEF AnalyzedHere
    <3>2. CASE call.to \in n.universe
      <4>1. call.to \in n.referenced
        BY <2>2, <2>7, <3>1, <3>2 DEF OriginInv, Manifest, Referenced
      <4>2. call.to \in Field(manifests, "referenced") /\ crate_of_path(call.to) = d
        BY <2>2, <4>1 DEF Field, NamedByCrate
      <4>3. call.to \in Covered(manifests)
        BY <2>6, <3>1, <3>2, <4>2
      <4> QED
        BY <2>2, <4>3, CoveredIsDone
    <3> QED
      BY <2>5, <3>1, <3>2
  <2>8. CASE call.how \in {"call", "argument"}
    <3> DEFINE r == Rendered(call.to)
    <3>1. r \in m.referenced
      <4>1. r \in callee_paths(Program[m.crate_name].calls, call.from)
        BY <2>8 DEF callee_paths
      <4>2. PICK s \in Sections : m = Manifest(m.crate_name, Program[m.crate_name], s)
        BY DEF OriginInv
      <4>3. call.from \in Walked(Program[m.crate_name], s) \ Binding(Program[m.crate_name].trusted)
        BY <4>2 DEF Manifest
      <4>4. r \in Referenced(Program[m.crate_name], s)
        BY <4>1, <4>3 DEF Referenced
      <4> QED
        BY <4>2, <4>4 DEF Manifest
    <3>2. r \in Field(manifests, "referenced") /\ crate_of_path(r) = d
      BY <2>2, <2>8, <3>1 DEF Field
    <3> HIDE DEF r
    <3>3. CASE r \in Covered(manifests)
      BY <2>2, <3>3, CoveredIsDone DEF r
    <3>4. CASE r \notin Covered(manifests)
      <4>1. PICK n \in manifests : n.crate_name = d
        <5>1. CASE strict
          <6>1. d \in Analyzed(manifests)
            BY <2>3, <3>2, <3>4, <5>1 DEF cross_crate_indeterminate, Uncovered
          <6>2. \A n \in manifests : \A p \in n.walked \cup n.universe :
                  crate_of_path(p) = n.crate_name
            BY DEF ManifestInv, NamedByCrate
          <6> QED
            BY <6>1, <6>2 DEF Analyzed, Field
        <5>2. CASE AnalyzedHere = Members
          BY <5>2 DEF AnalyzedHere
        <5> QED
          BY <5>1, <5>2
      <4> QED
        BY <2>5, <2>6, <3>2, <3>4, <4>1 DEF r
    <3> QED
      BY <3>3, <3>4
  <2> QED
    BY <2>4, <2>7, <2>8
<1> QED
  BY <1>1, CargoInvAlways, ManifestInvAlways, OriginInvAlways, PTL
=============================================================================
