--------------------------- MODULE LexiconSnapshot ---------------------------
(***************************************************************************)
(* One immutable Lexicon analysis state, as Arcana reads it.               *)
(*                                                                         *)
(* Models src/lexicon/mod.rs, and the parts of src/lexicon/snapshot.rs and *)
(* src/lexicon/records.rs that turn verified fact objects into facts.  An  *)
(* object is content-addressed, so it stands for its own id: two objects   *)
(* have the same id exactly when they are equal.                           *)
(***************************************************************************)
EXTENDS RepositoryFacts

CONSTANTS
  Language,   \* languages of the analysed repository
  NoObject    \* a language without a shared fact object

ASSUME NoObjectAssumption == NoObject \notin Facts

\* A snapshot maps each of its languages to a shared object, if it has one,
\* and each <<language, path>> pair to that file's object.
IsSnapshot(s) ==
  /\ DOMAIN s.shared \subseteq Language
  /\ \A l \in DOMAIN s.shared : s.shared[l] \in Facts \union {NoObject}
  /\ DOMAIN s.files \subseteq Language \X Path
  /\ \A k \in DOMAIN s.files : s.files[k] \in Facts

SharedObjects(s) == {s.shared[l] : l \in DOMAIN s.shared} \ {NoObject}

FileObjects(s) == {s.files[k] : k \in DOMAIN s.files}

\* All records of all objects: what a loaded snapshot offers as its facts.
FactsOf(s) == FactUnion(SharedObjects(s) \union FileObjects(s))

\* (altered) shared objects are not compared
SharedObjectsIgnored(s, previous) == FALSE

SharedObjectsChanged(s, previous) == s.shared # previous.shared

\* Paths whose object was added, replaced or removed, in any language.
ChangedPaths(s, previous) ==
  {k[2] : k \in {f \in DOMAIN s.files :
                   \/ f \notin DOMAIN previous.files
                   \/ previous.files[f] # s.files[f]}
                \union (DOMAIN previous.files \ DOMAIN s.files)}

\* Loading fails on conflicting nodes and on relations of unknown nodes.
Loadable(s) == Compiles(FactsOf(s))

-----------------------------------------------------------------------------
(* The convention that file-scoped replacement relies on.  Records of a    *)
(* file's object belong to that file or to no file; relations of a shared  *)
(* object belong to the file their own span names, or to no file.          *)

FileAligned(all, object, path) ==
  /\ \A n \in object.nodes : NodeOwner(n) \in {path, NoPath}
  /\ \A e \in object.edges : EdgeOwner(all, e) \in {path, NoPath}
  /\ \A u \in object.unresolved : UnresolvedOwner(all, u) \in {path, NoPath}

SharedAligned(all, object) ==
  /\ \A e \in object.edges : EdgeOwner(all, e) \in {e.span, NoPath}
  /\ \A u \in object.unresolved : UnresolvedOwner(all, u) \in {u.span, NoPath}

Aligned(s) ==
  /\ \A o \in SharedObjects(s) : SharedAligned(FactsOf(s), o)
  /\ \A k \in DOMAIN s.files : FileAligned(FactsOf(s), s.files[k], k[2])
=============================================================================
