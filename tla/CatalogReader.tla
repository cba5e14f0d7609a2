----------------------------- MODULE CatalogReader -----------------------------
(***************************************************************************)
(* A reader of the market history (pmkt.catalog, market_catalog.reader)    *)
(* beside the processes that publish it: a snapshot is opened from the     *)
(* pointer, a manifest or a saved reference, its artifacts are checked one *)
(* after the other, and queries read the files it has resolved.  In the    *)
(* meantime a release is published, or a file or a manifest is rewritten.  *)
(*                                                                         *)
(* The bytes of an artifact are [shape, version]: shape stands for the     *)
(* files, rows and size a check of metadata sees.  The hash of a file or a *)
(* manifest is what it is the hash of.                                     *)
(***************************************************************************)
EXTENDS Naturals, FiniteSets

CONSTANTS
  MaxPublished,  \* releases
  MaxTampers     \* rewritten files and manifests

VARIABLES
  tree,          \* the data root: manifests, artifacts and the pointer
  reader         \* the opening or open snapshot
catalogReaderVars == <<tree, reader>>

Artifacts == {"kalshi_markets", "polymarket_markets"}
OpenLevels == {"full", "metadata"}
ReleaseIds == 1..MaxPublished
Bytes(r) == [a \in Artifacts |-> [shape |-> r, version |-> 0]]

\* A manifest declares the bytes of each artifact of its release, and its parent.
ManifestFor(r, bytes, parent) == [release |-> r, declared |-> bytes, parent |-> parent]
NoReader == [phase |-> "none"]
Beside(f, r, content) == [x \in DOMAIN f \cup {r} |-> IF x = r THEN content ELSE f[x]]

ReaderOfCatalogInit ==
  /\ tree = [pointer |-> ManifestFor(1, Bytes(1), {}), base |-> "recorded", tampers |-> 0,
             published |-> {ManifestFor(1, Bytes(1), {})},
             manifests |-> [r \in {1} |-> ManifestFor(1, Bytes(1), {})],
             files |-> [r \in {1} |-> Bytes(1)], saved |-> {}]
  /\ reader = NoReader

-----------------------------------------------------------------------------
(* The publishers and what happens to their files. *)

\* A promotion or a compaction: artifacts and manifest of a new directory, then
\* the pointer.  The manifest binds that of its parent.
ReleasePublished ==
  /\ Cardinality(DOMAIN tree.manifests) < MaxPublished
  /\ LET r == Cardinality(DOMAIN tree.manifests) + 1
         m == ManifestFor(r, Bytes(r), {tree.manifests[r - 1]}) IN
     tree' = [tree EXCEPT !.pointer = m, !.published = @ \cup {m}, !.manifests = Beside(@, r, m),
                !.files = Beside(@, r, Bytes(r))]
  /\ UNCHANGED reader

Tampers == tree.tampers < MaxTampers

\* An artifact is rewritten in place, with the shape it had or with another one.
ArtifactRewritten(r, a, shape) ==
  /\ Tampers
  /\ tree' = [tree EXCEPT !.tampers = @ + 1,
                !.files[r][a] = [shape |-> IF shape THEN @.shape ELSE 0, version |-> tree.tampers + 1]]
  /\ UNCHANGED reader

\* A manifest is made to agree with the files that are there.
ManifestRewritten(r) ==
  /\ Tampers /\ tree.manifests[r].declared # tree.files[r]
  /\ tree' = [tree EXCEPT !.tampers = @ + 1, !.manifests[r].declared = tree.files[r]]
  /\ UNCHANGED reader

\* The data root is moved as a whole.
RootMoved ==
  /\ tree.base = "recorded"
  /\ tree' = [tree EXCEPT !.base = "moved"] /\ UNCHANGED reader

-----------------------------------------------------------------------------
(* Opening. *)

\* A manifest is read at `base' once and its hash compared with what is expected.
PinManifest(r, base, expected, identity) ==
  /\ base = tree.base
  /\ expected \subseteq {tree.manifests[r]}
  /\ \E level \in OpenLevels :
       reader' = [phase |-> "parents", level |-> level, identity |-> identity, base |-> base,
                  manifest |-> tree.manifests[r], left |-> Artifacts,
                  seen |-> [a \in Artifacts |-> {}], result |-> {}]
  /\ UNCHANGED tree

\* load_latest_history: the pointer names the manifest and its hash.
OpenLatest ==
  /\ reader = NoReader
  /\ reader' = [phase |-> "pointed", pointer |-> tree.pointer]
  /\ UNCHANGED tree
FollowPointer ==
  /\ reader.phase = "pointed"
  /\ PinManifest(reader.pointer.release, "recorded", {reader.pointer}, "history_pointer")

\* open_manifest: the caller may know its hash.
OpenManifest(r) ==
  /\ reader = NoReader
  /\ \/ \E m \in tree.published : m.release = r /\ PinManifest(r, "recorded", {m}, "external_sha256")
     \/ PinManifest(r, "recorded", {}, "internal_consistency")

\* open: a saved reference, at the base it records or at the one a relocation maps
\* that to.
OpenReference(ref, base) ==
  /\ reader = NoReader /\ ref \in tree.saved
  /\ PinManifest(ref.release, base, {ref}, "saved_reference")

\* The parents must be there, and with full validation unchanged.
ParentsHold ==
  /\ reader.phase = "parents"
  /\ reader.level = "full" => \A p \in reader.manifest.parent : tree.manifests[p.release] = p
  /\ reader' = [reader EXCEPT !.phase = "shapes"] /\ UNCHANGED tree

\* A fault: the artifacts are those of the release the pointer names by now.
NamedNow(m) == tree.pointer

\* The manifest whose artifacts are checked.
Declaring(m) == m

\* Files, rows and size of an artifact are those its descriptor declares.
ShapeHolds(a) ==
  /\ reader.phase = "shapes" /\ a \in reader.left
  /\ a = "polymarket_markets" => "kalshi_markets" \notin reader.left
  /\ LET m == Declaring(reader.manifest) IN
     /\ tree.files[m.release][a].shape = m.declared[a].shape
     /\ reader' = [reader EXCEPT !.phase = IF reader.level = "full" THEN "content" ELSE "next",
                     !.seen[a] = {tree.files[m.release][a]}]
  /\ UNCHANGED tree

\* With full validation its content is read again, against the declared hash and
\* the canonical schema.
ContentHolds(a) ==
  /\ reader.phase = "content" /\ a \in reader.left /\ reader.seen[a] # {}
  /\ LET m == Declaring(reader.manifest) IN
     /\ tree.files[m.release][a] = m.declared[a]
     /\ reader' = [reader EXCEPT !.phase = "next", !.seen[a] = {tree.files[m.release][a]}]
  /\ UNCHANGED tree

ArtifactResolved ==
  /\ reader.phase = "next"
  /\ LET left == {a \in reader.left : reader.seen[a] = {}} IN
     reader' = [reader EXCEPT !.left = left, !.phase = IF left = {} THEN "open" ELSE "shapes"]
  /\ UNCHANGED tree

\* A check fails, or a file cannot be read: there is no snapshot.
OpenRefused ==
  /\ reader.phase \notin {"none", "open"}
  /\ reader' = NoReader /\ UNCHANGED tree

-----------------------------------------------------------------------------
(* An open snapshot. *)

\* Its reference, written for later.
ReferenceSaved ==
  /\ reader.phase = "open"
  /\ tree' = [tree EXCEPT !.saved = @ \cup {reader.manifest}]
  /\ UNCHANGED reader

\* A query sees the resolved files only, and their bytes as they are now; beyond
\* its limits there is no result.
Queried ==
  /\ reader.phase = "open" /\ reader.base = tree.base
  /\ reader' = [reader EXCEPT !.result = {tree.files[Declaring(reader.manifest).release]}]
  /\ UNCHANGED tree
QueryRefused ==
  /\ reader.phase = "open"
  /\ reader' = [reader EXCEPT !.result = {}] /\ UNCHANGED tree
SnapshotClosed ==
  /\ reader.phase = "open"
  /\ reader' = NoReader /\ UNCHANGED tree

CatalogReaderNext ==
  \/ ReleasePublished \/ RootMoved
  \/ \E r \in DOMAIN tree.manifests :
       \/ ManifestRewritten(r) \/ OpenManifest(r)
       \/ \E a \in Artifacts, shape \in BOOLEAN : ArtifactRewritten(r, a, shape)
  \/ OpenLatest \/ FollowPointer
  \/ \E ref \in tree.saved, base \in {"recorded", "moved"} : OpenReference(ref, base)
  \/ ParentsHold \/ ArtifactResolved \/ OpenRefused
  \/ \E a \in Artifacts : ShapeHolds(a) \/ ContentHolds(a)
  \/ ReferenceSaved \/ Queried \/ QueryRefused \/ SnapshotClosed

-----------------------------------------------------------------------------
(* Properties. *)

Seen == [a \in Artifacts |-> CHOOSE b \in reader.seen[a] : TRUE]

\* What a snapshot was validated against is one release, never the artifacts of
\* two, although releases were published and files rewritten between its checks:
\* with full validation the bytes that were published, else their shape; a saved
\* reference gives what it was saved from, and a manifest without a hash what it
\* says.  And as long as no file was rewritten, queries return those rows
\* (reader.py:437-736, catalog.py:344-426).
SnapshotIsOneRelease ==
  reader.phase = "open" =>
    LET one == IF reader.identity \in {"history_pointer", "external_sha256"}
               THEN {m.declared : m \in tree.published} ELSE {reader.manifest.declared} IN
    /\ reader.level = "full" => Seen \in one
    /\ \E bytes \in one : \A a \in Artifacts : Seen[a].shape = bytes[a].shape
    /\ tree.tampers = 0 => reader.result \subseteq {Seen}
=============================================================================
