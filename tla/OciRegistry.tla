---------------------------- MODULE OciRegistry ----------------------------
(***************************************************************************)
(* The OCI Distribution registry as the Adapter sees it: an external       *)
(* service, modelled from the requests the client sends and from the       *)
(* registry the tests run against (tests/support/registry.py).             *)
(*                                                                         *)
(* Blobs and manifests are content addressed, so a blob or a manifest      *)
(* stands for its own digest: two values are equal exactly when their      *)
(* SHA-256 digests are.  A tag is a mutable pointer to a manifest.         *)
(***************************************************************************)
CONSTANT None                 \* "no manifest": the value of an unbound tag

VARIABLES
    blobs,                    \* the blobs stored in the repository
    manifests,                \* the manifests stored in the repository
    tags                      \* tag -> manifest, or None

registryVars == <<blobs, manifests, tags>>

\* PUT of an upload that carries its digest: the blob is stored.
StoreBlob(b) ==
    /\ blobs' = blobs \cup {b}
    /\ UNCHANGED <<manifests, tags>>

\* PUT /manifests/<tag>: the manifest is stored and the tag moves to it.
StoreManifest(tag, m) ==
    /\ manifests' = manifests \cup {m}
    /\ tags' = [tags EXCEPT ![tag] = m]
    /\ UNCHANGED blobs

\* DELETE /manifests/<digest>: the manifest goes, and every tag bound to it.
RemoveManifest(m) ==
    /\ manifests' = manifests \ {m}
    /\ tags' = [tag \in DOMAIN tags |-> IF tags[tag] = m THEN None ELSE tags[tag]]
    /\ UNCHANGED blobs

\* HEAD or GET /manifests/<tag> answers 200 rather than 404.
ManifestFound(tag) == tags[tag] # None /\ tags[tag] \in manifests

=============================================================================
