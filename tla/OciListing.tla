----------------------------- MODULE OciListing -----------------------------
(***************************************************************************)
(* The maintenance inventory (adapter.py _list, client.py list_tags): a    *)
(* caller follows the cursor from call to call while other threads publish *)
(* and delete versions.  A call asks the registry for one window of tags,  *)
(* then resolves the version tags of that window one request at a time.    *)
(*                                                                         *)
(* Tags are numbered in the registry's lexical order.  A cursor (_naming.py *)
(* CursorCodec) is the tag it encodes, 0 if there is none, and the key it   *)
(* is signed with.  The process that serves the calls may be replaced: a    *)
(* configured key stays, an Adapter without one makes its own.              *)
(***************************************************************************)
EXTENDS Naturals, FiniteSets, FiniteSetsExt

CONSTANTS
    Tags,          \* every tag of the repository, a set of positive numbers
    VersionTags,   \* the ones with the version prefix
    Matching,      \* the version tags of Objects whose id has the list prefix
    Limit,         \* the caller's limit
    MaxScanTags,   \* binding.max_scan_tags, sent as n
    ServerPages,   \* bounds the registry may itself put on a page of tags
    MaxChanges     \* bound: publications, deletions, failed requests, replaced processes

ASSUME TagsAssumption == Matching \subseteq VersionTags /\ VersionTags \subseteq Tags
                            /\ Tags \subseteq Nat \ {0} /\ IsFiniteSet(Tags)
ASSUME PageAssumption == {Limit, MaxScanTags} \cup ServerPages \subseteq Nat \ {0}
ASSUME ChangesAssumption == MaxChanges \in Nat

VARIABLES
    present,       \* registry: the tags that are bound
    phase,         \* ready (to call), scan, done; raised when the call failed
    cursor,        \* the cursor of the next or current call
    signedBy,      \* the key the cursor is signed with
    key,           \* binding.cursor_signing_key of the serving process
    configured,    \* whether it is supplied by the deployment
    window,        \* page.tags that are still to be scanned
    rel,           \* page.has_more: "next" or "none"
    scanned,       \* the tag scanned last, or 0
    items,         \* versions this call has collected
    delivered,     \* history: versions that earlier calls returned
    steady,        \* history: tags bound ever since the first call
    changes

keys == <<signedBy, key, configured>>
vars == <<present, phase, cursor, keys, window, rel, scanned, items, delivered, steady, changes>>

Init ==
    /\ present \in SUBSET Tags
    /\ phase = "ready" /\ cursor = 0
    /\ signedBy = 0 /\ key = 0 /\ configured \in BOOLEAN
    /\ window = {} /\ rel = "none" /\ scanned = 0 /\ items = {}
    /\ delivered = {} /\ steady = present
    /\ changes = 0

-----------------------------------------------------------------------------
(* The registry                                                            *)

\* GET /tags/list?n=&last=: the first tags after the cursor, as many as the
\* client asked for and the registry allows, and a Link header if there are
\* more.
After(c) == {tag \in present : tag > c}

\* page is the first part of the tags all, cut at a page bound.
IsPage(page, all) ==
    /\ page \subseteq all
    /\ \A x \in page, y \in all \ page : x < y
    /\ \E server \in ServerPages :
          LET bound == IF MaxScanTags < server THEN MaxScanTags ELSE server IN
          IF Cardinality(all) <= bound THEN page = all ELSE Cardinality(page) = bound

-----------------------------------------------------------------------------
(* _list                                                                   *)

\* CursorCodec.decode accepts the cursors of this key only.
decode == cursor = 0 \/ signedBy = key

\* Mutant of ListTags: has_more is decided by counting alone.
ListTags_CountOnly ==
    /\ phase = "ready" /\ decode
    /\ \E page \in SUBSET After(cursor) :
          /\ IsPage(page, After(cursor))
          /\ window' = page
          /\ rel' = IF Cardinality(page) >= MaxScanTags THEN "next" ELSE "none"
    /\ phase' = "scan" /\ scanned' = 0 /\ items' = {}
    /\ UNCHANGED <<present, cursor, keys, delivered, steady, changes>>

\* list_tags: one window; a repository that does not exist has no tags.
ListTags ==
    /\ phase = "ready" /\ decode
    /\ \E page \in SUBSET After(cursor) :
          /\ IsPage(page, After(cursor))
          /\ window' = page
          /\ rel' = IF page # After(cursor) \/ Cardinality(page) >= MaxScanTags
                    THEN "next" ELSE "none"
    /\ phase' = "scan" /\ scanned' = 0 /\ items' = {}
    /\ UNCHANGED <<present, cursor, keys, delivered, steady, changes>>

StoppedEarly == Cardinality(items) = Limit

\* One tag of the window, in order.  A version that was deleted since the
\* window was read makes get_manifest raise ObjectNotFound, which ends the call.
ScanTag ==
    /\ phase = "scan" /\ window # {} /\ ~StoppedEarly
    /\ \E tag \in window :
       /\ \A other \in window : tag <= other
       /\ window' = window \ {tag}
       /\ scanned' = tag
       /\ IF tag \in VersionTags /\ tag \notin present
          THEN phase' = "raised" /\ UNCHANGED items
          ELSE UNCHANGED phase /\ items' = items \cup ({tag} \cap Matching)
    /\ UNCHANGED <<present, cursor, keys, rel, delivered, steady, changes>>

\* Mutant of next_cursor: it names the end of the window, not of the scan.
next_cursor_window ==
    IF scanned # 0 /\ (StoppedEarly \/ rel = "next") THEN Max(window \cup {scanned}) ELSE 0

\* Mutant of next_cursor: the next call starts at the tag scanned last.
next_cursor_inclusive ==
    IF scanned # 0 /\ (StoppedEarly \/ rel = "next") THEN scanned - 1 ELSE 0

next_cursor == IF scanned # 0 /\ (StoppedEarly \/ rel = "next") THEN scanned ELSE 0

\* The call returns its items; without a next cursor the inventory is done.
ReturnPage ==
    /\ phase = "scan" /\ (window = {} \/ StoppedEarly)
    /\ delivered' = delivered \cup items
    /\ cursor' = next_cursor /\ signedBy' = key
    /\ phase' = IF next_cursor = 0 THEN "done" ELSE "ready"
    /\ items' = {} /\ window' = {}
    /\ UNCHANGED <<present, key, configured, rel, scanned, steady, changes>>

\* A request fails after its retries: the call raises.
RequestFails ==
    /\ phase \in {"ready", "scan"} /\ changes < MaxChanges
    /\ phase' = "raised" /\ changes' = changes + 1
    /\ UNCHANGED <<present, cursor, keys, window, rel, scanned, items, delivered, steady>>

\* The caller repeats a call that raised, with the same cursor.
Repeat ==
    /\ phase = "raised"
    /\ phase' = "ready" /\ items' = {} /\ window' = {}
    /\ UNCHANGED <<present, cursor, keys, rel, scanned, delivered, steady, changes>>

\* A cursor that decode rejects (ObjectInvalidRequest) is of no use: the caller
\* begins another inventory.
StartOver ==
    /\ phase = "ready" /\ ~decode
    /\ cursor' = 0 /\ scanned' = 0
    /\ delivered' = {} /\ steady' = present
    /\ UNCHANGED <<present, phase, keys, window, rel, items, changes>>

-----------------------------------------------------------------------------
(* Other threads, and the deployment                                       *)

\* put binds tags, delete unbinds them (module OciAdapter), the probe does both.
Change ==
    /\ changes < MaxChanges /\ phase # "done"
    /\ \E tag \in Tags :
          present' = IF tag \in present THEN present \ {tag} ELSE present \cup {tag}
    /\ steady' = steady \cap present'
    /\ changes' = changes + 1
    /\ UNCHANGED <<phase, cursor, keys, window, rel, scanned, items, delivered>>

\* Mutant of Replace: the key is made anew although one is configured.
Replace_FreshKey ==
    /\ changes < MaxChanges /\ phase # "done"
    /\ phase' = IF phase = "scan" THEN "raised" ELSE phase
    /\ key' = key + 1
    /\ changes' = changes + 1
    /\ UNCHANGED <<present, cursor, signedBy, configured, window, rel, scanned, items, delivered, steady>>

\* Another process takes over, and a call that was running fails.
Replace ==
    /\ changes < MaxChanges /\ phase # "done"
    /\ phase' = IF phase = "scan" THEN "raised" ELSE phase
    /\ key' = IF configured THEN key ELSE key + 1
    /\ changes' = changes + 1
    /\ UNCHANGED <<present, cursor, signedBy, configured, window, rel, scanned, items, delivered, steady>>

Done == phase = "done" /\ UNCHANGED vars

Traverse == ListTags \/ ScanTag \/ ReturnPage \/ Repeat \/ StartOver

Next == Traverse \/ RequestFails \/ Change \/ Replace \/ Done

Spec == Init /\ [][Next]_vars

\* The caller goes on until there is no cursor.
FairSpec == Spec /\ WF_vars(Traverse)

-----------------------------------------------------------------------------
(* Properties                                                              *)

\* Types: what a call holds are tags, what it collects matches the prefix.
TypeOK ==
    /\ present \subseteq Tags /\ window \subseteq Tags /\ steady \subseteq Tags
    /\ items \subseteq Matching /\ delivered \subseteq Matching
    /\ cursor \in Tags \cup {0} /\ scanned \in Tags \cup {0}
    /\ phase \in {"ready", "scan", "raised", "done"}
    /\ rel \in {"next", "none"}
    /\ signedBy \in Nat /\ key \in Nat /\ configured \in BOOLEAN
    /\ changes \in 0 .. MaxChanges

\* An inventory followed to its end misses nothing that was there all along:
\* a matching version bound from the first call to the last was returned,
\* although windows, limits, failed calls and other versions' publication and
\* deletion cut the scan at arbitrary places.
InventoryComplete == phase = "done" => steady \cap Matching \subseteq delivered

\* No version is returned by two calls of one inventory, even when it was
\* deleted and published again in between.
ReturnedOnce == items \cap delivered = {}

\* "cursor_signing_key should be supplied ... when maintenance cursors need to
\* remain valid across Adapter process replacement" (docs/configuration.md): with
\* one, no replacement in or between calls throws an inventory back to its start.
CursorsSurvive == [][configured /\ phase' # "done" => cursor <= cursor']_vars

\* The inventory ends once the other threads are quiet.
InventoryEnds == <>(phase = "done")

-----------------------------------------------------------------------------
(* Inductive invariant                                                     *)

\* Between calls, the matching versions that were there all along are returned
\* up to the cursor, and nothing beyond the cursor is.
Settled ==
    /\ steady \subseteq present
    /\ phase # "done" =>
           /\ \A x \in delivered : x <= cursor
           /\ \A x \in steady \cap Matching : x <= cursor => x \in delivered

\* The place of the scan: the tag scanned last or, at first, the cursor.
Position == IF scanned = 0 THEN cursor ELSE scanned

\* Within a call they are collected up to the scan's place, and those beyond
\* it are in the window, or behind its end, where has_more leads the caller.
Scanning ==
    phase = "scan" =>
        /\ cursor <= Position
        /\ \A x \in items : x <= Position
        /\ \A x \in window : Position < x
        /\ scanned = 0 => items = {} /\ (window = {} => rel = "none")
        /\ \A x \in steady \cap Matching :
              /\ (cursor < x /\ x <= Position) => x \in items
              /\ Position < x => x \in window \/ (rel = "next" /\ \A y \in window : y < x)

\* A call collects only what lies beyond its cursor.
Collecting ==
    /\ phase \in {"ready", "done"} => items = {}
    /\ \A x \in items : cursor < x

\* A configured key has signed every cursor that is in use.
KeyKept == configured => key = 0 /\ signedBy = 0

\* The inductive invariant behind InventoryComplete and ReturnedOnce.
ListingInv == TypeOK /\ Settled /\ Scanning /\ Collecting /\ KeyKept /\ InventoryComplete

=============================================================================
