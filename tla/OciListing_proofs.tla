------------------------- MODULE OciListing_proofs -------------------------
(***************************************************************************)
(* The inventory misses nothing and repeats nothing, for every set of      *)
(* tags, every limit and every page bound of the registry.                 *)
(***************************************************************************)
EXTENDS OciListing, FiniteSetTheorems, TLAPS

\* The registry's page of a repository that has tags after the cursor is not
\* empty, and it is the whole rest when the client sees no sign of more.
LEMMA PageNotEmpty ==
    ASSUME NEW all, NEW page, IsFiniteSet(all), IsPage(page, all), page = {}
    PROVE  all = {} /\ ~(Cardinality(page) >= MaxScanTags)
<1>1. Cardinality(page) = 0
  BY FS_EmptySet
<1>2. MaxScanTags \in Nat \ {0} /\ ServerPages \subseteq Nat \ {0}
  BY PageAssumption
<1>3. PICK server \in ServerPages :
          LET bound == IF MaxScanTags < server THEN MaxScanTags ELSE server IN
          IF Cardinality(all) <= bound THEN page = all ELSE Cardinality(page) = bound
  BY DEF IsPage
<1> QED BY <1>1, <1>2, <1>3

\* Initially nothing is settled, and nothing has to be.
LEMMA ListingInit == Init => ListingInv
<1> SUFFICES ASSUME Init PROVE ListingInv
  OBVIOUS
<1> USE TagsAssumption, ChangesAssumption DEF Init
<1>1. TypeOK
  BY DEF TypeOK
<1>2. \A x \in Tags : ~(x <= 0)
  OBVIOUS
<1>3. Settled
  BY <1>2 DEF Settled
<1> QED BY <1>1, <1>3 DEF ListingInv, Scanning, Collecting, KeyKept, InventoryComplete

\* A new window starts at the cursor.
LEMMA ListTagsStep == ASSUME ListingInv, ListTags PROVE ListingInv'
<1> USE DEF ListTags, keys
<1>0. /\ TypeOK /\ Settled /\ Collecting
      /\ Tags \subseteq Nat \ {0} /\ cursor \in Nat
  BY TagsAssumption DEF ListingInv, TypeOK
<1>1. PICK page \in SUBSET After(cursor) :
          /\ IsPage(page, After(cursor))
          /\ window' = page
          /\ rel' = IF page # After(cursor) \/ Cardinality(page) >= MaxScanTags
                    THEN "next" ELSE "none"
  OBVIOUS
<1>2. TypeOK'
  BY <1>0, <1>1 DEF TypeOK, After
<1>3. Settled'
  BY <1>0 DEF Settled
<1>4. window' = {} => rel' = "none"
  <2>1. IsFiniteSet(After(cursor))
    BY <1>0, TagsAssumption, FS_Subset DEF After, TypeOK
  <2> QED BY <1>1, <2>1, PageNotEmpty
<1>5. Scanning'
  <2>1. Position' = cursor
    BY DEF Position
  <2>2. \A x \in window' : cursor < x
    BY <1>0, <1>1 DEF After, TypeOK
  <2>3. ASSUME NEW x \in steady, cursor < x, x \notin window'
        PROVE  rel' = "next" /\ \A y \in window' : y < x
    <3>1. x \in present
      BY <1>0 DEF Settled
    <3> QED BY <3>1, <2>3, <1>1 DEF After, IsPage
  <2>4. \A x \in Tags : ~(cursor < x /\ x <= cursor)
    BY <1>0
  <2>5. cursor <= cursor /\ cursor' = cursor /\ steady' = steady /\ items' = {} /\ steady \subseteq Tags
    BY <1>0 DEF TypeOK
  <2> QED BY <2>1, <2>2, <2>3, <2>4, <2>5, <1>4 DEF Scanning
<1>6. Collecting'
  BY DEF Collecting
<1> QED BY <1>2, <1>3, <1>5, <1>6 DEF ListingInv, KeyKept, InventoryComplete

\* The scan moves on to the least tag of the window.
LEMMA ScanTagStep == ASSUME ListingInv, ScanTag PROVE ListingInv'
<1> USE DEF ScanTag, keys
<1>0. /\ TypeOK /\ Settled /\ Collecting /\ Scanning /\ phase = "scan"
      /\ Tags \subseteq Nat \ {0} /\ cursor \in Nat /\ Position \in Nat
      /\ window \subseteq Tags /\ steady \subseteq Tags
  BY TagsAssumption DEF ListingInv, TypeOK, Position
<1>1. PICK tag \in window :
          /\ \A other \in window : tag <= other
          /\ window' = window \ {tag}
          /\ scanned' = tag
          /\ IF tag \in VersionTags /\ tag \notin present
             THEN phase' = "raised" /\ UNCHANGED items
             ELSE UNCHANGED phase /\ items' = items \cup ({tag} \cap Matching)
  OBVIOUS
<1>2. tag \in Nat \ {0} /\ Position < tag /\ cursor <= Position
  BY <1>0 DEF Scanning
<1>3. TypeOK'
  BY <1>0, <1>1 DEF TypeOK
<1>4. Settled'
  BY <1>0 DEF Settled
<1>5. Collecting'
  BY <1>0, <1>1, <1>2 DEF Collecting
<1>6. Scanning'
  <2> SUFFICES ASSUME phase' = "scan" PROVE Scanning'
    BY DEF Scanning
  <2>1. items' = items \cup ({tag} \cap Matching) /\ Position' = tag
    BY <1>1, <1>2 DEF Position
  <2>2. \A x \in window' : tag < x
    BY <1>0, <1>1, <1>2
  <2>3. ASSUME NEW x \in steady \cap Matching
        PROVE  /\ (cursor < x /\ x <= tag) => x \in items'
               /\ tag < x => x \in window' \/ (rel = "next" /\ \A y \in window' : y < x)
    <3>1. x \in Nat
      BY <1>0
    <3>2. /\ (cursor < x /\ x <= Position) => x \in items
          /\ Position < x => x \in window \/ (rel = "next" /\ \A y \in window : y < x)
      BY <1>0 DEF Scanning
    <3>3. CASE x <= Position
      BY <3>1, <3>2, <3>3, <2>1, <1>0, <1>2
    <3>4. CASE Position < x /\ x \in window
      BY <3>1, <3>4, <2>1, <1>1, <1>2
    <3>5. CASE rel = "next" /\ \A y \in window : y < x
      BY <3>1, <3>5, <1>1, <1>2
    <3> QED BY <3>1, <3>2, <3>3, <3>4, <3>5, <1>0
  <2>4. \A x \in items' : x <= tag
    <3>1. \A x \in items : x \in Nat /\ x <= Position
      BY <1>0, TagsAssumption DEF Scanning, TypeOK
    <3> QED BY <3>1, <2>1, <1>0, <1>2
  <2> QED BY <2>1, <2>2, <2>3, <2>4, <1>0, <1>2 DEF Scanning
<1> QED BY <1>0, <1>1, <1>3, <1>4, <1>5, <1>6 DEF ListingInv, KeyKept, InventoryComplete

\* A call that returns leaves the cursor where its scan ended, or nothing is
\* left to return.
LEMMA ReturnPageStep == ASSUME ListingInv, ReturnPage PROVE ListingInv'
<1> USE DEF ReturnPage
<1>0. /\ TypeOK /\ Settled /\ Collecting /\ Scanning /\ phase = "scan"
      /\ Tags \subseteq Nat \ {0} /\ cursor \in Nat /\ Position \in Nat
      /\ steady \subseteq Tags /\ delivered \subseteq Tags /\ items \subseteq Tags
      /\ Matching \subseteq Tags /\ scanned \in Nat
  BY TagsAssumption DEF ListingInv, TypeOK, Position
<1>1. TypeOK' /\ KeyKept'
  BY <1>0 DEF TypeOK, next_cursor, ListingInv, KeyKept
<1>2. scanned = 0 => items = {} /\ ~StoppedEarly /\ rel = "none"
  <2>1. Cardinality({}) = 0 /\ Limit # 0
    BY FS_EmptySet, PageAssumption
  <2> QED BY <1>0, <2>1 DEF Scanning, StoppedEarly
<1>3. CASE next_cursor = 0
  <2>1. window = {} /\ rel = "none"
    BY <1>2, <1>3, <1>0 DEF next_cursor, TypeOK
  <2>2. \A x \in steady \cap Matching : x \in delivered \/ x \in items
    BY <1>0, <2>1 DEF Scanning, Settled
  <2> QED BY <1>0, <1>1, <1>3, <2>2
         DEF ListingInv, InventoryComplete, Settled, Scanning, Collecting
<1>4. CASE next_cursor # 0
  <2>1. cursor' = scanned /\ Position = scanned /\ phase' = "ready" /\ cursor <= scanned
    BY <1>4, <1>0 DEF next_cursor, Position, Scanning
  <2>2. \A x \in delivered \cup items : x <= scanned
    BY <2>1, <1>0 DEF Scanning, Settled, Collecting
  <2>3. \A x \in steady \cap Matching : x <= scanned => x \in delivered \cup items
    BY <2>1, <1>0 DEF Scanning, Settled
  <2> QED BY <1>0, <1>1, <2>1, <2>2, <2>3
         DEF ListingInv, InventoryComplete, Settled, Scanning, Collecting
<1> QED BY <1>3, <1>4

\* A failed call and its repetition keep the cursor, a rejected cursor begins
\* another inventory; other threads only shrink the set of versions that were
\* there all along.
LEMMA OtherSteps ==
    ASSUME ListingInv,
           Repeat \/ StartOver \/ RequestFails \/ Change \/ Replace \/ UNCHANGED vars
    PROVE  ListingInv'
<1> USE ChangesAssumption DEF ListingInv, keys, KeyKept
<1>1. CASE Repeat
  BY <1>1 DEF Repeat, TypeOK, Settled, Scanning, Collecting, InventoryComplete
<1>2. CASE RequestFails
  BY <1>2 DEF RequestFails, TypeOK, Settled, Scanning, Collecting, InventoryComplete
<1>3. CASE Change
  <2>1. TypeOK' /\ Settled' /\ Collecting' /\ InventoryComplete'
    BY <1>3 DEF Change, TypeOK, Settled, Collecting, InventoryComplete
  <2>2. Scanning' /\ KeyKept'
    BY <1>3 DEF Change, Scanning, Position
  <2> QED BY <2>1, <2>2
<1>4. CASE UNCHANGED vars
  BY <1>4 DEF vars, TypeOK, Settled, Scanning, Collecting, InventoryComplete, Position
<1>5. CASE StartOver
  <2>1. \A x \in Tags : ~(x <= 0)
    BY TagsAssumption
  <2>2. TypeOK' /\ Settled'
    BY <1>5, <2>1 DEF StartOver, TypeOK, Settled
  <2> QED BY <1>5, <2>2 DEF StartOver, Scanning, Collecting, InventoryComplete
<1>6. CASE Replace
  <2>1. TypeOK' /\ KeyKept'
    BY <1>6 DEF Replace, TypeOK
  <2>2. Settled' /\ Collecting' /\ InventoryComplete' /\ Scanning'
    BY <1>6 DEF Replace, Settled, Scanning, Collecting, InventoryComplete
  <2> QED BY <2>1, <2>2
<1> QED BY <1>1, <1>2, <1>3, <1>4, <1>5, <1>6

\* The invariant of the inventory (_list and list_tags).
THEOREM ListingInvariant == Spec => []ListingInv
<1>1. ListingInv /\ [Next]_vars => ListingInv'
  BY ListTagsStep, ScanTagStep, ReturnPageStep, OtherSteps DEF Next, Traverse, Done
<1> QED BY ListingInit, <1>1, PTL DEF Spec

\* Following list's cursors to the end misses no version that was there all
\* along, for any limit, scan window and registry page size, whatever other
\* threads publish and delete and whichever calls fail.
THEOREM InventoryIsComplete == Spec => []InventoryComplete
<1>1. ListingInv => InventoryComplete
  BY DEF ListingInv
<1> QED BY ListingInvariant, <1>1, PTL

\* No two calls of one inventory return the same version.
THEOREM VersionsReturnedOnce == Spec => []ReturnedOnce
<1>1. ListingInv => ReturnedOnce
  BY TagsAssumption DEF ListingInv, TypeOK, Settled, Collecting, ReturnedOnce
<1> QED BY ListingInvariant, <1>1, PTL

\* With a configured key no step throws an inventory back: the cursor of a call
\* is never before the one it was given, however often the process is replaced.
THEOREM CursorsAreKept == Spec => CursorsSurvive
<1>1. ASSUME ListingInv, [Next]_vars
      PROVE  [configured /\ phase' # "done" => cursor <= cursor']_vars
  <2> SUFFICES ASSUME configured, phase' # "done" PROVE cursor <= cursor'
    OBVIOUS
  <2>1. cursor \in Nat /\ decode
    BY <1>1, TagsAssumption DEF ListingInv, TypeOK, KeyKept, decode
  <2>2. CASE ReturnPage
    BY <1>1, <2>1, <2>2 DEF ReturnPage, ListingInv, Scanning, Position, next_cursor
  <2>3. CASE ~ReturnPage
    <3>1. cursor' = cursor
      BY <1>1, <2>1, <2>3 DEF Next, Traverse, ListTags, ScanTag, Repeat, StartOver,
         RequestFails, Change, Replace, Done, vars
    <3> QED BY <2>1, <3>1
  <2> QED BY <2>2, <2>3
<1> QED BY ListingInvariant, <1>1, PTL DEF Spec, CursorsSurvive

=============================================================================
