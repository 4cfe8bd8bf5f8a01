--------------------------- MODULE MC_OciMigration ---------------------------
(***************************************************************************)
(* A small instance of OciMigration.                                       *)
(***************************************************************************)
EXTENDS OciMigration

CONSTANTS a, b, o1, free    \* two bytes, an Object and an intent

\* Nothing, exactly a chunk, more than a chunk, and more than an Object may have.
Empty == <<>>
Even == <<a, b>>
Full == <<a, b, a>>
Long == <<a, b, b, a>>
AllContents == {Empty, Even, Full, Long}
SomeStores == {{}, {Full}, {Even, Long}}

Stream(d, replayable, length, digest) ==
    [bytes |-> FALSE, offers |-> {d}, replayable |-> replayable, length |-> length, digest |-> digest]

\* Without declarations, with right ones, and with wrong ones; and a document.
AllPayloads ==
    {Stream(Full, TRUE, None, None), Stream(Full, FALSE, None, None),
     Stream(Full, TRUE, Len(Full), Full), Stream(Full, TRUE, Len(Even), None),
     Stream(Full, TRUE, Len(Full), Even), Stream(Long, TRUE, None, None), Document(Even), Stream(Empty, FALSE, None, None)}

ExportedReferences == {[obj |-> o1, digest |-> None], [obj |-> o1, digest |-> Full]}

\* The target is empty, or has the version that is asked for.
SomeTargets == {{}, {[obj |-> o1, digest |-> Full, length |-> Len(Full), intent |-> free]}}

=============================================================================
