-------------------------- MODULE MC_OciMultipart --------------------------
(***************************************************************************)
(* Small instances of OciMultipart.                                        *)
(***************************************************************************)
EXTENDS OciMultipart, SequencesExt

CONSTANTS a, b     \* two different chunks

Good(content) == [content |-> content, good |-> TRUE]
Misdeclared(content) == [content |-> content, good |-> FALSE]

\* An empty part, a part below the minimum size, a full part, one too long, and
\* one that is not what its payload declares.
AllPayloads == {Good(<<>>), Good(<<a>>), Good(<<a, b>>), Good(<<b, a, b>>), Misdeclared(<<b>>)}
ShortPayloads == {Good(<<a>>), Good(<<b>>)}

\* Concatenation, which names the cuts, is the same as concatenating.
Contents == UNION {[1 .. n -> {a, b}] : n \in 0 .. 3}

ASSUME ConcatenationIsFlattening ==
    \A first, second \in Contents, content \in Contents :
        /\ Concatenation(content, <<first, second>>) <=> content = FlattenSeq(<<first, second>>)
        /\ Concatenation(content, <<first>>) <=> content = first
        /\ Concatenation(content, <<>>) <=> content = <<>>

=============================================================================
