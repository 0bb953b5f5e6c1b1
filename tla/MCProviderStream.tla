--------------------------- MODULE MCProviderStream ---------------------------
(* Constant values for model-checking ProviderStream: every reply of a few *)
(* blocks with a few pieces each.                                          *)
EXTENDS ProviderStream

CONSTANTS
    MaxBlocks,  \* bound: blocks of a reply
    MaxPieces   \* bound: pieces of a block

MCBlocks == [tool : BOOLEAN, pieces : 0..MaxPieces, whole : BOOLEAN]

MCReplies ==
    {r \in [blocks : UNION {[1..n -> MCBlocks] : n \in 0..MaxBlocks}, limit : BOOLEAN] :
        \A i \in DOMAIN r.blocks :
            ~r.blocks[i].whole => r.limit /\ i = Len(r.blocks)}

=============================================================================
