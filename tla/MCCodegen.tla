----------------------------- MODULE MCCodegen -----------------------------
EXTENDS Codegen, TLC
\* Values about the edges of the types and of the constants treated apart.
MCBytes == {<<0, n>> : n \in {0, 1, 2, 4, 127, 128, 255}}
MCWords == {<<0, n>> : n \in {0, 1, 2, 8, 256, 32768, 65535}}
MCLongs == {<<0, 0>>, <<0, 1>>, <<1, 2>>, <<32768, 0>>, <<65535, 65535>>}
MCFixed == {<<0, 0>>, <<1, 0>>, <<0, 32768>>, <<5, 16384>>, <<65535, 0>>, <<65532, 0>>}
MCFloats == {Rom!Normal(FALSE, <<0, 0>>, 16), Rom!Normal(FALSE, <<5, 16384>>, 16),
             Rom!Normal(TRUE, <<2, 32768>>, 16), Rom!Small(-5)}
MCSamples == (8 :> MCBytes) @@ (16 :> MCWords) @@ (32 :> MCLongs) @@ (Fixed :> MCFixed) @@ (FloatBits :> MCFloats)
MCFloatOnly == FloatBits :> {Rom!Normal(FALSE, <<0, 0>>, 16), Rom!Normal(FALSE, <<1, 0>>, 16)}
MCLongPairs == 32 :> {<<1, 2>>, <<3, 4>>}
=============================================================================
