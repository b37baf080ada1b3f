----------------------------- MODULE MCImageBuild -----------------------------
(* Finite instances of ImageBuild for TLC. *)
EXTENDS ImageBuild

SpecOf(kind, function, bytes, summed, deps) ==
    [function |-> function, bytes |-> bytes, kind |-> kind, summed |-> summed,
     deps |-> deps, runtime |-> "go"]

\* Every kind of content, with and without a checksum and dependencies; the file behind
\* one URL in two versions, which have one tag.
SmallSpecs == {
    SpecOf("text", <<"a">>, <<"a">>, TRUE, <<"x">>),
    SpecOf("base64", <<"a64">>, <<"a">>, TRUE, <<"x">>),
    SpecOf("base64", <<"b64">>, <<"b">>, FALSE, << >>),
    SpecOf("url", <<"u">>, <<"a">>, TRUE, <<"x">>),
    SpecOf("url", <<"u">>, <<"b">>, FALSE, <<"x">>)}
=============================================================================
