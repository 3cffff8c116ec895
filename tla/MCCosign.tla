------------------------------ MODULE MCCosign ------------------------------
(* OciFetch and Cosign: an index and a manifest that are well formed, a      *)
(* second manifest, their blobs and a body that is neither; signatures of    *)
(* every format, of either manifest: good, another key's, garbled, one whose *)
(* claim is not what was signed, statements with two subjects.               *)
EXTENDS Cosign

CONSTANTS idx, idx0, man1, man2, cfg, layer, large, other

MCContent == {idx, idx0, man1, man2, cfg, layer, large, other}
MCSize == [c \in MCContent |-> CASE c = layer -> 2 [] c = large -> 4 [] OTHER -> 1]
MCEntries == [x \in {idx, idx0} |->
  LET e(p, c) == [platform |-> p, digest |-> c]
  IN  IF x = idx THEN <<e(None, man2), e("arm64", man2), e("amd64", man1), e("amd64", man2)>>
      ELSE <<e("arm64", man2)>>]
MCConfig == [m \in {man1, man2} |-> cfg]
MCLayerDigests == [m \in {man1, man2} |-> IF m = man1 THEN <<layer, other, layer>> ELSE <<large>>]
MCDeclared == [c \in MCContent |-> IF c \in {layer, large} THEN MCSize[c] ELSE 0]

One == <<man1>>
Two == <<man2>>

MCSigLayers ==
  {SigLayer(f, "trusted", s, s, TRUE) : f \in {"legacy", "message", "dsse"}, s \in {One, Two}}
  \cup {SigLayer(f, "trusted", Two, One, TRUE) : f \in {"message", "dsse"}}
  \cup {SigLayer("dsse", "trusted", s, s, TRUE) : s \in {One \o Two, Two \o One}}
  \cup {SigLayer("legacy", "foreign", One, One, TRUE), SigLayer("dsse", "foreign", One, One, TRUE),
        SigLayer("message", "trusted", One, One, FALSE), SigLayer("other", "none", <<>>, <<>>, TRUE)}
=============================================================================
