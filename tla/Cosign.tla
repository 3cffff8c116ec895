-------------------------------- MODULE Cosign --------------------------------
(***************************************************************************)
(* Verifying the signature of an image: the walk to its manifest           *)
(* (runCosignRealImage, phase2_oci_cosign_verify.go) and                   *)
(* CosignVerifier.Verify (uefiboard/ministack/oci/cosign.go), which finds  *)
(* the manifest with the signatures under one of two tags, collects the    *)
(* signatures of its layers, and checks them until one holds.              *)
(*                                                                         *)
(* A signature is the pair of the key that made it and of what it was made *)
(* over, the sequence of the images it names; ECDSA and SHA-256 are taken  *)
(* as ideal.  Only the statement of a dsse bundle can name several images. *)
(* The image to verify is man, whatever the registry sent.                 *)
(***************************************************************************)
EXTENDS OciFetch

CONSTANTS
  SigLayers,   \* layers a signature manifest may have
  LayersMax    \* bound: layers of a manifest

Tags == <<"legacy", "oci11">>
Garbled == [wellFormed |-> FALSE, layers |-> <<>>]
SigManifest(ls) == [wellFormed |-> TRUE, layers |-> ls]
SigManifests == {Garbled} \cup {SigManifest(ls) : ls \in UNION {[1 .. n -> SigLayers] : n \in 0 .. LayersMax}}

\* What a layer may be.  Format "legacy": a signature in an annotation; "message" and
\* "dsse": a bundle, whose body must be fetched and which claims an image; "other":
\* neither.  A layer that is not wellFormed does not decode.
SigLayer(format, key, over, claims, wellFormed) ==
  [format |-> format, key |-> key, over |-> over, claims |-> claims, wellFormed |-> wellFormed]

\* A signature in an annotation names nothing but what it was made over, a message
\* bundle claims one image, and a statement without a subject does not decode.
ASSUME CosignAssumption ==
  /\ LayersMax \in Nat
  /\ \A l \in SigLayers :
       /\ l.claims \in Seq(Content)
       /\ l.format \in {"legacy", "message", "dsse", "other"}
       /\ l.format = "legacy" => l.claims = l.over
       /\ l.format \in {"legacy", "message"} => Len(l.claims) = 1
       /\ l.format = "dsse" /\ l.wellFormed => l.claims # <<>>

VARIABLES
  t, k,        \* the tag and the layer or signature in turn
  layers,      \* the layers of the manifest used
  sigs,        \* signatures collected
  collectErr, lastErr,   \* is there an error to report?
  unread       \* ghost: layers whose body could not be fetched

verifier == <<t, k, layers, sigs, collectErr, lastErr, unread>>
pull == <<mode, skip, i, bearer, index, config, blobs, dst>>

Return(r) == pc' = "done" /\ result' = r

-----------------------------------------------------------------------------
\* FetchManifestRaw of the reference: an index leads on to the entry of the
\* platform, anything else is the image.
FetchImage ==
  /\ pc = "manifest" /\ mode = "verify" /\ Ask(TRUE, bearer)
  /\ \/ Fail /\ UNCHANGED <<index, man>>
     \/ \E body \in Index :
          /\ index' = body /\ UNCHANGED man
          /\ IF PickPlatform(body) = None THEN Fail ELSE pc' = "picked" /\ UNCHANGED result
     \/ \E body \in Content \ Index : man' = body /\ pc' = "tag" /\ UNCHANGED <<index, result>>
  /\ UNCHANGED <<mode, skip, i, bearer, config, blobs, dst, blob, verifier>>

\* FetchManifestRaw of the entry; the digest of what comes is computed, not compared.
FetchPickedImage ==
  /\ pc = "picked" /\ mode = "verify" /\ Ask(TRUE, bearer)
  /\ \/ Fail /\ UNCHANGED man
     \/ \E body \in Content : man' = body /\ pc' = "tag" /\ UNCHANGED result
  /\ UNCHANGED <<pull, blob, verifier>>

-----------------------------------------------------------------------------
\* FetchManifestRaw of the tag in turn; only an error tries the next.
FetchTag ==
  /\ pc = "tag" /\ Ask(TRUE, bearer)
  /\ \/ /\ t' = t + 1 /\ UNCHANGED layers
        /\ IF t = Len(Tags) THEN Return("fetch") ELSE UNCHANGED <<pc, result>>
        /\ UNCHANGED blob
     \/ \E m \in SigManifests :
          /\ layers' = m.layers /\ UNCHANGED t
          /\ IF ~m.wellFormed THEN Return("parse") /\ UNCHANGED blob
             ELSE IF m.layers = <<>> THEN Return("empty") /\ UNCHANGED blob
             ELSE BeginBlob("collect") /\ UNCHANGED result
  /\ UNCHANGED <<pull, man, k, sigs, collectErr, lastErr, unread>>

Bundle(l) == l.format \in {"message", "dsse"}

\* A layer that yields a signature.
Usable(l, fetched) == l.format # "other" /\ l.wellFormed /\ (Bundle(l) => fetched)

\* A layer that leaves an error to report.
Complains(l, fetched) == ~Usable(l, fetched)

\* Whatever a layer is, the loop goes on with the next.
AfterLayer(l, fetched) == k + 1

\* collectSignatures: one layer.  FetchBlob of a bundle ends with its body or with an
\* error, one redirect too many and a body of another digest among them.
Collect(fetched) ==
  /\ pc = "collect" /\ k <= Len(layers)
  /\ LET l == layers[k]
     IN  /\ IF Bundle(l) THEN Ask(home, sendBearer) ELSE UNCHANGED request
         /\ sigs' = IF Usable(l, fetched) THEN Append(sigs, l) ELSE sigs
         /\ collectErr' = (collectErr \/ Complains(l, fetched))
         /\ unread' = IF Bundle(l) /\ ~fetched THEN unread \cup {k} ELSE unread
         /\ k' = AfterLayer(l, fetched)
  /\ BeginBlob("collect")
  /\ UNCHANGED <<pull, man, t, layers, lastErr, result>>

\* The blob of a bundle is elsewhere.
CollectRedirect(elsewhere) ==
  /\ pc = "collect" /\ k <= Len(layers) /\ Bundle(layers[k])
  /\ Ask(home, sendBearer) /\ Redirect(elsewhere)
  /\ UNCHANGED <<pull, man, verifier>>

Collected ==
  /\ pc = "collect" /\ k > Len(layers)
  /\ IF sigs = <<>> THEN Return("none collected") ELSE pc' = "check" /\ UNCHANGED result
  /\ k' = 1 /\ lastErr' = collectErr
  /\ UNCHANGED <<pull, man, blob, request, t, layers, sigs, collectErr, unread>>

\* Mutant: a bundle is believed about what it signs.
VerifiesClaim(s) ==
  /\ s.key = "trusted"
  /\ IF s.format = "legacy" THEN s.over = <<man>> ELSE s.over = s.claims

\* The check of one signature: over the canonical payload of the image (legacy);
\* the same, if the bundle claims that payload (message); over the statement in the
\* bundle, if its first subject is the image (dsse).
Verifies(s) ==
  /\ s.key = "trusted"
  /\ CASE s.format = "legacy" -> s.over = <<man>>
       [] s.format = "message" -> s.claims = <<man>> /\ s.over = <<man>>
       [] s.format = "dsse" -> Head(s.claims) = man /\ s.over = s.claims

Check ==
  /\ pc = "check"
  /\ IF k > Len(sigs) THEN Return("no match") /\ UNCHANGED <<k, lastErr>>
     ELSE IF Verifies(sigs[k]) THEN Return("ok") /\ UNCHANGED <<k, lastErr>>
     ELSE k' = k + 1 /\ lastErr' = TRUE /\ UNCHANGED <<pc, result>>
  /\ UNCHANGED <<pull, man, blob, request, t, layers, sigs, collectErr, unread>>

VerifyInit ==
  /\ Init
  /\ t = 1 /\ k = 1 /\ layers = <<>> /\ sigs = <<>>
  /\ collectErr = FALSE /\ lastErr = FALSE /\ unread = {}

Finished == pc = "done" /\ UNCHANGED <<vars, verifier>>

VerifyNext ==
  \/ Next /\ UNCHANGED verifier
  \/ FetchImage \/ FetchPickedImage \/ FetchTag
  \/ \E b \in BOOLEAN : Collect(b) \/ CollectRedirect(b)
  \/ Collected \/ Check \/ Finished

VerifySpec == VerifyInit /\ [][VerifyNext]_<<vars, verifier>>

-----------------------------------------------------------------------------
\* A signature of the image by the trusted key, whatever the verifier looks at.
Signs(l) ==
  /\ l.format # "other" /\ l.wellFormed /\ l.key = "trusted"
  /\ l.over = l.claims /\ \E n \in DOMAIN l.claims : l.claims[n] = man

\* Success means that a layer of the manifest used is a signature, by the trusted key,
\* of the very image the registry sent, even where that is not the one its index names
\* (runCosignRealImage, Verify); not merely a good signature of something.
AcceptedIsSigned ==
  result = "ok" /\ mode = "verify" => \E j \in DOMAIN layers : Signs(layers[j])

\* One good signature is enough, whatever stands before or after it in the manifest:
\* attestations, signatures by other keys, garbage, bodies that cannot be fetched.  (Of
\* a statement only the first subject counts.)
OneIsEnough ==
  pc = "done" /\ (\E j \in DOMAIN layers \ unread : Signs(layers[j]) /\ Head(layers[j].claims) = man)
    => result = "ok"

\* An image is accepted if and only if it is signed (Verify).
AcceptedIffSigned == AcceptedIsSigned /\ OneIsEnough
=============================================================================
