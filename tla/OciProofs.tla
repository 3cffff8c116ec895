------------------------------ MODULE OciProofs ------------------------------
(***************************************************************************)
(* Proofs about the pull of an artifact and the verification of a          *)
(* signature, for every set of contents, manifests, indexes and signature  *)
(* layers, whatever the registry and the hosts it redirects to send; and   *)
(* about the verdicts of the network probes, for every image and lease.    *)
(***************************************************************************)
EXTENDS Cosign, NetProbes, TLAPS

allVars == <<vars, verifier>>

-----------------------------------------------------------------------------
(* The token.                                                               *)

BearerInv == BearerStaysHome /\ (sendBearer => home)

\* One request or redirect keeps the token at home (Authenticate, FetchManifestRaw,
\* FetchBlob, FetchBlobStream, FetchBlobToBuffer, Verify).
LEMMA BearerStep == BearerInv /\ [VerifyNext]_allVars => BearerInv'
<1> SUFFICES ASSUME BearerInv, [VerifyNext]_allVars PROVE BearerInv'
  OBVIOUS
<1> USE DEF BearerInv, BearerStaysHome, Ask, BeginBlob, blob
<1>1. CASE Probe
  BY <1>1 DEF Probe
<1>2. CASE Token
  BY <1>2 DEF Token
<1>3. CASE FetchManifest
  BY <1>3, Zenon DEF FetchManifest, UseManifest, LayersFrom, Fail
<1>4. CASE FetchPicked
  BY <1>4, Zenon DEF FetchPicked, UseManifest, LayersFrom, Fail
<1>5. CASE FetchBlob
  BY <1>5, Zenon DEF FetchBlob, LayersFrom, Redirect, Fail
<1>6. CASE FetchBlobStream
  BY <1>6 DEF FetchBlobStream, GetStream, Redirect
<1>7. CASE FetchBlobToBuffer
  BY <1>7 DEF FetchBlobToBuffer, GetStream, Redirect
<1>8. CASE BufferTooSmall
  BY <1>8 DEF BufferTooSmall
<1>9. CASE FetchImage
  BY <1>9 DEF FetchImage
<1>10. CASE FetchPickedImage
  BY <1>10 DEF FetchPickedImage
<1>11. CASE FetchTag
  BY <1>11 DEF FetchTag
<1>12. CASE \E b \in BOOLEAN : Collect(b)
  BY <1>12 DEF Collect
<1>13. CASE \E b \in BOOLEAN : CollectRedirect(b)
  BY <1>13 DEF CollectRedirect, Redirect
<1>14. CASE Collected
  BY <1>14, Zenon DEF Collected
<1>15. CASE Check
  BY <1>15, Zenon DEF Check
<1>16. CASE UNCHANGED allVars
  BY <1>16 DEF allVars, vars
<1> QED
  BY <1>1, <1>2, <1>3, <1>4, <1>5, <1>6, <1>7, <1>8, <1>9, <1>10, <1>11, <1>12, <1>13, <1>14, <1>15, <1>16
     DEF VerifyNext, Next, Finished, allVars

\* The registry's token is never sent along a redirect, whatever hosts the registry
\* names and however many blobs are fetched (the variable bearer of the blob loops).
THEOREM BearerNeverLeaves == VerifySpec => []BearerStaysHome
<1>1. VerifyInit => BearerInv
  BY DEF VerifyInit, Init, BearerInv, BearerStaysHome
<1>2. BearerInv => BearerStaysHome
  BY DEF BearerInv
<1> QED
  BY <1>1, <1>2, BearerStep, PTL DEF VerifySpec, allVars

-----------------------------------------------------------------------------
(* The signature.                                                           *)

SignType ==
  /\ layers \in Seq(SigLayers) /\ sigs \in Seq(SigLayers) /\ k \in Nat \ {0}
  /\ pc \notin {"collect", "check", "done"} => layers = <<>> /\ sigs = <<>> /\ k = 1
  /\ layers # <<>> => mode = "verify"
  /\ pc \in {"tag", "collect", "check"} => mode = "verify"
  /\ result = "ok" => pc = "done"

Decodes(l) == l.format # "other" /\ l.wellFormed
Collects(j) == \E n \in DOMAIN sigs : sigs[n] = layers[j]

(* The signatures collected are those of the layers passed over that could  *)
(* be read, and none of those already checked holds.                        *)
CollectedInv ==
  /\ \A n \in DOMAIN sigs : Decodes(sigs[n]) /\ \E j \in DOMAIN layers : sigs[n] = layers[j]
  /\ pc \in {"collect", "check"} =>
       \A j \in DOMAIN layers : (pc = "check" \/ j < k) /\ j \notin unread /\ Decodes(layers[j]) => Collects(j)
  /\ pc = "check" => \A n \in DOMAIN sigs : n < k => ~Verifies(sigs[n])

SignInv == SignType /\ CollectedInv /\ AcceptedIffSigned

\* A signature that holds signs the image with the trusted key, and one that signs it
\* first of all holds (the check of Verify, for each of the formats).
LEMMA VerifiesSigns ==
  ASSUME NEW l \in SigLayers, Decodes(l)
  PROVE  /\ Verifies(l) => Signs(l)
         /\ Signs(l) /\ Head(l.claims) = man => Verifies(l)
<1>1. /\ l.claims \in Seq(Content)
      /\ l.format = "legacy" => l.claims = l.over
      /\ l.format \in {"legacy", "message"} => Len(l.claims) = 1
      /\ l.format = "dsse" => l.claims # <<>>
      /\ l.format \in {"legacy", "message", "dsse"}
  BY CosignAssumption DEF Decodes
<1>2. CASE l.format = "legacy"
  BY <1>1, <1>2 DEF Verifies, Signs, Decodes
<1>3. CASE l.format = "message"
  BY <1>1, <1>3 DEF Verifies, Signs, Decodes
<1>4. CASE l.format = "dsse"
  BY <1>1, <1>4 DEF Verifies, Signs, Decodes
<1> QED BY <1>1, <1>2, <1>3, <1>4

\* A step that leaves the verifier alone and ends with no success in mode "verify".
LEMMA NoVerifierStep ==
  ASSUME SignInv, UNCHANGED <<verifier, mode>>, layers = <<>>, sigs = <<>>, k = 1,
         pc' \in {"tag", "collect", "check"} => mode = "verify",
         pc' \notin {"collect", "check"},
         result' = "ok" => pc' = "done" /\ mode # "verify"
  PROVE  SignInv'
<1>1. layers' = <<>> /\ sigs' = <<>> /\ k' = 1 /\ mode' = mode
  BY DEF verifier
<1>2. SignType'
  BY <1>1 DEF SignInv, SignType
<1>3. CollectedInv'
  BY <1>1 DEF CollectedInv
<1>4. AcceptedIffSigned'
  BY <1>1 DEF AcceptedIffSigned, AcceptedIsSigned, OneIsEnough
<1> QED BY <1>2, <1>3, <1>4 DEF SignInv

\* The manifest with the signatures: the layers of the one found are the ones collected
\* from (Verify).
LEMMA FetchTagStep ==
  ASSUME SignInv, FetchTag PROVE SignInv'
<1>1. layers = <<>> /\ sigs = <<>> /\ k = 1 /\ mode = "verify" /\ result # "ok"
  BY DEF FetchTag, SignInv, SignType
<1>2. sigs' = sigs /\ k' = k /\ mode' = mode /\ UNCHANGED unread
  BY DEF FetchTag, pull
<1>3. CASE layers' = layers
  <2>1. pc' \in {"tag", "done"} /\ result' # "ok"
    BY <1>1, <1>3 DEF FetchTag, Return, SigManifests, SigManifest, Garbled, BeginBlob
  <2> QED BY <1>1, <1>2, <1>3, <2>1
          DEF SignInv, SignType, CollectedInv, AcceptedIffSigned, AcceptedIsSigned, OneIsEnough
<1>4. CASE layers' # layers
  <2>1. PICK m \in SigManifests : layers' = m.layers /\ m.wellFormed /\ m.layers # <<>> /\ pc' = "collect" /\ result' = result
    BY <1>1, <1>4 DEF FetchTag, Return, SigManifests, SigManifest, Garbled, BeginBlob
  <2>2. layers' \in Seq(SigLayers)
    <3>1. PICK ls \in UNION {[1 .. n -> SigLayers] : n \in 0 .. LayersMax} : m = SigManifest(ls)
      BY <2>1 DEF SigManifests, Garbled
    <3>2. ls \in Seq(SigLayers)
      BY <3>1, CosignAssumption
    <3> QED BY <2>1, <3>1, <3>2 DEF SigManifest
  <2>3. SignType'
    BY <1>1, <1>2, <2>1, <2>2 DEF SignType
  <2>4. CollectedInv'
    BY <1>1, <1>2, <2>1, <2>2 DEF CollectedInv
  <2>5. AcceptedIffSigned'
    BY <1>1, <2>1 DEF AcceptedIffSigned, AcceptedIsSigned, OneIsEnough
  <2> QED BY <2>3, <2>4, <2>5 DEF SignInv
<1> QED BY <1>3, <1>4

\* One layer: a signature that could be read is kept, with those before it
\* (collectSignatures).
LEMMA CollectStep ==
  ASSUME SignInv, NEW fetched \in BOOLEAN, Collect(fetched) PROVE SignInv'
<1> DEFINE l == layers[k]
<1>1. /\ pc = "collect" /\ pc' = "collect" /\ mode' = mode /\ result' = result /\ layers' = layers
      /\ mode = "verify" /\ result # "ok" /\ man' = man /\ k' = k + 1
  BY DEF Collect, pull, BeginBlob, AfterLayer, SignInv, SignType
<1>2. /\ layers \in Seq(SigLayers) /\ sigs \in Seq(SigLayers) /\ k \in Nat \ {0}
      /\ k \in DOMAIN layers /\ l \in SigLayers
  BY DEF SignInv, SignType, Collect
<1>3. SignType'
  <2>1. sigs' \in Seq(SigLayers)
    BY <1>2 DEF Collect
  <2> QED BY <1>1, <1>2, <2>1 DEF SignType
<1>4. CollectedInv'
  <2>1. CASE Usable(l, fetched)
    <3>1. sigs' = Append(sigs, l)
      BY <2>1 DEF Collect
    <3>2. /\ DOMAIN sigs' = 1 .. Len(sigs) + 1 /\ sigs'[Len(sigs) + 1] = l
          /\ DOMAIN sigs = 1 .. Len(sigs) /\ Len(sigs) \in Nat
          /\ \A n \in 1 .. Len(sigs) : sigs'[n] = sigs[n]
      BY <1>2, <3>1
    <3>3. \A n \in DOMAIN sigs' : Decodes(sigs'[n]) /\ \E j \in DOMAIN layers : sigs'[n] = layers[j]
      BY <1>2, <2>1, <3>2 DEF SignInv, CollectedInv, Decodes, Usable
    <3>4. ASSUME NEW j \in DOMAIN layers, j < k + 1, j \notin unread', Decodes(layers[j])
          PROVE  \E n \in DOMAIN sigs' : sigs'[n] = layers[j]
      <4>1. CASE j = k
        BY <3>2, <4>1
      <4>2. CASE j # k
        <5>1. j < k /\ j \notin unread
          BY <1>2, <3>4, <4>2 DEF Collect
        <5>2. PICK n \in DOMAIN sigs : sigs[n] = layers[j]
          BY <1>1, <3>4, <5>1 DEF SignInv, CollectedInv, Collects
        <5> QED BY <3>2, <5>2
      <4> QED BY <4>1, <4>2
    <3> QED BY <1>1, <3>3, <3>4 DEF CollectedInv, Collects
  <2>2. CASE ~Usable(l, fetched)
    <3>1. sigs' = sigs
      BY <2>2 DEF Collect
    <3>2. ASSUME NEW j \in DOMAIN layers, j < k + 1, j \notin unread', Decodes(layers[j])
          PROVE  \E n \in DOMAIN sigs : sigs[n] = layers[j]
      <4>1. j # k
        BY <2>2, <3>2 DEF Usable, Decodes, Collect
      <4>2. j < k /\ j \notin unread
        BY <1>2, <3>2, <4>1 DEF Collect
      <4> QED BY <1>1, <3>2, <4>2 DEF SignInv, CollectedInv, Collects
    <3> QED BY <1>1, <3>1, <3>2 DEF SignInv, CollectedInv, Collects
  <2> QED BY <2>1, <2>2
<1>5. AcceptedIffSigned'
  BY <1>1 DEF AcceptedIffSigned, AcceptedIsSigned, OneIsEnough
<1> QED BY <1>3, <1>4, <1>5 DEF SignInv

\* The end of the collection: every layer has had its turn (collectSignatures, Verify).
LEMMA CollectedStep ==
  ASSUME SignInv, Collected PROVE SignInv'
<1>1. /\ pc = "collect" /\ mode' = mode /\ layers' = layers /\ sigs' = sigs /\ k' = 1 /\ man' = man
      /\ UNCHANGED unread /\ mode = "verify" /\ result # "ok"
  BY Zenon DEF Collected, pull, SignInv, SignType
<1>2. layers \in Seq(SigLayers) /\ sigs \in Seq(SigLayers) /\ k \in Nat /\ Len(layers) < k
  <2>1. layers \in Seq(SigLayers) /\ sigs \in Seq(SigLayers) /\ k \in Nat /\ Len(layers) \in Nat
    BY DEF SignInv, SignType
  <2> QED BY <2>1, Zenon DEF Collected
<1>3. result' # "ok" /\ pc' \in {"check", "done"}
  BY <1>1, Zenon DEF Collected, Return
<1>4. SignType'
  BY <1>1, <1>2, <1>3 DEF SignType
<1>5. \A j \in DOMAIN layers : j < k
  BY <1>2
<1>6. \A j \in DOMAIN layers : j \notin unread /\ Decodes(layers[j]) => Collects(j)
  BY <1>1, <1>5 DEF SignInv, CollectedInv
<1>7. \A n \in DOMAIN sigs : ~(n < 1)
  BY <1>2
<1>8. CollectedInv'
  BY <1>1, <1>3, <1>6, <1>7 DEF SignInv, CollectedInv, Collects
<1>9. AcceptedIffSigned'
  <2>1. CASE sigs # <<>>
    BY <1>1, <2>1 DEF Collected, AcceptedIffSigned, AcceptedIsSigned, OneIsEnough
  <2>2. CASE sigs = <<>>
    <3>1. \A j \in DOMAIN layers \ unread : ~Signs(layers[j])
      BY <1>6, <2>2 DEF Collects, Signs, Decodes
    <3> QED BY <1>1, <1>3, <3>1 DEF AcceptedIffSigned, AcceptedIsSigned, OneIsEnough, Signs
  <2> QED BY <2>1, <2>2
<1> QED BY <1>4, <1>8, <1>9 DEF SignInv

\* One signature: the first that holds ends the loop, and when none is left there was
\* none of this image (Verify).
LEMMA CheckStep ==
  ASSUME SignInv, Check PROVE SignInv'
<1>1. /\ pc = "check" /\ mode' = mode /\ layers' = layers /\ sigs' = sigs /\ man' = man
      /\ UNCHANGED unread /\ mode = "verify" /\ result # "ok"
  BY Zenon DEF Check, pull, SignInv, SignType
<1>2. layers \in Seq(SigLayers) /\ sigs \in Seq(SigLayers) /\ k \in Nat \ {0} /\ Len(sigs) \in Nat
  BY DEF SignInv, SignType
<1>3. \A n \in DOMAIN sigs : n < k => ~Verifies(sigs[n])
  BY <1>1 DEF SignInv, CollectedInv
<1>4. \A n \in DOMAIN sigs : Decodes(sigs[n]) /\ sigs[n] \in SigLayers /\ \E j \in DOMAIN layers : sigs[n] = layers[j]
  BY <1>2 DEF SignInv, CollectedInv
<1>5. \A j \in DOMAIN layers : j \notin unread /\ Decodes(layers[j]) => Collects(j)
  BY <1>1 DEF SignInv, CollectedInv
<1>6. CASE k > Len(sigs)
  <2>1. pc' = "done" /\ result' = "no match" /\ k' = k
    BY <1>6, Zenon DEF Check, Return
  <2>2. \A n \in DOMAIN sigs : ~Verifies(sigs[n])
    BY <1>2, <1>3, <1>6
  <2>3. ASSUME NEW j \in DOMAIN layers \ unread, Signs(layers[j]), Head(layers[j].claims) = man
        PROVE  FALSE
    <3>1. Decodes(layers[j]) /\ layers[j] \in SigLayers
      BY <1>2, <2>3 DEF Signs, Decodes
    <3>2. PICK n \in DOMAIN sigs : sigs[n] = layers[j]
      BY <1>5, <2>3, <3>1 DEF Collects
    <3> QED BY <2>2, <2>3, <3>1, <3>2, VerifiesSigns
  <2>4. SignType' /\ CollectedInv'
    BY <1>1, <1>2, <1>4, <2>1, Zenon DEF SignType, CollectedInv
  <2>5. AcceptedIffSigned'
    BY <1>1, <2>1, <2>3, Zenon DEF AcceptedIffSigned, AcceptedIsSigned, OneIsEnough, Signs
  <2> QED BY <2>4, <2>5 DEF SignInv
<1>7. CASE ~(k > Len(sigs)) /\ Verifies(sigs[k])
  <2>1. pc' = "done" /\ result' = "ok" /\ k' = k
    BY <1>7 DEF Check, Return
  <2>2. k \in DOMAIN sigs
    BY <1>2, <1>7
  <2>3. Signs(sigs[k])
    BY <1>4, <1>7, <2>2, VerifiesSigns
  <2>4. SignType' /\ CollectedInv'
    BY <1>1, <1>2, <1>4, <2>1 DEF SignType, CollectedInv
  <2>5. \E j \in DOMAIN layers : Signs(layers[j])
    BY <1>4, <2>2, <2>3
  <2>6. AcceptedIffSigned'
    BY <1>1, <2>1, <2>5 DEF AcceptedIffSigned, AcceptedIsSigned, OneIsEnough, Signs
  <2> QED BY <2>4, <2>6 DEF SignInv
<1>8. CASE ~(k > Len(sigs)) /\ ~Verifies(sigs[k])
  <2>1. pc' = "check" /\ result' = result /\ k' = k + 1
    BY <1>1, <1>8 DEF Check
  <2>2. \A n \in DOMAIN sigs : n < k + 1 => ~Verifies(sigs[n])
    BY <1>2, <1>3, <1>8
  <2>3. SignType'
    BY <1>1, <1>2, <2>1 DEF SignInv, SignType
  <2>4. CollectedInv'
    BY <1>1, <1>4, <1>5, <2>1, <2>2, Zenon DEF CollectedInv, Collects, Verifies
  <2>5. AcceptedIffSigned'
    BY <1>1, <2>1 DEF AcceptedIffSigned, AcceptedIsSigned, OneIsEnough
  <2> QED BY <2>3, <2>4, <2>5 DEF SignInv
<1> QED BY <1>6, <1>7, <1>8

\* Every step keeps the invariant of the verification.
LEMMA SignStep ==
  SignInv /\ [VerifyNext]_allVars => SignInv'
<1> SUFFICES ASSUME SignInv, [VerifyNext]_allVars PROVE SignInv'
  OBVIOUS
<1>0. pc \notin {"collect", "check", "done"} => layers = <<>> /\ sigs = <<>> /\ k = 1 /\ result # "ok"
  BY DEF SignInv, SignType
<1>1. CASE UNCHANGED allVars
  BY <1>1, Zenon DEF allVars, vars, verifier, SignInv, SignType, CollectedInv, Collects, Verifies,
     AcceptedIffSigned, AcceptedIsSigned, OneIsEnough, Signs
<1>2. CASE Probe /\ UNCHANGED verifier
  BY <1>0, <1>2, NoVerifierStep DEF Probe, Fail
<1>3. CASE Token /\ UNCHANGED verifier
  BY <1>0, <1>3, NoVerifierStep DEF Token, Fail
<1>4. CASE FetchManifest /\ UNCHANGED verifier
  BY <1>0, <1>4, NoVerifierStep, Zenon DEF FetchManifest, Fail, UseManifest, LayersFrom, BeginBlob
<1>5. CASE FetchPicked /\ UNCHANGED verifier
  BY <1>0, <1>5, NoVerifierStep, Zenon DEF FetchPicked, Fail, UseManifest, LayersFrom, BeginBlob
<1>6. CASE FetchBlob /\ UNCHANGED verifier
  BY <1>0, <1>6, NoVerifierStep, Zenon DEF FetchBlob, Fail, Redirect, LayersFrom, BeginBlob, SignInv, SignType
<1>7. CASE (FetchBlobStream \/ FetchBlobToBuffer) /\ UNCHANGED verifier
  BY <1>0, <1>7, NoVerifierStep, Zenon DEF FetchBlobStream, FetchBlobToBuffer, GetStream, Fail, Redirect
<1>8. CASE BufferTooSmall /\ UNCHANGED verifier
  BY <1>0, <1>8, NoVerifierStep DEF BufferTooSmall, Fail
<1>9. CASE FetchImage
  BY <1>0, <1>9, NoVerifierStep DEF FetchImage, Fail
<1>10. CASE FetchPickedImage
  BY <1>0, <1>10, NoVerifierStep DEF FetchPickedImage, pull, Fail
<1>11. CASE FetchTag
  BY <1>11, FetchTagStep
<1>12. CASE \E b \in BOOLEAN : Collect(b)
  BY <1>12, CollectStep
<1>13. CASE \E b \in BOOLEAN : CollectRedirect(b)
  <2>1. UNCHANGED <<pc, mode, man, result, verifier>>
    BY <1>13 DEF CollectRedirect, Redirect, pull
  <2> QED BY <2>1, Zenon DEF verifier, SignInv, SignType, CollectedInv, Collects, Verifies,
          AcceptedIffSigned, AcceptedIsSigned, OneIsEnough, Signs
<1>14. CASE Collected
  BY <1>14, CollectedStep
<1>15. CASE Check
  BY <1>15, CheckStep
<1>16. CASE Finished
  BY <1>1, <1>16 DEF Finished, allVars
<1> QED BY <1>1, <1>2, <1>3, <1>4, <1>5, <1>6, <1>7, <1>8, <1>9, <1>10, <1>11, <1>12, <1>13, <1>14,
        <1>15, <1>16 DEF VerifyNext, Next

\* Whatever a registry sends, Verify succeeds if and only if the manifest used holds a
\* signature of the image by the trusted key: for any layers, any number of them and
\* bodies lost on the way.
THEOREM AcceptsExactlySigned ==
  VerifySpec => []AcceptedIffSigned
<1>1. VerifyInit => SignInv
  BY DEF VerifyInit, Init, SignInv, SignType, CollectedInv, AcceptedIffSigned, AcceptedIsSigned, OneIsEnough
<1>2. SignInv => AcceptedIffSigned
  BY DEF SignInv
<1> QED BY <1>1, <1>2, SignStep, PTL DEF VerifySpec, allVars

-----------------------------------------------------------------------------
(* The artifact.                                                            *)

(* What a walk that has come to the blobs knows of the manifest.            *)
ManifestInv ==
  /\ pc \in {"probe", "token", "manifest"} => index = None
  /\ pc \in {"config", "layer"} =>
       mode # "verify" /\ man \in Manifest /\ (index # None => man = PickPlatform(index))
  /\ pc \in {"tag", "collect", "check"} => mode = "verify"
  /\ pc = "layer" => (~skip => config = Config[man])

(* The loop over the layers: what is before layer i has been fetched or     *)
(* filtered out, nothing else has.                                          *)
LayersInv ==
  pc = "layer" =>
    /\ i \in DOMAIN Layers[man]
    /\ mode = "blob" =>
         /\ Layers[man][i] \in Filter
         /\ blobs \in [DOMAIN Layers[man] -> Content \cup {None}]
         /\ \A j \in DOMAIN Layers[man] :
              blobs[j] = IF j < i /\ Layers[man][j] \in Filter THEN Layers[man][j] ELSE None

PullInv ==
  /\ ManifestInv /\ LayersInv /\ ArtifactVerified
  /\ result = "ok" => pc = "done"
  /\ pc # "done" => dst = <<>>

LOCAL INSTANCE WellFoundedInduction

Less == {p \in Nat \X Nat : p[1] < p[2]}

\* The library's well-founded order, as a set of pairs.
LEMMA LessRelation == Less = OpToRel(<, Nat)
  BY Zenon DEF OpToRel, Less

\* Min of a non-empty set of natural numbers is its least element (the loops over
\* entries and layers, which take the first that fits).
LEMMA MinIsLeast ==
  ASSUME NEW T \in SUBSET Nat, T # {}
  PROVE  Min(T) \in T /\ \A y \in T : Min(T) <= y
<1>1. PICK x \in T : \A y \in T : <<y, x>> \notin Less
  BY NatLessThanWellFounded, WFMin, LessRelation, Zenon
<1>2. \A a, b \in Nat : a < b => <<a, b>> \in Less
  BY DEF Less
<1>3. ASSUME NEW y \in T PROVE x <= y
  <2>1. x \in Nat /\ y \in Nat
    OBVIOUS
  <2>2. ~(y < x)
    BY <1>1, <1>2, <2>1, Zenon
  <2> QED BY <2>1, <2>2
<1> QED BY <1>3, Zenon DEF Min

\* Where the loop over the layers goes from layer n on: to the first of them that the
\* filter takes, past only such as it refuses, or out of the loop (FetchArtifact).
LEMMA LayersFromStep ==
  ASSUME NEW m \in Manifest, NEW n \in Nat \ {0}, LayersFrom(m, n)
  PROVE  \/ /\ pc' = "done" /\ result' = "ok" /\ mode = "blob"
            /\ \A j \in DOMAIN Layers[m] : j >= n => Layers[m][j] \notin Filter
         \/ /\ pc' = "layer" /\ result' = result /\ i' \in DOMAIN Layers[m]
            /\ mode = "blob" =>
                 /\ i' >= n /\ Layers[m][i'] \in Filter
                 /\ \A j \in DOMAIN Layers[m] : j >= n /\ j < i' => Layers[m][j] \notin Filter
<1> DEFINE todo == {j \in n .. Len(Layers[m]) : Layers[m][j] \in Filter}
<1>1. Layers[m] \in Seq(Content) /\ DOMAIN Layers[m] = 1 .. Len(Layers[m]) /\ Len(Layers[m]) \in Nat
  BY OciAssumption
<1>2. CASE mode = "blob" /\ todo = {}
  BY <1>1, <1>2 DEF LayersFrom
<1>3. CASE mode = "blob" /\ todo # {}
  <2>1. todo \in SUBSET Nat
    BY <1>1
  <2>2. i' = Min(todo) /\ pc' = "layer" /\ result' = result
    BY <1>3 DEF LayersFrom, BeginBlob
  <2>3. i' \in todo /\ \A j \in todo : i' <= j
    <3> HIDE DEF todo
    <3> QED BY <1>3, <2>1, <2>2, MinIsLeast
  <2>4. i' \in n .. Len(Layers[m]) /\ Layers[m][i'] \in Filter
    BY <2>3
  <2>5. ASSUME NEW j \in DOMAIN Layers[m], j >= n, j < i' PROVE Layers[m][j] \notin Filter
    <3>1. j \in n .. Len(Layers[m]) /\ ~(i' <= j)
      BY <1>1, <2>4, <2>5
    <3> QED BY <2>3, <3>1
  <2> QED BY <1>1, <2>2, <2>4, <2>5
<1>4. CASE mode # "blob"
  BY <1>1, <1>4 DEF LayersFrom, BeginBlob
<1> QED BY <1>2, <1>3, <1>4

\* A manifest that has been accepted begins the walk (FetchArtifact).
LEMMA UseManifestStep ==
  ASSUME NEW m \in Manifest, UseManifest(m), PullInv, pc # "done", mode # "verify",
         index' # None => m = PickPlatform(index'),
         UNCHANGED <<mode, skip, config, dst>>
  PROVE  PullInv'
<1>1. Layers[m] \in Seq(Content) /\ DOMAIN Layers[m] = 1 .. Len(Layers[m]) /\ Len(Layers[m]) \in Nat
  BY OciAssumption
<1>2. man' = m /\ dst' = <<>> /\ result # "ok"
  BY DEF UseManifest, PullInv
<1>3. CASE ~skip
  <2>1. pc' = "config" /\ result' = result
    BY <1>3 DEF UseManifest, BeginBlob
  <2> QED BY <1>2, <2>1 DEF PullInv, ManifestInv, LayersInv, ArtifactVerified
<1>4. CASE skip
  <2>1. LayersFrom(m, 1) /\ blobs' = NoBlobs(m)
    BY <1>4 DEF UseManifest
  <2>2. blobs' \in [DOMAIN Layers[m] -> Content \cup {None}] /\ \A j \in DOMAIN Layers[m] : blobs'[j] = None
    BY <2>1 DEF NoBlobs
  <2>3. CASE pc' = "done"
    <3>1. result' = "ok" /\ mode = "blob" /\ \A j \in DOMAIN Layers[m] : Layers[m][j] \notin Filter
      BY <1>1, <2>1, <2>3, LayersFromStep
    <3> QED BY <1>1, <1>2, <1>4, <2>2, <2>3, <3>1
            DEF PullInv, ManifestInv, LayersInv, ArtifactVerified
  <2>4. CASE pc' # "done"
    <3>1. /\ pc' = "layer" /\ result' = result /\ i' \in DOMAIN Layers[m]
          /\ mode = "blob" =>
               /\ i' >= 1 /\ Layers[m][i'] \in Filter
               /\ \A j \in DOMAIN Layers[m] : j >= 1 /\ j < i' => Layers[m][j] \notin Filter
      BY <2>1, <2>4, LayersFromStep
    <3> QED BY <1>1, <1>2, <1>4, <2>2, <3>1
            DEF PullInv, ManifestInv, LayersInv, ArtifactVerified
  <2> QED BY <2>3, <2>4
<1> QED BY <1>3, <1>4

\* A step that ends the walk with an error, or that goes on without touching what the
\* invariant speaks of.
LEMMA FailStep ==
  ASSUME PullInv, Fail PROVE PullInv'
  BY DEF PullInv, Fail, ManifestInv, LayersInv, ArtifactVerified

\* A step that changes nothing the pull's invariant speaks of.
LEMMA SameStep ==
  ASSUME PullInv, UNCHANGED <<pc, mode, skip, i, index, man, config, blobs, dst, result>> PROVE PullInv'
  BY DEF PullInv, ManifestInv, LayersInv, ArtifactVerified, PickPlatform

(* What the fetch of a blob leaves.                                         *)
Picked == index # None => man = PickPlatform(index)
ConfigFetched == ~skip => config = Config[man]
FetchedBelow(n) ==
  /\ blobs \in [DOMAIN Layers[man] -> Content \cup {None}]
  /\ \A j \in DOMAIN Layers[man] :
       blobs[j] = IF j < n /\ Layers[man][j] \in Filter THEN Layers[man][j] ELSE None
AllFetched ==
  \A j \in 1 .. Len(Layers[man]) : blobs[j] = IF Layers[man][j] \in Filter THEN Layers[man][j] ELSE None

\* The loop over the layers is over (FetchArtifact).
LEMMA WalkEnds ==
  ASSUME pc' = "done", result' = "ok", mode' = "blob", Picked', ConfigFetched', AllFetched' PROVE PullInv'
  BY DEF PullInv, ManifestInv, LayersInv, ArtifactVerified, Picked, ConfigFetched, AllFetched

\* The loop over the layers comes to the next one (FetchArtifact).
LEMMA WalkGoesOn ==
  ASSUME pc' = "layer", result' # "ok", mode' # "verify", man' \in Manifest, dst' = <<>>, Picked', ConfigFetched',
         i' \in DOMAIN Layers[man'], mode' = "blob" => Layers[man'][i'] \in Filter /\ FetchedBelow(i)'
  PROVE  PullInv'
  BY DEF PullInv, ManifestInv, LayersInv, ArtifactVerified, Picked, ConfigFetched, FetchedBelow

\* The platform's manifest stays the one the index names (PickPlatform).
LEMMA StaysPicked == ASSUME Picked, UNCHANGED <<index, man>> PROVE Picked'
  BY DEF Picked, PickPlatform

\* The config, or the layer in turn, has been fetched and verified, or has not
\* (FetchBlob).
LEMMA FetchBlobStep ==
  ASSUME PullInv, FetchBlob PROVE PullInv'
<1>1. man \in Manifest /\ mode # "verify" /\ result # "ok" /\ dst = <<>> /\ pc # "done"
  BY DEF FetchBlob, PullInv, ManifestInv
<1>2. Layers[man] \in Seq(Content) /\ DOMAIN Layers[man] = 1 .. Len(Layers[man]) /\ Len(Layers[man]) \in Nat
  BY <1>1, OciAssumption
<1>3. CASE Fail
  BY <1>3, FailStep
<1>4. CASE \E elsewhere \in BOOLEAN : Redirect(elsewhere) /\ UNCHANGED <<i, config, blobs>>
  BY <1>4, SameStep DEF FetchBlob, Redirect
<1>0. UNCHANGED <<mode, skip, index, man, dst>>
  BY DEF FetchBlob
<1>5. ASSUME pc = "config", config' = Config[man], LayersFrom(man, 1), blobs' = NoBlobs(man)
      PROVE  PullInv'
  <2>1. blobs' \in [DOMAIN Layers[man] -> Content \cup {None}] /\ \A j \in DOMAIN Layers[man] : blobs'[j] = None
    BY <1>5 DEF NoBlobs
  <2>2. Picked'
    BY <1>0, <1>5, StaysPicked DEF PullInv, ManifestInv, Picked
  <2>3. ConfigFetched'
    BY <1>0, <1>5 DEF ConfigFetched
  <2>4. 1 \in Nat \ {0}
    OBVIOUS
  <2>5. CASE pc' = "done"
    <3>1. result' = "ok" /\ mode = "blob" /\ \A j \in DOMAIN Layers[man] : j >= 1 => Layers[man][j] \notin Filter
      BY <1>1, <1>5, <2>4, <2>5, LayersFromStep
    <3>2. AllFetched'
      BY <1>0, <1>2, <2>1, <3>1 DEF AllFetched
    <3> QED BY <1>0, <2>2, <2>3, <2>5, <3>1, <3>2, WalkEnds
  <2>6. CASE pc' # "done"
    <3>1. /\ pc' = "layer" /\ result' = result /\ i' \in DOMAIN Layers[man]
          /\ mode = "blob" =>
               /\ i' >= 1 /\ Layers[man][i'] \in Filter
               /\ \A j \in DOMAIN Layers[man] : j >= 1 /\ j < i' => Layers[man][j] \notin Filter
      BY <1>1, <1>5, <2>4, <2>6, LayersFromStep
    <3>2. mode = "blob" => FetchedBelow(i)'
      BY <1>0, <1>2, <2>1, <3>1 DEF FetchedBelow
    <3> QED BY <1>0, <1>1, <2>2, <2>3, <3>1, <3>2, WalkGoesOn
  <2> QED BY <2>5, <2>6
<1>6. ASSUME pc = "layer", mode = "blob", Layers[man][i] \in Content,
             blobs' = [blobs EXCEPT ![i] = Layers[man][i]], LayersFrom(man, i + 1), UNCHANGED config
      PROVE  PullInv'
  <2>1. i \in DOMAIN Layers[man] /\ Layers[man][i] \in Filter /\ FetchedBelow(i)
    BY <1>6 DEF PullInv, LayersInv, FetchedBelow
  <2>2. i \in 1 .. Len(Layers[man]) /\ i + 1 \in Nat \ {0}
    BY <1>2, <2>1
  <2>3. /\ blobs' \in [DOMAIN Layers[man] -> Content \cup {None}]
        /\ \A j \in DOMAIN Layers[man] :
             blobs'[j] = IF j < i + 1 /\ Layers[man][j] \in Filter THEN Layers[man][j] ELSE None
    <3>1. /\ blobs' \in [DOMAIN Layers[man] -> Content \cup {None}]
          /\ \A j \in DOMAIN Layers[man] : blobs'[j] = IF j = i THEN Layers[man][i] ELSE blobs[j]
      BY <1>6, <2>1 DEF FetchedBelow
    <3>2. ASSUME NEW j \in DOMAIN Layers[man]
          PROVE  blobs'[j] = IF j < i + 1 /\ Layers[man][j] \in Filter THEN Layers[man][j] ELSE None
      <4>1. j < i + 1 <=> j < i \/ j = i
        BY <1>2, <2>2
      <4>2. blobs[j] = IF j < i /\ Layers[man][j] \in Filter THEN Layers[man][j] ELSE None
        BY <2>1 DEF FetchedBelow
      <4> QED BY <2>1, <3>1, <4>1, <4>2
    <3> QED BY <3>1, <3>2
  <2>4. Picked'
    BY <1>0, <1>6, StaysPicked DEF PullInv, ManifestInv, Picked
  <2>5. ConfigFetched'
    BY <1>0, <1>6 DEF PullInv, ManifestInv, ConfigFetched
  <2>6. CASE pc' = "done"
    <3>1. result' = "ok" /\ \A j \in DOMAIN Layers[man] : j >= i + 1 => Layers[man][j] \notin Filter
      BY <1>1, <1>6, <2>2, <2>6, LayersFromStep
    <3>2. AllFetched'
      <4>1. ASSUME NEW j \in DOMAIN Layers[man]
            PROVE  blobs'[j] = IF Layers[man][j] \in Filter THEN Layers[man][j] ELSE None
        <5>1. j < i + 1 \/ Layers[man][j] \notin Filter
          BY <1>2, <2>2, <3>1
        <5> QED BY <2>3, <5>1
      <4> QED BY <1>0, <1>2, <4>1 DEF AllFetched
    <3> QED BY <1>0, <1>6, <2>4, <2>5, <2>6, <3>1, <3>2, WalkEnds
  <2>7. CASE pc' # "done"
    <3>1. /\ pc' = "layer" /\ result' = result /\ i' \in DOMAIN Layers[man]
          /\ i' >= i + 1 /\ Layers[man][i'] \in Filter
          /\ \A j \in DOMAIN Layers[man] : j >= i + 1 /\ j < i' => Layers[man][j] \notin Filter
      BY <1>1, <1>6, <2>2, <2>7, LayersFromStep
    <3>2. FetchedBelow(i)'
      <4>1. ASSUME NEW j \in DOMAIN Layers[man]
            PROVE  blobs'[j] = IF j < i' /\ Layers[man][j] \in Filter THEN Layers[man][j] ELSE None
        <5>1. Layers[man][j] \in Filter => (j < i + 1 <=> j < i')
          BY <1>2, <2>2, <3>1
        <5> QED BY <2>3, <5>1
      <4> QED BY <1>0, <2>3, <4>1 DEF FetchedBelow
    <3> QED BY <1>0, <1>1, <1>6, <2>4, <2>5, <3>1, <3>2, WalkGoesOn
  <2> QED BY <2>6, <2>7
<1> QED BY <1>3, <1>4, <1>5, <1>6 DEF FetchBlob, VerifyDigest, Wanted

\* A body streamed without an error is the layer asked for and nothing else is in front
\* of it (FetchBlobStream, FetchBlobToBuffer).
LEMMA GetStreamStep ==
  ASSUME PullInv, pc = "layer", mode \in {"stream", "buffer"}, NEW limit, GetStream(limit)
  PROVE  PullInv'
<1>1. /\ man \in Manifest /\ dst = <<>> /\ result # "ok" /\ i \in DOMAIN Layers[man]
      /\ index # None => man = PickPlatform(index)
      /\ ~skip => config = Config[man]
  BY DEF PullInv, ManifestInv, LayersInv
<1>2. UNCHANGED <<mode, skip, i, index, man, config, blobs>>
  BY DEF GetStream
<1>3. CASE Fail
  BY <1>3, FailStep
<1>4. CASE \E elsewhere \in BOOLEAN, body \in Content : Redirect(elsewhere) /\ Discard(body)
  BY <1>2, <1>4, SameStep DEF Redirect, Discard
<1>5. ASSUME NEW body \in Content, dst' = dst \o Bytes(body), VerifyDigest(Wanted, body),
             pc' = "done", result' = "ok"
      PROVE  PullInv'
  <2>1. body = Layers[man][i]
    BY <1>5 DEF VerifyDigest, Wanted
  <2>2. Bytes(body) \in Seq({body} \X Nat)
    BY OciAssumption DEF Bytes
  <2>3. dst' = Bytes(body)
    <3> HIDE DEF Bytes
    <3>1. dst' = <<>> \o Bytes(body)
      BY <1>1, <1>5, Zenon
    <3>2. \A S, s : s \in Seq(S) => <<>> \o s = s
      OBVIOUS
    <3> QED BY <2>2, <3>1, <3>2, Zenon
  <2>4. Bytes(body) = Bytes(Layers[man][i])
    BY <2>1
  <2> QED BY <1>1, <1>2, <1>5, <2>3, <2>4, Zenon
          DEF PullInv, ManifestInv, LayersInv, ArtifactVerified, PickPlatform, Bytes
<1> QED BY <1>3, <1>4, <1>5 DEF GetStream

\* Every step of the walk, and of the verification of a signature, keeps the invariant.
LEMMA PullStep == PullInv /\ [VerifyNext]_allVars => PullInv'
<1> SUFFICES ASSUME PullInv, [VerifyNext]_allVars PROVE PullInv'
  OBVIOUS
<1>1. CASE Probe
  BY <1>1, FailStep, Zenon DEF Probe, PullInv, ManifestInv, LayersInv, ArtifactVerified
<1>2. CASE Token
  BY <1>2, FailStep, Zenon DEF Token, PullInv, ManifestInv, LayersInv, ArtifactVerified
<1>3. CASE FetchManifest
  <2>1. pc # "done" /\ mode # "verify" /\ index = None /\ result # "ok"
    BY <1>3 DEF FetchManifest, PullInv, ManifestInv
  <2>2. CASE Fail
    BY <2>2, FailStep
  <2>3. CASE \E body \in Index : index' = body /\ pc' = "picked" /\ UNCHANGED <<result, man>>
    BY <1>3, <2>1, <2>3 DEF FetchManifest, PullInv, ManifestInv, LayersInv, ArtifactVerified
  <2>4. ASSUME NEW body \in Manifest, UseManifest(body), UNCHANGED index PROVE PullInv'
    BY <1>3, <2>1, <2>4, UseManifestStep DEF FetchManifest
  <2> QED BY <1>3, <2>2, <2>3, <2>4 DEF FetchManifest
<1>4. CASE FetchPicked
  <2>1. pc # "done" /\ mode # "verify" /\ UNCHANGED <<mode, skip, index, config, dst>>
    BY <1>4 DEF FetchPicked
  <2>2. CASE Fail
    BY <2>2, FailStep
  <2>3. ASSUME NEW body \in Manifest, VerifyDigest(PickPlatform(index), body), UseManifest(body) PROVE PullInv'
    <3>1. body = PickPlatform(index')
      BY <2>1, <2>3 DEF VerifyDigest, PickPlatform
    <3> QED BY <2>1, <2>3, <3>1, UseManifestStep
  <2> QED BY <1>4, <2>2, <2>3 DEF FetchPicked
<1>5. CASE FetchBlob
  BY <1>5, FetchBlobStep
<1>6. CASE FetchBlobStream
  BY <1>6, GetStreamStep DEF FetchBlobStream
<1>7. CASE FetchBlobToBuffer
  BY <1>7, GetStreamStep DEF FetchBlobToBuffer
<1>8. CASE BufferTooSmall
  BY <1>8, FailStep DEF BufferTooSmall
<1>9. CASE FetchImage
  BY <1>9, FailStep, Zenon DEF FetchImage, PullInv, ManifestInv, LayersInv, ArtifactVerified
<1>10. CASE FetchPickedImage
  BY <1>10, FailStep, Zenon DEF FetchPickedImage, pull, PullInv, ManifestInv, LayersInv, ArtifactVerified
<1>11. CASE FetchTag
  BY <1>11, Zenon DEF FetchTag, pull, Return, BeginBlob, PullInv, ManifestInv, LayersInv, ArtifactVerified
<1>12. CASE \E b \in BOOLEAN : Collect(b)
  BY <1>12, Zenon DEF Collect, pull, BeginBlob, PullInv, ManifestInv, LayersInv, ArtifactVerified
<1>13. CASE \E b \in BOOLEAN : CollectRedirect(b)
  BY <1>13, SameStep DEF CollectRedirect, Redirect, pull
<1>14. CASE Collected
  BY <1>14, Zenon DEF Collected, pull, Return, PullInv, ManifestInv, LayersInv, ArtifactVerified
<1>15. CASE Check
  BY <1>15, Zenon DEF Check, pull, Return, PullInv, ManifestInv, LayersInv, ArtifactVerified
<1>16. CASE UNCHANGED allVars
  BY <1>16, SameStep DEF allVars, vars
<1> QED
  BY <1>1, <1>2, <1>3, <1>4, <1>5, <1>6, <1>7, <1>8, <1>9, <1>10, <1>11, <1>12, <1>13, <1>14, <1>15, <1>16
     DEF VerifyNext, Next, Finished, allVars

\* Whatever the servers send, a successful walk has what the digests name: the manifest
\* of the index, its config, its layers, each at its place (FetchArtifact,
\* FetchBlobStream, FetchBlobToBuffer).
THEOREM ArtifactIsVerified == VerifySpec => []ArtifactVerified
<1>1. VerifyInit => PullInv
  BY DEF VerifyInit, Init, PullInv, ManifestInv, LayersInv, ArtifactVerified
<1>2. PullInv => ArtifactVerified
  BY DEF PullInv
<1> QED
  BY <1>1, <1>2, PullStep, PTL DEF VerifySpec, allVars

-----------------------------------------------------------------------------
(* The network probes.  What a probe has by now is told by the stages it    *)
(* still awaits; what an answer on the wire may do to it, by the place of    *)
(* the probe in the dispatcher's order and by the identifier it carries.    *)

ProbeSet == {Dispatch[n] : n \in DOMAIN Dispatch}

\* The probes that use a lease.
Leased == {"dhcp4", "http"} \cup OverTls

Precedes(p, q) == \E a, b \in DOMAIN Dispatch : a < b /\ Dispatch[a] = p /\ Dispatch[b] = q

\* A stage of A is still to come in s.
StageAhead(s, A) == \E n \in DOMAIN s : s[n] \in A
NoneAfter(s, n, A) == \A m \in DOMAIN s : m > n => s[m] \notin A
SomeAfter(s, n, x) == \E m \in DOMAIN s : m > n /\ s[m] = x

StageNames ==
  {"locate", "open", "start", "lease", "dns", "address", "gateway", "static", "ping", "gwping", "preping",
   "resolve", "roots", "get", "artifact", "authenticate", "manifest", "layers", "blob", "repository",
   "resolve-ref", "sign", "verify", "tampered", "ok"}

\* The order of a probe's stages, as far as it matters.
StageOrder(s, p) ==
  /\ s \in Seq(StageNames)
  /\ \A n \in DOMAIN s :
       /\ s[n] = "ok" => n = Len(s)
       /\ s[n] \in {"ping", "static"} => p = "ping" /\ NoneAfter(s, n, {"open", "static"})
       /\ s[n] \in {"preping", "gwping"} => p \in Leased /\ NoneAfter(s, n, {"open", "lease", "address"})
       /\ s[n] = "address" => p \in Leased /\ NoneAfter(s, n, {"open", "lease", "address"})
       /\ s[n] = "lease" => p # "ping" /\ NoneAfter(s, n, {"open", "lease"})
       /\ s[n] = "lease" /\ p \in Leased => SomeAfter(s, n, "address")
       /\ s[n] = "open" => NoneAfter(s, n, {"open"})
       /\ s[n] = "open" /\ p \in Leased => SomeAfter(s, n, "lease") /\ SomeAfter(s, n, "address")
       /\ s[n] = "open" /\ p = "ping" => SomeAfter(s, n, "static") /\ SomeAfter(s, n, "ping")
       /\ s[n] = "static" => SomeAfter(s, n, "ping")
       /\ s[n] = "ping" => NoneAfter(s, n, {"ping"})
       /\ s[n] \in {"roots", "resolve"} => p \notin {"ping", "dhcp4"}
       /\ s[n] = "gwping" => n = Len(s)
       /\ s[n] = "preping" => p # "dhcp4"

\* The dispatcher: what is left of the image follows the probe that runs and has no
\* outcome yet; neither has the probe that runs.
ImageInv ==
  /\ image \in Seq(ProbeSet) /\ probe \in ProbeSet \cup {"none"}
  /\ outcome \in [ProbeSet -> {"none", "ok", "fail", "quiet"}]
  /\ \A j, n \in DOMAIN image : j < n => Precedes(image[j], image[n])
  /\ probe # "none" => \A n \in DOMAIN image : Precedes(probe, image[n])
  /\ \A n \in DOMAIN image : outcome[image[n]] = "none"
  /\ stages # <<>> => probe # "none" /\ outcome[probe] = "none"
  /\ StageOrder(stages, probe)

\* What is asked belongs to the stage, and what is on the wire was sent for a question.
WireInv ==
  /\ opens \in Nat /\ ipID \in Nat /\ echoed \in Nat /\ "static" \notin granted
  /\ asked = Nobody \/
       /\ stages # <<>> /\ asked = [kind |-> asked.kind, id |-> asked.id]
       /\ \/ asked.kind = "dhcp" /\ Head(stages) = "lease"
          \/ asked.kind = "echo" /\ Head(stages) \in {"ping", "preping", "gwping"}
  /\ \A f \in wire :
       f.kind \in {"dhcp", "echo"} /\ (f.kind = "dhcp" => f.lease.addr \in granted) /\ (f.kind = "echo" => f.id \in Nat)

\* What the stages gone by have left.
StageInv ==
  stages # <<>> =>
    /\ probe \in Leased /\ ~StageAhead(stages, {"lease"}) => lease.addr \in granted
    /\ probe \in Leased /\ ~StageAhead(stages, {"address"}) => local \in granted
    /\ probe \in OverTls /\ ~StageAhead(stages, {"roots"}) => roots
    /\ probe = "ping" /\ ~StageAhead(stages, {"static"}) => local = "static"
    /\ probe = "ping" /\ ~StageAhead(stages, {"ping"}) => pinged = opens
    /\ probe = "ping" /\ ~StageAhead(stages, {"open"}) /\ StageAhead(stages, {"ping"}) /\ asked = Nobody =>
         ipID <= echoed
    /\ probe = "dhcp4" /\ ~StageAhead(stages, {"open"}) /\ StageAhead(stages, {"lease"}) /\ asked = Nobody =>
         ipID <= echoed
    /\ probe = "dhcp4" /\ (~StageAhead(stages, {"lease"}) \/ asked.kind = "dhcp") /\ asked.kind # "echo" =>
         echoed >= 2 \/ ipID \in 2 .. 2 + echoed
    /\ probe = "dhcp4" /\ asked.kind = "echo" => echoed >= 2 \/ asked.id > 1
    /\ probe = "dhcp4" /\ StageAhead(stages, {"open", "address"}) => pinged = 0

\* Echo replies: the number of one to the ping probe is at most that of the echo requests
\* answered by then, and dhcp4 waits for one above 1, or has answered two itself.
EchoInv ==
  /\ probe = "none" => wire = {}
  /\ probe = "ping" => \A f \in wire : f.kind = "echo" /\ f.id <= echoed /\ f.to = opens
  /\ probe = "ping" /\ StageAhead(stages, {"open"}) => wire = {}
  /\ probe = "dhcp4" => \A f \in wire :
       f.kind = "echo" => f.id <= echoed \/ (f.to = opens /\ ~StageAhead(stages, {"open"}))

NetInv == ImageInv /\ WireInv /\ StageInv /\ EchoInv /\ VerdictEarned

-----------------------------------------------------------------------------
\* The order of the dispatcher is strict, begins with ping, and dhcp4 is second
\* (runPhase2Probe).
LEMMA DispatchOrder ==
  ASSUME NEW p, NEW q, Precedes(p, q)
  PROVE  p # q /\ q # "ping" /\ (q = "dhcp4" => p = "ping")
<1>1. PICK a \in DOMAIN Dispatch, b \in DOMAIN Dispatch : a < b /\ Dispatch[a] = p /\ Dispatch[b] = q
  BY DEF Precedes
<1>2. DOMAIN Dispatch = 1 .. 9
  BY DEF Dispatch
<1>3. /\ Dispatch[1] = "ping" /\ Dispatch[2] = "dhcp4" /\ Dispatch[3] = "http" /\ Dispatch[4] = "https"
      /\ Dispatch[5] = "fetch" /\ Dispatch[6] = "stream" /\ Dispatch[7] = "selftest" /\ Dispatch[8] = "cosign"
      /\ Dispatch[9] = "oras"
  BY DEF Dispatch
<1>4. a \in {1, 2, 3, 4, 5, 6, 7, 8, 9} /\ b \in {1, 2, 3, 4, 5, 6, 7, 8, 9}
  BY <1>2
<1> QED BY <1>1, <1>3, <1>4

\* What the order of the stages says of s it says of what is left after the first.
LEMMA OrderTail ==
  ASSUME NEW s, NEW p, StageOrder(s, p), s # <<>>
  PROVE  /\ StageOrder(Tail(s), p) /\ Len(Tail(s)) = Len(s) - 1 /\ Len(s) \in Nat \ {0}
         /\ \A n \in DOMAIN Tail(s) : Tail(s)[n] = s[n + 1] /\ n + 1 \in DOMAIN s
<1>1. s \in Seq(StageNames) /\ Len(s) \in Nat \ {0} /\ DOMAIN s = 1 .. Len(s)
  BY DEF StageOrder
<1>2. /\ Tail(s) \in Seq(StageNames) /\ Len(Tail(s)) = Len(s) - 1 /\ DOMAIN Tail(s) = 1 .. Len(s) - 1
      /\ \A n \in 1 .. Len(s) - 1 : Tail(s)[n] = s[n + 1] /\ n + 1 \in 1 .. Len(s)
  BY <1>1
<1> DEFINE rest == Tail(s)
<1> HIDE DEF rest
<1>3. ASSUME NEW n \in DOMAIN rest, NEW A, NoneAfter(s, n + 1, A) PROVE NoneAfter(rest, n, A)
  BY <1>1, <1>2, <1>3 DEF NoneAfter, rest
<1>4. ASSUME NEW n \in DOMAIN rest, NEW x, SomeAfter(s, n + 1, x) PROVE SomeAfter(rest, n, x)
  <2>1. PICK m \in DOMAIN s : m > n + 1 /\ s[m] = x
    BY <1>4 DEF SomeAfter
  <2>2. m - 1 \in DOMAIN rest /\ m - 1 > n /\ rest[m - 1] = s[m]
    BY <1>1, <1>2, <2>1 DEF rest
  <2> QED BY <2>1, <2>2 DEF SomeAfter
<1>5. StageOrder(rest, p)
  <2> SUFFICES ASSUME NEW n \in DOMAIN rest
               PROVE  /\ rest[n] = "ok" => n = Len(rest)
                      /\ rest[n] \in {"ping", "static"} => p = "ping" /\ NoneAfter(rest, n, {"open", "static"})
                      /\ rest[n] \in {"preping", "gwping"} => p \in Leased /\ NoneAfter(rest, n, {"open", "lease", "address"})
                      /\ rest[n] = "address" => p \in Leased /\ NoneAfter(rest, n, {"open", "lease", "address"})
                      /\ rest[n] = "lease" => p # "ping" /\ NoneAfter(rest, n, {"open", "lease"})
                      /\ rest[n] = "lease" /\ p \in Leased => SomeAfter(rest, n, "address")
                      /\ rest[n] = "open" => NoneAfter(rest, n, {"open"})
                      /\ rest[n] = "open" /\ p \in Leased => SomeAfter(rest, n, "lease") /\ SomeAfter(rest, n, "address")
                      /\ rest[n] = "open" /\ p = "ping" => SomeAfter(rest, n, "static") /\ SomeAfter(rest, n, "ping")
                      /\ rest[n] = "static" => SomeAfter(rest, n, "ping")
                      /\ rest[n] = "ping" => NoneAfter(rest, n, {"ping"})
                      /\ rest[n] \in {"roots", "resolve"} => p \notin {"ping", "dhcp4"}
                      /\ rest[n] = "gwping" => n = Len(rest)
                      /\ rest[n] = "preping" => p # "dhcp4"
    BY <1>2, Zenon DEF StageOrder, rest
  <2>1. n + 1 \in DOMAIN s /\ rest[n] = s[n + 1] /\ (n + 1 = Len(s) => n = Len(rest))
    BY <1>1, <1>2 DEF rest
  <2> QED BY <1>3, <1>4, <2>1, Zenon DEF StageOrder
<1> QED BY <1>1, <1>2, <1>5 DEF rest

\* Which stages are ahead after the first one is done.
LEMMA AheadTail ==
  ASSUME NEW s, NEW p, StageOrder(s, p), s # <<>>, NEW A
  PROVE  /\ StageAhead(Tail(s), A) => StageAhead(s, A)
         /\ StageAhead(s, A) => Head(s) \in A \/ StageAhead(Tail(s), A)
<1>1. s \in Seq(StageNames) /\ Len(s) \in Nat \ {0} /\ DOMAIN s = 1 .. Len(s) /\ Head(s) = s[1]
  BY DEF StageOrder
<1>2. /\ DOMAIN Tail(s) = 1 .. Len(s) - 1
      /\ \A n \in 1 .. Len(s) - 1 : Tail(s)[n] = s[n + 1] /\ n + 1 \in 1 .. Len(s)
  BY <1>1
<1>3. ASSUME StageAhead(s, A), Head(s) \notin A PROVE StageAhead(Tail(s), A)
  <2>1. PICK n \in DOMAIN s : s[n] \in A
    BY <1>3 DEF StageAhead
  <2>2. n - 1 \in 1 .. Len(s) - 1 /\ Tail(s)[n - 1] = s[n]
    BY <1>1, <1>2, <1>3, <2>1
  <2> QED BY <1>2, <2>1, <2>2 DEF StageAhead
<1> QED BY <1>1, <1>2, <1>3 DEF StageAhead

\* What the order says of the first stage.
LEMMA OrderHead ==
  ASSUME NEW s, NEW p, StageOrder(s, p), s # <<>>
  PROVE  /\ Head(s) = "ok" => Tail(s) = <<>> /\ \A A : StageAhead(s, A) => "ok" \in A
         /\ Head(s) \in {"ping", "static"} => p = "ping" /\ ~StageAhead(Tail(s), {"open", "static"})
         /\ Head(s) \in {"preping", "gwping", "address"} =>
              p \in Leased /\ ~StageAhead(Tail(s), {"open", "lease", "address"})
         /\ Head(s) = "lease" => p # "ping" /\ ~StageAhead(Tail(s), {"open", "lease"})
         /\ Head(s) = "lease" /\ p \in Leased => StageAhead(Tail(s), {"address"})
         /\ Head(s) = "open" => ~StageAhead(Tail(s), {"open"})
         /\ Head(s) = "open" /\ p \in Leased => StageAhead(Tail(s), {"lease"}) /\ StageAhead(Tail(s), {"address"})
         /\ Head(s) = "open" /\ p = "ping" => StageAhead(Tail(s), {"static"}) /\ StageAhead(Tail(s), {"ping"})
         /\ Head(s) = "static" => StageAhead(Tail(s), {"ping"})
         /\ Head(s) = "ping" => ~StageAhead(Tail(s), {"ping"})
         /\ Head(s) \in {"roots", "resolve"} => p \notin {"ping", "dhcp4"}
         /\ Head(s) = "gwping" => Tail(s) = <<>>
         /\ Head(s) = "preping" => p # "dhcp4"
<1>1. s \in Seq(StageNames) /\ Len(s) \in Nat \ {0} /\ DOMAIN s = 1 .. Len(s) /\ Head(s) = s[1] /\ 1 \in DOMAIN s
  BY DEF StageOrder
<1>2. /\ Tail(s) \in Seq(StageNames) /\ Len(Tail(s)) = Len(s) - 1 /\ DOMAIN Tail(s) = 1 .. Len(s) - 1
      /\ \A n \in 1 .. Len(s) - 1 : Tail(s)[n] = s[n + 1] /\ n + 1 \in 1 .. Len(s)
  BY <1>1
<1>3. ASSUME NEW A, NoneAfter(s, 1, A) PROVE ~StageAhead(Tail(s), A)
  BY <1>1, <1>2, <1>3 DEF NoneAfter, StageAhead
<1>4. ASSUME NEW x, SomeAfter(s, 1, x) PROVE StageAhead(Tail(s), {x})
  <2>1. PICK m \in DOMAIN s : m > 1 /\ s[m] = x
    BY <1>4 DEF SomeAfter
  <2>2. m - 1 \in DOMAIN Tail(s) /\ Tail(s)[m - 1] = s[m]
    BY <1>1, <1>2, <2>1
  <2> QED BY <2>1, <2>2 DEF StageAhead
<1>5. ASSUME Head(s) = "ok" PROVE Tail(s) = <<>> /\ \A A : StageAhead(s, A) => "ok" \in A
  <2>1. Len(s) = 1
    BY <1>1, <1>5 DEF StageOrder
  <2>2. Tail(s) = <<>>
    BY <1>2, <2>1
  <2>3. \A n \in DOMAIN s : s[n] = "ok"
    BY <1>1, <1>5, <2>1
  <2> QED BY <2>2, <2>3, Zenon DEF StageAhead
<1>6. ASSUME Head(s) = "gwping" PROVE Tail(s) = <<>>
  <2>1. Len(s) = 1
    BY <1>1, <1>6 DEF StageOrder
  <2> QED BY <1>2, <2>1
<1> QED BY <1>1, <1>3, <1>4, <1>5, <1>6, Zenon DEF StageOrder

\* A list of stages and what follows it.
LEMMA JoinStages ==
  ASSUME NEW s \in Seq(StageNames), NEW rest \in Seq(StageNames)
  PROVE  /\ s \o rest \in Seq(StageNames) /\ Len(s \o rest) = Len(s) + Len(rest)
         /\ \A n \in 1 .. Len(s) : (s \o rest)[n] = s[n]
         /\ \A n \in 1 .. Len(rest) : (s \o rest)[Len(s) + n] = rest[n]
OBVIOUS

\* The bring-up and the configuration that the probes with a lease share.
LEMMA SetUp ==
  LET s == BringUp \o Configure
  IN  /\ s \in Seq(StageNames) /\ Len(s) = 7
      /\ s[1] = "locate" /\ s[2] = "open" /\ s[3] = "start" /\ s[4] = "lease" /\ s[5] = "dns"
      /\ s[6] = "address" /\ s[7] = "gateway"
<1>1. BringUp \in Seq(StageNames) /\ Len(BringUp) = 3
      /\ BringUp[1] = "locate" /\ BringUp[2] = "open" /\ BringUp[3] = "start"
  BY DEF BringUp, StageNames
<1>2. Configure \in Seq(StageNames) /\ Len(Configure) = 4
      /\ Configure[1] = "lease" /\ Configure[2] = "dns" /\ Configure[3] = "address" /\ Configure[4] = "gateway"
  BY DEF Configure, StageNames
<1> DEFINE s == BringUp \o Configure
<1>3. /\ s \in Seq(StageNames) /\ Len(s) = Len(BringUp) + Len(Configure)
      /\ \A n \in 1 .. Len(BringUp) : s[n] = BringUp[n]
      /\ \A n \in 1 .. Len(Configure) : s[Len(BringUp) + n] = Configure[n]
  BY <1>1, <1>2, JoinStages, Zenon
<1> HIDE DEF s
<1>4. /\ s \in Seq(StageNames) /\ Len(s) = 7
      /\ s[1] = "locate" /\ s[2] = "open" /\ s[3] = "start" /\ s[4] = "lease" /\ s[5] = "dns"
      /\ s[6] = "address" /\ s[7] = "gateway"
  BY <1>1, <1>2, <1>3
<1> QED BY <1>4 DEF s

\* The probes that set up a lease and then use it.
LEMMA LeasedOrder ==
  ASSUME NEW rest \in Seq(StageNames), NEW p \in Leased, p # "dhcp4",
         \A n \in 1 .. Len(rest) : rest[n] \notin {"open", "lease", "address", "ping", "static", "gwping"} /\ (rest[n] = "ok" => n = Len(rest))
  PROVE  LET s == BringUp \o Configure \o rest
         IN  /\ StageOrder(s, p) /\ StageAhead(s, {"open"})
             /\ (\E n \in 1 .. Len(rest) : rest[n] = "roots") => StageAhead(s, {"roots"})
<1> DEFINE h == BringUp \o Configure
           s == h \o rest
<1>1. /\ h \in Seq(StageNames) /\ Len(h) = 7
      /\ h[1] = "locate" /\ h[2] = "open" /\ h[3] = "start" /\ h[4] = "lease" /\ h[5] = "dns"
      /\ h[6] = "address" /\ h[7] = "gateway"
  BY SetUp, Zenon
<1> HIDE DEF h
<1>2. /\ s \in Seq(StageNames) /\ Len(s) = Len(h) + Len(rest)
      /\ \A n \in 1 .. Len(h) : s[n] = h[n]
      /\ \A n \in 1 .. Len(rest) : s[Len(h) + n] = rest[n]
  BY <1>1, JoinStages, Zenon
<1> HIDE DEF s
<1>3. /\ s \in Seq(StageNames) /\ Len(s) = 7 + Len(rest) /\ Len(rest) \in Nat
      /\ s[1] = "locate" /\ s[2] = "open" /\ s[3] = "start" /\ s[4] = "lease" /\ s[5] = "dns"
      /\ s[6] = "address" /\ s[7] = "gateway"
  BY <1>1, <1>2
<1>4. \A n \in DOMAIN s : n \in {1, 2, 3, 4, 5, 6, 7} \/
        (n > 7 /\ s[n] \notin {"open", "lease", "address", "ping", "static", "gwping"} /\ (s[n] = "ok" => n = Len(s)))
  <2> SUFFICES ASSUME NEW n \in DOMAIN s, n > 7
               PROVE  s[n] \notin {"open", "lease", "address", "ping", "static", "gwping"} /\ (s[n] = "ok" => n = Len(s))
    BY <1>3
  <2>1. n - 7 \in 1 .. Len(rest) /\ s[n] = rest[n - 7]
    BY <1>1, <1>2, <1>3
  <2> QED BY <1>3, <2>1
<1>5. DOMAIN s = 1 .. Len(s) /\ p \notin {"ping", "dhcp4"}
  BY <1>3 DEF Leased, OverTls
<1>6. StageOrder(s, p)
  <2>1. /\ 2 \in DOMAIN s /\ 4 \in DOMAIN s /\ 6 \in DOMAIN s
        /\ SomeAfter(s, 2, "lease") /\ SomeAfter(s, 2, "address") /\ SomeAfter(s, 4, "address")
    BY <1>3, <1>5, SMTT(20) DEF SomeAfter
  <2>2. \A n \in DOMAIN s : /\ s[n] = "open" => n = 2
                            /\ s[n] = "lease" => n = 4
                            /\ s[n] = "address" => n = 6
                            /\ s[n] \in {"preping", "gwping"} => n > 6
                            /\ s[n] \notin {"ping", "static", "gwping"}
                            /\ s[n] = "ok" => n = Len(s)
    BY <1>3, <1>4
  <2>3. \A n \in DOMAIN s : s[n] \in {"preping", "gwping", "address"} => NoneAfter(s, n, {"open", "lease", "address"})
    BY <1>5, <2>2 DEF NoneAfter
  <2>4. \A n \in DOMAIN s : /\ s[n] = "lease" => NoneAfter(s, n, {"open", "lease"})
                            /\ s[n] = "open" => NoneAfter(s, n, {"open"})
    BY <1>5, <2>2 DEF NoneAfter
  <2> QED BY <1>3, <1>5, <2>1, <2>2, <2>3, <2>4, Zenon DEF StageOrder
<1>7. StageAhead(s, {"open"})
  BY <1>3, <1>5 DEF StageAhead
<1>8. ASSUME NEW n \in 1 .. Len(rest), rest[n] = "roots" PROVE StageAhead(s, {"roots"})
  <2>1. 7 + n \in DOMAIN s /\ s[7 + n] = "roots"
    BY <1>1, <1>2, <1>3, <1>5, <1>8
  <2> QED BY <2>1 DEF StageAhead
<1>9. /\ StageOrder(s, p) /\ StageAhead(s, {"open"})
      /\ (\E n \in 1 .. Len(rest) : rest[n] = "roots") => StageAhead(s, {"roots"})
  BY <1>6, <1>7, <1>8
<1> QED BY <1>9, Zenon DEF s, h

\* runMinistackPing.
LEMMA PingOrder == StageOrder(Ping, "ping") /\ StageAhead(Ping, {"open"})
<1> DEFINE s == Ping
<1>1. /\ s \in Seq(StageNames) /\ Len(s) = 6
      /\ s[1] = "locate" /\ s[2] = "open" /\ s[3] = "static" /\ s[4] = "start" /\ s[5] = "ping" /\ s[6] = "ok"
  BY DEF Ping, StageNames
<1> HIDE DEF s
<1>2. DOMAIN s = 1 .. 6 /\ \A n \in DOMAIN s : n \in {1, 2, 3, 4, 5, 6}
  BY <1>1
<1>3. /\ SomeAfter(s, 2, "static") /\ SomeAfter(s, 2, "ping") /\ SomeAfter(s, 3, "ping")
      /\ NoneAfter(s, 2, {"open"}) /\ NoneAfter(s, 3, {"open", "static"}) /\ NoneAfter(s, 5, {"open", "static"})
      /\ NoneAfter(s, 5, {"ping"})
  BY <1>1, <1>2 DEF SomeAfter, NoneAfter
<1>4. StageOrder(s, "ping")
  BY <1>1, <1>2, <1>3 DEF StageOrder, Leased, OverTls
<1>5. StageAhead(s, {"open"})
  BY <1>1, <1>2 DEF StageAhead
<1> QED BY <1>4, <1>5 DEF s

\* runDHCP4Acquire.
LEMMA Dhcp4Order == StageOrder(Dhcp4Acquire, "dhcp4") /\ StageAhead(Dhcp4Acquire, {"open"})
<1> DEFINE rest == <<"lease", "address", "gateway", "gwping">>
           s == BringUp \o rest
<1>1. BringUp \in Seq(StageNames) /\ Len(BringUp) = 3
      /\ BringUp[1] = "locate" /\ BringUp[2] = "open" /\ BringUp[3] = "start"
  BY DEF BringUp, StageNames
<1>2. rest \in Seq(StageNames) /\ Len(rest) = 4
      /\ rest[1] = "lease" /\ rest[2] = "address" /\ rest[3] = "gateway" /\ rest[4] = "gwping"
  BY DEF StageNames
<1> HIDE DEF rest
<1>3. /\ s \in Seq(StageNames) /\ Len(s) = Len(BringUp) + Len(rest)
      /\ \A n \in 1 .. Len(BringUp) : s[n] = BringUp[n]
      /\ \A n \in 1 .. Len(rest) : s[Len(BringUp) + n] = rest[n]
  BY <1>1, <1>2, JoinStages, Zenon
<1> HIDE DEF s
<1>4. /\ s \in Seq(StageNames) /\ Len(s) = 7
      /\ s[1] = "locate" /\ s[2] = "open" /\ s[3] = "start" /\ s[4] = "lease" /\ s[5] = "address"
      /\ s[6] = "gateway" /\ s[7] = "gwping"
  BY <1>1, <1>2, <1>3
<1>5. DOMAIN s = 1 .. 7 /\ \A n \in DOMAIN s : n \in {1, 2, 3, 4, 5, 6, 7}
  BY <1>4
<1>6. /\ SomeAfter(s, 2, "lease") /\ SomeAfter(s, 2, "address") /\ SomeAfter(s, 4, "address")
      /\ NoneAfter(s, 2, {"open"}) /\ NoneAfter(s, 4, {"open", "lease"})
      /\ NoneAfter(s, 5, {"open", "lease", "address"}) /\ NoneAfter(s, 7, {"open", "lease", "address"})
  BY <1>4, <1>5 DEF SomeAfter, NoneAfter
<1>7. "dhcp4" \in Leased
  BY DEF Leased
<1>8. StageOrder(s, "dhcp4")
  BY <1>4, <1>5, <1>6, <1>7 DEF StageOrder
<1>9. StageAhead(s, {"open"})
  BY <1>4, <1>5 DEF StageAhead
<1> QED BY <1>8, <1>9, Zenon DEF s, rest, Dhcp4Acquire

\* runCosignSelfTest.
LEMMA SelfTestOrder == StageOrder(CosignSelfTest, "selftest")
<1> DEFINE a == <<"sign", "verify", "tampered">>
           r == <<"lease", "roots">>
           e == BringUp \o r
           o == <<"ok">>
           b == a \o e
           s == b \o o
<1>1. /\ a \in Seq(StageNames) /\ Len(a) = 3 /\ a[1] = "sign" /\ a[2] = "verify" /\ a[3] = "tampered"
      /\ r \in Seq(StageNames) /\ Len(r) = 2 /\ r[1] = "lease" /\ r[2] = "roots"
      /\ o \in Seq(StageNames) /\ Len(o) = 1 /\ o[1] = "ok"
  BY DEF StageNames
<1>2. BringUp \in Seq(StageNames) /\ Len(BringUp) = 3
      /\ BringUp[1] = "locate" /\ BringUp[2] = "open" /\ BringUp[3] = "start"
  BY DEF BringUp, StageNames
<1> HIDE DEF a, r, o
<1>3. /\ e \in Seq(StageNames) /\ Len(e) = Len(BringUp) + Len(r)
      /\ \A n \in 1 .. Len(BringUp) : e[n] = BringUp[n]
      /\ \A n \in 1 .. Len(r) : e[Len(BringUp) + n] = r[n]
  BY <1>1, <1>2, JoinStages, Zenon
<1> HIDE DEF e
<1>4. /\ b \in Seq(StageNames) /\ Len(b) = Len(a) + Len(e)
      /\ \A n \in 1 .. Len(a) : b[n] = a[n]
      /\ \A n \in 1 .. Len(e) : b[Len(a) + n] = e[n]
  BY <1>1, <1>3, JoinStages, Zenon
<1> HIDE DEF b
<1>5. /\ s \in Seq(StageNames) /\ Len(s) = Len(b) + Len(o)
      /\ \A n \in 1 .. Len(b) : s[n] = b[n]
      /\ \A n \in 1 .. Len(o) : s[Len(b) + n] = o[n]
  BY <1>1, <1>4, JoinStages, Zenon
<1> HIDE DEF s
<1>6. /\ b \in Seq(StageNames) /\ Len(b) = 8
      /\ b[1] = "sign" /\ b[2] = "verify" /\ b[3] = "tampered" /\ b[4] = "locate" /\ b[5] = "open"
      /\ b[6] = "start" /\ b[7] = "lease" /\ b[8] = "roots"
  BY <1>1, <1>2, <1>3, <1>4
<1>7. /\ s \in Seq(StageNames) /\ Len(s) = 9
      /\ s[1] = "sign" /\ s[2] = "verify" /\ s[3] = "tampered" /\ s[4] = "locate" /\ s[5] = "open"
      /\ s[6] = "start" /\ s[7] = "lease" /\ s[8] = "roots" /\ s[9] = "ok"
  BY <1>1, <1>5, <1>6
<1>8. DOMAIN s = 1 .. 9 /\ \A n \in DOMAIN s : n \in {1, 2, 3, 4, 5, 6, 7, 8, 9}
  BY <1>7
<1>9. NoneAfter(s, 5, {"open"}) /\ NoneAfter(s, 7, {"open", "lease"})
  BY <1>7, <1>8 DEF NoneAfter
<1>10. "selftest" \notin Leased
  BY DEF Leased, OverTls
<1>11. StageOrder(s, "selftest")
  BY <1>7, <1>8, <1>9, <1>10 DEF StageOrder
<1> QED BY <1>11, Zenon DEF s, b, e, a, r, o, CosignSelfTest, Exercise

\* Every probe begins with its stages in order (StagesOf), device and trust roots ahead.
LEMMA StartOrder ==
  ASSUME NEW p \in ProbeSet
  PROVE  /\ StageOrder(StagesOf(p), p)
         /\ p \in Leased \cup {"ping"} => StageAhead(StagesOf(p), {"open"})
         /\ p \in OverTls => StageAhead(StagesOf(p), {"roots"})
<1>1. CASE p = "ping"
  BY <1>1, PingOrder DEF OverTls, StagesOf
<1>2. CASE p = "dhcp4"
  BY <1>2, Dhcp4Order DEF OverTls, StagesOf
<1>3. CASE p = "http"
  <2> DEFINE rest == <<"resolve", "preping", "get", "ok">>
  <2>1. /\ rest \in Seq(StageNames) /\ Len(rest) = 4
        /\ rest[1] = "resolve" /\ rest[2] = "preping" /\ rest[3] = "get" /\ rest[4] = "ok"
    BY DEF StageNames
  <2> HIDE DEF rest
  <2>2. \A n \in 1 .. Len(rest) : rest[n] \notin {"open", "lease", "address", "ping", "static", "gwping"} /\ (rest[n] = "ok" => n = Len(rest))
    BY <2>1
  <2>3. p \in Leased /\ p # "dhcp4" /\ p \notin OverTls
    BY <1>3 DEF Leased, OverTls
  <2>4. StagesOf(p) = BringUp \o Configure \o rest
    BY <1>3 DEF StagesOf, HttpGet, rest
  <2> QED BY <2>1, <2>2, <2>3, <2>4, LeasedOrder, Zenon
<1>4. CASE p = "https"
  <2> DEFINE rest == <<"roots", "resolve", "preping", "get", "ok">>
  <2>1. /\ rest \in Seq(StageNames) /\ Len(rest) = 5
        /\ rest[1] = "roots" /\ rest[2] = "resolve" /\ rest[3] = "preping" /\ rest[4] = "get" /\ rest[5] = "ok"
    BY DEF StageNames
  <2> HIDE DEF rest
  <2>2. \A n \in 1 .. Len(rest) : rest[n] \notin {"open", "lease", "address", "ping", "static", "gwping"} /\ (rest[n] = "ok" => n = Len(rest))
    BY <2>1
  <2>3. p \in Leased /\ p # "dhcp4" /\ \E n \in 1 .. Len(rest) : rest[n] = "roots"
    BY <1>4, <2>1 DEF Leased, OverTls
  <2>4. StagesOf(p) = BringUp \o Configure \o rest
    BY <1>4 DEF StagesOf, HttpsGet, rest
  <2> QED BY <2>1, <2>2, <2>3, <2>4, LeasedOrder, Zenon
<1>5. CASE p = "fetch"
  <2> DEFINE rest == <<"roots", "preping", "artifact", "ok">>
  <2>1. /\ rest \in Seq(StageNames) /\ Len(rest) = 4
        /\ rest[1] = "roots" /\ rest[2] = "preping" /\ rest[3] = "artifact" /\ rest[4] = "ok"
    BY DEF StageNames
  <2> HIDE DEF rest
  <2>2. \A n \in 1 .. Len(rest) : rest[n] \notin {"open", "lease", "address", "ping", "static", "gwping"} /\ (rest[n] = "ok" => n = Len(rest))
    BY <2>1
  <2>3. p \in Leased /\ p # "dhcp4" /\ \E n \in 1 .. Len(rest) : rest[n] = "roots"
    BY <1>5, <2>1 DEF Leased, OverTls
  <2>4. StagesOf(p) = BringUp \o Configure \o rest
    BY <1>5 DEF StagesOf, OciFetch, rest
  <2> QED BY <2>1, <2>2, <2>3, <2>4, LeasedOrder, Zenon
<1>6. CASE p = "stream"
  <2> DEFINE rest == <<"roots", "preping", "authenticate", "manifest", "layers", "blob", "ok">>
  <2>1. /\ rest \in Seq(StageNames) /\ Len(rest) = 7
        /\ rest[1] = "roots" /\ rest[2] = "preping" /\ rest[3] = "authenticate" /\ rest[4] = "manifest"
        /\ rest[5] = "layers" /\ rest[6] = "blob" /\ rest[7] = "ok"
    BY DEF StageNames
  <2> HIDE DEF rest
  <2>2. \A n \in 1 .. Len(rest) : rest[n] \notin {"open", "lease", "address", "ping", "static", "gwping"} /\ (rest[n] = "ok" => n = Len(rest))
    BY <2>1
  <2>3. p \in Leased /\ p # "dhcp4" /\ \E n \in 1 .. Len(rest) : rest[n] = "roots"
    BY <1>6, <2>1 DEF Leased, OverTls
  <2>4. StagesOf(p) = BringUp \o Configure \o rest
    BY <1>6 DEF StagesOf, OciStreamFetch, rest
  <2> QED BY <2>1, <2>2, <2>3, <2>4, LeasedOrder, Zenon
<1>7. CASE p = "cosign"
  <2> DEFINE rest == <<"roots", "authenticate", "manifest", "verify", "ok">>
  <2>1. /\ rest \in Seq(StageNames) /\ Len(rest) = 5
        /\ rest[1] = "roots" /\ rest[2] = "authenticate" /\ rest[3] = "manifest" /\ rest[4] = "verify" /\ rest[5] = "ok"
    BY DEF StageNames
  <2> HIDE DEF rest
  <2>2. \A n \in 1 .. Len(rest) : rest[n] \notin {"open", "lease", "address", "ping", "static", "gwping"} /\ (rest[n] = "ok" => n = Len(rest))
    BY <2>1
  <2>3. p \in Leased /\ p # "dhcp4" /\ \E n \in 1 .. Len(rest) : rest[n] = "roots"
    BY <1>7, <2>1 DEF Leased, OverTls
  <2>4. StagesOf(p) = BringUp \o Configure \o rest
    BY <1>7 DEF StagesOf, CosignRealImage, rest
  <2> QED BY <2>1, <2>2, <2>3, <2>4, LeasedOrder, Zenon
<1>8. CASE p = "oras"
  <2> DEFINE rest == <<"roots", "preping", "repository", "resolve-ref", "manifest", "ok">>
  <2>1. /\ rest \in Seq(StageNames) /\ Len(rest) = 6
        /\ rest[1] = "roots" /\ rest[2] = "preping" /\ rest[3] = "repository"
        /\ rest[4] = "resolve-ref" /\ rest[5] = "manifest" /\ rest[6] = "ok"
    BY DEF StageNames
  <2> HIDE DEF rest
  <2>2. \A n \in 1 .. Len(rest) : rest[n] \notin {"open", "lease", "address", "ping", "static", "gwping"} /\ (rest[n] = "ok" => n = Len(rest))
    BY <2>1
  <2>3. p \in Leased /\ p # "dhcp4" /\ \E n \in 1 .. Len(rest) : rest[n] = "roots"
    BY <1>8, <2>1 DEF Leased, OverTls
  <2>4. StagesOf(p) = BringUp \o Configure \o rest
    BY <1>8 DEF StagesOf, OrasFetch, rest
  <2> QED BY <2>1, <2>2, <2>3, <2>4, LeasedOrder, Zenon
<1>9. CASE p = "selftest"
  BY <1>9, SelfTestOrder DEF Leased, OverTls, StagesOf
<1>10. p \in {"ping", "dhcp4", "http", "https", "fetch", "stream", "selftest", "cosign", "oras"}
  BY DEF ProbeSet, Dispatch
<1> QED BY <1>1, <1>2, <1>3, <1>4, <1>5, <1>6, <1>7, <1>8, <1>9, <1>10

\* A probe that has its device ahead has ahead what follows it.
LEMMA OpenAhead ==
  ASSUME NEW s, NEW p, StageOrder(s, p), StageAhead(s, {"open"})
  PROVE  /\ p \in Leased => StageAhead(s, {"lease"}) /\ StageAhead(s, {"address"})
         /\ p = "ping" => StageAhead(s, {"static"}) /\ StageAhead(s, {"ping"})
<1>1. PICK n \in DOMAIN s : s[n] = "open"
  BY DEF StageAhead
<1>2. ASSUME NEW x, SomeAfter(s, n, x) PROVE StageAhead(s, {x})
  BY <1>2, Zenon DEF SomeAfter, StageAhead
<1> QED BY <1>1, <1>2, Zenon DEF StageOrder

\* No stages are left.
LEMMA NoStages == (\A p : StageOrder(<<>>, p)) /\ (\A A : ~StageAhead(<<>>, A))
<1>1. <<>> \in Seq(StageNames) /\ DOMAIN <<>> = {}
  OBVIOUS
<1> QED BY <1>1 DEF StageOrder, StageAhead

\* The self test is left with its last line.
LEMMA LastLine == \A p : StageOrder(<<"ok">>, p)
<1>1. <<"ok">> \in Seq(StageNames) /\ DOMAIN <<"ok">> = {1} /\ <<"ok">>[1] = "ok" /\ Len(<<"ok">>) = 1
  BY DEF StageNames
<1> QED BY <1>1 DEF StageOrder

\* A stage that fails ends the probe, or the network exercise of the self test, and
\* leaves no verdict to earn.
LEMMA FailInv ==
  ASSUME NetInv, stages # <<>>, FailProbe, asked' = Nobody, ipID' \in Nat,
         UNCHANGED <<image, probe, opens, local, lease, roots, echoed, wire, granted, pinged>>
  PROVE  NetInv'
<1>1. /\ probe \in ProbeSet /\ outcome[probe] = "none" /\ outcome \in [ProbeSet -> {"none", "ok", "fail", "quiet"}]
      /\ image \in Seq(ProbeSet)
  BY DEF NetInv, ImageInv
<1>2. \A n \in DOMAIN image : image[n] \in ProbeSet /\ image[n] # probe /\ outcome[image[n]] = "none"
  BY <1>1, DispatchOrder DEF NetInv, ImageInv
<1>3. \/ stages' = <<"ok">> /\ outcome' = outcome /\ probe = "selftest"
      \/ /\ stages' = <<>>
         /\ \E v \in {"quiet", "fail"} : outcome' = [outcome EXCEPT ![probe] = v]
  BY Zenon DEF FailProbe
<1>4. /\ outcome' \in [ProbeSet -> {"none", "ok", "fail", "quiet"}]
      /\ \A p \in ProbeSet : outcome'[p] = outcome[p] \/ (p = probe /\ outcome'[p] \in {"quiet", "fail"})
  BY <1>1, <1>3
<1>5. ImageInv'
  <2>1. StageOrder(stages', probe')
    BY <1>3, NoStages, LastLine, Zenon
  <2>2. \A n \in DOMAIN image : outcome'[image[n]] = "none"
    BY <1>2, <1>4
  <2>3. stages' # <<>> => outcome'[probe] = "none"
    BY <1>1, <1>3
  <2> QED BY <1>1, <1>4, <2>1, <2>2, <2>3 DEF NetInv, ImageInv
<1>6. WireInv'
  BY DEF NetInv, WireInv
<1>7. StageInv'
  BY <1>3 DEF StageInv, Leased, OverTls
<1>8. EchoInv'
  <2>1. probe \in {"ping", "dhcp4"} => ~StageAhead(stages', {"open"})
    BY <1>3, NoStages, Zenon
  <2> QED BY <2>1 DEF NetInv, EchoInv
<1>9. VerdictEarned'
  <2>1. outcome["ping"]' = "ok" => outcome["ping"] = "ok"
    BY <1>4 DEF ProbeSet, Dispatch
  <2>2. \A p \in OverTls : outcome[p]' = "ok" => outcome[p] = "ok"
    BY <1>4 DEF ProbeSet, Dispatch, OverTls
  <2>3. asked'.kind = "none"
    BY DEF Nobody
  <2> QED BY <2>1, <2>2, <2>3 DEF NetInv, VerdictEarned
<1> QED BY <1>5, <1>6, <1>7, <1>8, <1>9 DEF NetInv

\* A stage is done that neither configures the Stack nor pings for the verdict.
LEMMA DoneInv ==
  ASSUME NetInv, stages # <<>>, Done, asked' = Nobody, asked = Nobody \/ probe \in Leased \ {"dhcp4"},
         Head(stages) \notin {"open", "lease", "address", "static", "ping", "ok"},
         ipID' \in Nat, probe \in {"ping", "dhcp4"} => ipID' = ipID,
         roots => roots', Head(stages) = "roots" /\ probe \in OverTls => roots',
         UNCHANGED <<image, probe, opens, local, lease, echoed, wire, granted, pinged>>
  PROVE  NetInv'
<1>1. probe \in ProbeSet /\ outcome[probe] = "none" /\ StageOrder(stages, probe) /\ ipID \in Nat
  BY DEF NetInv, ImageInv, WireInv
<1>2. StageOrder(stages', probe) /\ outcome' = outcome
  BY <1>1, OrderTail, Zenon DEF Done
<1>3. /\ \A A : StageAhead(stages', A) => StageAhead(stages, A)
      /\ \A A : StageAhead(stages, A) => Head(stages) \in A \/ StageAhead(stages', A)
  BY <1>1, AheadTail, Zenon DEF Done
<1>4. \A x \in {"open", "lease", "address", "static", "ping"} : StageAhead(stages', {x}) <=> StageAhead(stages, {x})
  BY <1>3
<1>5. probe \in OverTls => StageAhead(stages', {"roots"}) \/ roots' \/ ~StageAhead(stages, {"roots"})
  BY <1>3
<1>6. ImageInv'
  BY <1>1, <1>2 DEF NetInv, ImageInv
<1>7. WireInv'
  BY DEF NetInv, WireInv
<1>8. StageInv'
  <2>1. asked'.kind = "none" /\ (asked = Nobody => asked.kind = "none")
    BY DEF Nobody
  <2>2. "ping" \notin Leased
    BY DEF Leased, OverTls
  <2> QED BY <1>1, <1>3, <1>4, <1>5, <2>1, <2>2 DEF NetInv, StageInv
<1>9. EchoInv'
  BY <1>3, <1>4 DEF NetInv, EchoInv
<1>10. VerdictEarned'
  <2>1. asked'.kind = "none"
    BY DEF Nobody
  <2> QED BY <1>2, <2>1 DEF NetInv, VerdictEarned
<1> QED BY <1>6, <1>7, <1>8, <1>9, <1>10 DEF NetInv

\* What a probe that runs has, as far as the verdict and the device go.
LEMMA RunningInv ==
  ASSUME NetInv, stages # <<>>
  PROVE  /\ probe \in ProbeSet /\ outcome[probe] = "none" /\ StageOrder(stages, probe)
         /\ opens \in Nat /\ ipID \in Nat
         /\ \A A : StageAhead(Tail(stages), A) => StageAhead(stages, A)
         /\ \A A : StageAhead(stages, A) => Head(stages) \in A \/ StageAhead(Tail(stages), A)
         /\ StageOrder(Tail(stages), probe)
         /\ \A A : Head(stages) \in A => StageAhead(stages, A)
<1>1. /\ probe \in ProbeSet /\ outcome[probe] = "none" /\ StageOrder(stages, probe)
      /\ opens \in Nat /\ ipID \in Nat
  BY DEF NetInv, ImageInv, WireInv
<1>2. 1 \in DOMAIN stages /\ Head(stages) = stages[1]
  BY <1>1 DEF StageOrder
<1>3. \A A : Head(stages) \in A => StageAhead(stages, A)
  BY <1>2 DEF StageAhead
<1> QED BY <1>1, <1>3, AheadTail, OrderTail, Zenon

\* OpenVirtioNet: a fresh Stack; the answers on the wire were asked of an earlier one.
LEMMA OpenInv == ASSUME NetInv, OpenVirtioNet PROVE NetInv'
<1>1. stages # <<>> /\ Head(stages) = "open" /\ asked = Nobody /\ asked' = Nobody
  BY DEF OpenVirtioNet, At
<1>2. UNCHANGED <<image, probe, lease, roots, echoed, wire, granted, pinged>>
  BY DEF OpenVirtioNet
<1>3. CASE FailProbe /\ UNCHANGED <<opens, local, gateway, ipID>>
  <2>1. ipID' \in Nat
    BY <1>3 DEF NetInv, WireInv
  <2> QED BY <1>1, <1>2, <1>3, <2>1, FailInv
<1>4. CASE Done /\ opens' = opens + 1 /\ local' = "none" /\ gateway' = FALSE /\ ipID' = 0
  <2>1. /\ probe \in ProbeSet /\ outcome[probe] = "none" /\ StageOrder(stages, probe) /\ opens \in Nat
        /\ stages' = Tail(stages) /\ outcome' = outcome /\ StageOrder(stages', probe)
    BY <1>1, <1>4, RunningInv, Zenon DEF Done
  <2>0. StageAhead(stages, {"open"}) /\ StageAhead(stages, {"open", "address"})
    BY <1>1, RunningInv
  <2>2. /\ ~StageAhead(stages', {"open"}) /\ StageAhead(stages, {"open"}) /\ StageAhead(stages, {"open", "address"})
        /\ probe \in Leased => StageAhead(stages', {"lease"}) /\ StageAhead(stages', {"address"})
        /\ probe = "ping" => StageAhead(stages', {"static"}) /\ StageAhead(stages', {"ping"})
    BY <1>1, <2>1, <2>0, OrderHead
  <2>3. StageAhead(stages, {"roots"}) => StageAhead(stages', {"roots"})
    BY <1>1, <2>1, RunningInv
  <2>4. asked.kind = "none" /\ "dhcp4" \in Leased /\ ipID' <= echoed'
    BY <1>1, <1>2, <1>4 DEF Nobody, Leased, NetInv, WireInv
  <2>5. ImageInv'
    BY <1>2, <2>1 DEF NetInv, ImageInv
  <2>6. WireInv'
    BY <1>1, <1>2, <1>4, <2>1 DEF NetInv, WireInv
  <2>7. StageInv'
    BY <1>1, <1>2, <1>4, <2>2, <2>3, <2>4 DEF NetInv, StageInv
  <2>8. EchoInv'
    BY <1>1, <1>2, <2>2 DEF NetInv, EchoInv
  <2>9. VerdictEarned'
    <3>1. probe = "dhcp4" => pinged' = 0
      BY <1>1, <1>2, <2>2 DEF NetInv, StageInv
    <3>2. outcome' = outcome /\ outcome[probe] = "none" /\ asked'.kind = "none" /\ probe' = probe
      BY <1>1, <1>2, <2>1, <2>4
    <3> QED BY <3>1, <3>2 DEF VerdictEarned
  <2> QED BY <2>5, <2>6, <2>7, <2>8, <2>9 DEF NetInv
<1> QED BY <1>3, <1>4, Zenon DEF OpenVirtioNet

\* The calls modelled elsewhere, the trust roots, the check for a DNS server, the
\* gateway, and the ping that is left out.
LEMMA CallInv ==
  ASSUME NetInv, Call \/ NewRootCAs \/ CheckDns \/ SkipPing \/ Resolve
  PROVE  NetInv'
<1>1. /\ stages # <<>> /\ asked = Nobody /\ asked' = Nobody
      /\ Head(stages) \notin {"open", "lease", "address", "static", "ping", "ok"}
      /\ Head(stages) = "roots" => NewRootCAs
      /\ UNCHANGED <<image, probe, opens, local, lease, echoed, wire, granted, pinged>>
  BY DEF Call, NewRootCAs, CheckDns, SkipPing, Resolve, At
<1>2. Done \/ (FailProbe /\ roots' = roots)
  BY DEF Call, NewRootCAs, CheckDns, SkipPing, Resolve
<1>3. ipID \in Nat /\ (ipID' = ipID \/ (Head(stages) = "resolve" /\ ipID' = NextID(1)))
  BY DEF Call, NewRootCAs, CheckDns, SkipPing, Resolve, NetInv, WireInv, At
<1>4. ipID' \in Nat
  BY <1>3 DEF NextID
<1>5. probe \in {"ping", "dhcp4"} => Head(stages) \notin {"roots", "resolve"}
  BY <1>1, OrderHead, RunningInv, Zenon
<1>6. roots' = roots \/ (roots' = TRUE /\ NewRootCAs)
  BY DEF Call, NewRootCAs, CheckDns, SkipPing, Resolve
<1>7. Done /\ Head(stages) = "roots" /\ probe \in OverTls => roots'
  <2> SUFFICES ASSUME Done, Head(stages) = "roots", probe \in OverTls, FailProbe PROVE FALSE
    BY <1>1 DEF NewRootCAs
  <2>1. outcome' = outcome /\ outcome[probe] = "none" /\ probe \in ProbeSet
    BY <1>1, RunningInv, Zenon DEF Done
  <2>2. outcome \in [ProbeSet -> {"none", "ok", "fail", "quiet"}]
    BY DEF NetInv, ImageInv
  <2> QED BY <2>1, <2>2 DEF FailProbe, OverTls
<1>8. CASE Done
  BY <1>1, <1>3, <1>4, <1>5, <1>6, <1>7, <1>8, DoneInv
<1>9. CASE FailProbe /\ roots' = roots
  BY <1>1, <1>4, <1>9, FailInv
<1> QED BY <1>2, <1>8, <1>9

\* SetIPv4Address, SetDefaultGateway: the Stack speaks with the address of the lease.
LEMMA SetAddressInv == ASSUME NetInv, SetAddress PROVE NetInv'
<1>1. /\ stages # <<>> /\ asked = Nobody /\ asked' = Nobody /\ asked.kind = "none"
      /\ UNCHANGED <<image, probe, opens, lease, roots, ipID, echoed, wire, granted, pinged>>
  BY DEF SetAddress, At, Nobody
<1>2. /\ probe \in ProbeSet /\ outcome[probe] = "none" /\ StageOrder(stages, probe) /\ ipID \in Nat
      /\ \A A : StageAhead(Tail(stages), A) => StageAhead(stages, A)
      /\ \A A : StageAhead(stages, A) => Head(stages) \in A \/ StageAhead(Tail(stages), A)
      /\ StageOrder(Tail(stages), probe)
      /\ \A A : Head(stages) \in A => StageAhead(stages, A)
  BY <1>1, RunningInv
<1>3. ASSUME Done PROVE ImageInv' /\ WireInv' /\ EchoInv'
  <2>1. stages' = Tail(stages) /\ outcome' = outcome
    BY <1>3 DEF Done
  <2>2. ImageInv'
    BY <1>1, <1>2, <2>1 DEF NetInv, ImageInv
  <2>3. WireInv'
    BY <1>1 DEF NetInv, WireInv
  <2>4. EchoInv'
    BY <1>1, <1>2, <2>1 DEF NetInv, EchoInv
  <2> QED BY <2>2, <2>3, <2>4
<1>4. CASE At("static") /\ Done /\ local' = "static" /\ gateway' = TRUE
  <2>1. Head(stages) = "static" /\ stages' = Tail(stages) /\ outcome' = outcome
    BY <1>4 DEF At, Done
  <2>2. probe = "ping" /\ ~StageAhead(stages', {"open", "static"}) /\ StageAhead(stages', {"ping"})
    BY <1>1, <1>2, <2>1, OrderHead
  <2>3. StageAhead(stages, {"ping"})
    BY <1>2, <2>1, <2>2
  <2>4. ~StageAhead(stages, {"open"})
    <3>1. ~StageAhead(stages', {"open"})
      BY <2>2 DEF StageAhead
    <3> QED BY <1>2, <2>1, <3>1
  <2>5. StageInv'
    BY <1>1, <1>4, <2>2, <2>3, <2>4 DEF NetInv, StageInv, Leased, OverTls
  <2>6. VerdictEarned'
    BY <1>1, <1>2, <2>1, <2>2 DEF NetInv, VerdictEarned, OverTls
  <2> QED BY <1>3, <1>4, <2>5, <2>6 DEF NetInv
<1>5. CASE At("address") /\ lease.mask /\ Done /\ local' = lease.addr /\ UNCHANGED gateway
  <2>1. Head(stages) = "address" /\ stages' = Tail(stages) /\ outcome' = outcome
    BY <1>5 DEF At, Done
  <2>2. probe \in Leased /\ ~StageAhead(stages', {"open", "lease", "address"})
    BY <1>1, <1>2, <2>1, OrderHead
  <2>3. ~StageAhead(stages', {"lease"}) /\ ~StageAhead(stages', {"address"}) /\ ~StageAhead(stages', {"open", "address"})
    BY <2>2 DEF StageAhead
  <2>4. ~StageAhead(stages, {"lease"}) /\ StageAhead(stages, {"open", "address"})
        /\ (StageAhead(stages, {"roots"}) => StageAhead(stages', {"roots"}))
    BY <1>2, <2>1, <2>3
  <2>5. lease.addr \in granted /\ (probe = "dhcp4" => pinged = 0)
    BY <1>1, <2>2, <2>4 DEF NetInv, StageInv
  <2>6. "ping" \notin Leased
    BY DEF Leased, OverTls
  <2>7. StageInv'
    BY <1>1, <1>5, <2>2, <2>3, <2>4, <2>5, <2>6 DEF NetInv, StageInv
  <2>8. VerdictEarned'
    BY <1>1, <1>2, <2>1, <2>2, <2>5, <2>6 DEF NetInv, VerdictEarned
  <2> QED BY <1>3, <1>5, <2>7, <2>8 DEF NetInv
<1>6. CASE At("address") /\ ~lease.mask /\ FailProbe /\ UNCHANGED <<local, gateway>>
  BY <1>1, <1>2, <1>6, FailInv
<1>7. CASE At("gateway") /\ Done /\ gateway' = lease.gw /\ UNCHANGED local
  <2>1. Head(stages) = "gateway" /\ ipID' = ipID
    BY <1>1, <1>2, <1>7 DEF At
  <2> QED BY <1>1, <1>2, <1>7, <2>1, DoneInv
<1> QED BY <1>4, <1>5, <1>6, <1>7, Zenon DEF SetAddress

\* The probe's OK line: all its stages are behind it.
LEMMA SucceedInv == ASSUME NetInv, Succeed PROVE NetInv'
<1>1. /\ stages # <<>> /\ Head(stages) = "ok" /\ asked = Nobody /\ asked' = Nobody /\ asked.kind = "none"
      /\ stages' = <<>> /\ outcome' = [outcome EXCEPT ![probe] = "ok"]
      /\ UNCHANGED <<image, probe, opens, local, lease, roots, ipID, echoed, wire, granted, pinged>>
  BY DEF Succeed, At, Nobody
<1>2. /\ probe \in ProbeSet /\ outcome \in [ProbeSet -> {"none", "ok", "fail", "quiet"}]
      /\ StageOrder(stages, probe) /\ image \in Seq(ProbeSet)
  BY <1>1 DEF NetInv, ImageInv
<1>3. \A A : StageAhead(stages, A) => "ok" \in A
  BY <1>1, <1>2, OrderHead, Zenon
<1>4. ~StageAhead(stages, {"address"}) /\ ~StageAhead(stages, {"roots"}) /\ ~StageAhead(stages, {"ping"})
  BY <1>3
<1>5. /\ probe = "ping" => pinged = opens
      /\ probe \in OverTls => roots /\ local \in granted
  BY <1>1, <1>4 DEF NetInv, StageInv, Leased
<1>6. /\ outcome' \in [ProbeSet -> {"none", "ok", "fail", "quiet"}]
      /\ \A p \in ProbeSet : p # probe => outcome'[p] = outcome[p]
  BY <1>1, <1>2
<1>7. ImageInv'
  <2>1. \A n \in DOMAIN image : image[n] \in ProbeSet /\ image[n] # probe /\ outcome[image[n]] = "none"
    BY <1>1, <1>2, DispatchOrder DEF NetInv, ImageInv
  <2>2. \A n \in DOMAIN image : outcome'[image[n]] = "none"
    BY <1>6, <2>1
  <2> QED BY <1>1, <1>2, <1>6, <2>2, NoStages DEF NetInv, ImageInv
<1>8. WireInv' /\ StageInv'
  BY <1>1 DEF NetInv, WireInv, StageInv
<1>9. EchoInv'
  BY <1>1, NoStages DEF NetInv, EchoInv
<1>10. VerdictEarned'
  BY <1>1, <1>5 DEF NetInv, VerdictEarned
<1> QED BY <1>7, <1>8, <1>9, <1>10 DEF NetInv

\* DHCP4Acquire asks: the server notes what it grants before the answer travels.
LEMMA AskLeaseInv == ASSUME NetInv, AskLease PROVE NetInv'
<1>1. /\ stages # <<>> /\ Head(stages) = "lease" /\ asked = Nobody /\ asked' = [kind |-> "dhcp", id |-> XidFromMAC]
      /\ ipID' = NextID(2) /\ asked.kind = "none"
      /\ UNCHANGED <<image, probe, stages, opens, local, lease, roots, echoed, pinged, outcome>>
  BY DEF AskLease, At, Nobody
<1>2. asked'.kind = "dhcp" /\ asked'.id = XidFromMAC /\ asked' # Nobody
  BY <1>1 DEF Nobody
<1>3. probe # "ping" /\ probe \in ProbeSet /\ outcome[probe] = "none" /\ ipID \in Nat /\ opens \in Nat
  BY <1>1, RunningInv, OrderHead
<1>4. /\ granted \subseteq granted' /\ "static" \notin granted'
      /\ \A f \in wire' : f \in wire \/ (f.kind = "dhcp" /\ f.lease.addr \in granted')
  <2>1. "static" \notin granted
    BY DEF NetInv, WireInv
  <2>2. ASSUME NEW l \in Leases, wire' = wire \cup {Answer("dhcp", XidFromMAC, l)}, granted' = granted \cup {l.addr}
        PROVE  /\ granted \subseteq granted' /\ "static" \notin granted'
               /\ \A f \in wire' : f \in wire \/ (f.kind = "dhcp" /\ f.lease.addr \in granted')
    <3>1. Answer("dhcp", XidFromMAC, l).kind = "dhcp" /\ Answer("dhcp", XidFromMAC, l).lease = l
      BY DEF Answer
    <3>2. l.addr # "static"
      BY LeaseAssumption
    <3> QED BY <2>1, <2>2, <3>1, <3>2
  <2> QED BY <2>1, <2>2 DEF AskLease
<1>5. ImageInv'
  BY <1>1 DEF NetInv, ImageInv
<1>6. WireInv'
  <2>1. \A f \in wire' :
          f.kind \in {"dhcp", "echo"} /\ (f.kind = "dhcp" => f.lease.addr \in granted') /\ (f.kind = "echo" => f.id \in Nat)
    BY <1>4 DEF NetInv, WireInv
  <2>2. ipID' \in Nat /\ echoed' \in Nat
    BY <1>1, <1>3 DEF NextID, NetInv, WireInv
  <2>3. asked' = [kind |-> asked'.kind, id |-> asked'.id]
    BY <1>1, <1>2
  <2> QED BY <1>1, <1>2, <1>3, <1>4, <2>1, <2>2, <2>3 DEF WireInv
<1>7. StageInv'
  <2>1. ~StageAhead(stages, {"open"}) /\ StageAhead(stages, {"lease"})
    <3>1. ~StageAhead(Tail(stages), {"open"})
      BY <1>1, RunningInv, OrderHead DEF StageAhead
    <3> QED BY <1>1, <3>1, RunningInv
  <2>2. probe = "dhcp4" => ipID <= echoed
    BY <1>1, <2>1 DEF NetInv, StageInv
  <2>3. probe = "dhcp4" => echoed' >= 2 \/ ipID' \in 2 .. 2 + echoed'
    BY <1>1, <1>3, <2>2 DEF NextID, NetInv, WireInv
  <2> QED BY <1>1, <1>2, <1>3, <1>4, <2>3, Zenon DEF NetInv, StageInv
<1>8. EchoInv'
  <2>1. probe # "none"
    BY <1>3 DEF ProbeSet, Dispatch
  <2>2. probe = "dhcp4" => \A f \in wire' :
          f.kind = "echo" => f.id <= echoed \/ (f.to = opens /\ ~StageAhead(stages, {"open"}))
    BY <1>4 DEF NetInv, EchoInv
  <2> QED BY <1>1, <1>3, <2>1, <2>2 DEF EchoInv
<1>9. VerdictEarned'
  BY <1>1, <1>2, <1>3, <1>4 DEF NetInv, VerdictEarned
<1> QED BY <1>5, <1>6, <1>7, <1>8, <1>9 DEF NetInv

\* PingOnce: the first of a Stack that has sent nothing but echo replies has a number no
\* higher than theirs; dhcp4's Stack has sent two other datagrams by then.
LEMMA PingOnceInv == ASSUME NetInv, PingOnce PROVE NetInv'
<1>1. /\ stages # <<>> /\ Head(stages) \in {"ping", "preping", "gwping"} /\ asked = Nobody /\ asked.kind = "none"
      /\ asked' = [kind |-> "echo", id |-> ipID] /\ ipID' = NextID(2)
      /\ wire' = wire \cup {Answer("echo", ipID, NoLease)}
      /\ UNCHANGED <<image, probe, stages, opens, local, lease, roots, echoed, granted, pinged, outcome>>
  BY DEF PingOnce, At, Nobody, PingSeq
<1>2. asked'.kind = "echo" /\ asked'.id = ipID /\ asked' # Nobody
  BY <1>1 DEF Nobody
<1>3. /\ probe \in ProbeSet /\ outcome[probe] = "none" /\ ipID \in Nat /\ opens \in Nat /\ StageOrder(stages, probe)
      /\ \A A : StageAhead(stages, A) => Head(stages) \in A \/ StageAhead(Tail(stages), A)
      /\ \A A : Head(stages) \in A => StageAhead(stages, A)
  BY <1>1, RunningInv
<1>4. \A f \in wire' : f \in wire \/ (f.kind = "echo" /\ f.id = ipID /\ f.to = opens)
  BY <1>1 DEF Answer
<1>5. ASSUME Head(stages) = "ping"
      PROVE  probe = "ping" /\ ~StageAhead(stages, {"open"}) /\ ipID <= echoed /\ local = "static"
  <2>1. probe = "ping" /\ ~StageAhead(Tail(stages), {"open", "static"})
    BY <1>1, <1>3, <1>5, OrderHead
  <2>2. ~StageAhead(Tail(stages), {"open"}) /\ ~StageAhead(Tail(stages), {"static"})
    BY <2>1 DEF StageAhead
  <2>3. ~StageAhead(stages, {"open"}) /\ ~StageAhead(stages, {"static"}) /\ StageAhead(stages, {"ping"})
    BY <1>3, <1>5, <2>2
  <2> QED BY <1>1, <2>1, <2>3 DEF NetInv, StageInv
<1>6. ASSUME Head(stages) \in {"preping", "gwping"}
      PROVE  /\ probe \in Leased /\ probe # "ping" /\ ~StageAhead(stages, {"open"}) /\ local \in granted
             /\ probe = "dhcp4" => echoed >= 2 \/ ipID \in 2 .. 2 + echoed
  <2>1. probe \in Leased /\ ~StageAhead(Tail(stages), {"open", "lease", "address"})
    BY <1>1, <1>3, <1>6, OrderHead
  <2>2. ~StageAhead(Tail(stages), {"open"}) /\ ~StageAhead(Tail(stages), {"lease"}) /\ ~StageAhead(Tail(stages), {"address"})
    BY <2>1 DEF StageAhead
  <2>3. ~StageAhead(stages, {"open"}) /\ ~StageAhead(stages, {"lease"}) /\ ~StageAhead(stages, {"address"})
    BY <1>3, <1>6, <2>2
  <2>4. probe # "ping"
    BY <2>1 DEF Leased, OverTls
  <2> QED BY <1>1, <2>1, <2>3, <2>4 DEF NetInv, StageInv
<1>7. /\ local \in granted \cup {"static"} /\ (local = "static" => probe = "ping")
      /\ probe = "ping" => ipID <= echoed
      /\ probe = "dhcp4" => echoed >= 2 \/ ipID \in 2 .. 2 + echoed
      /\ ~StageAhead(stages, {"open"})
  <2>1. "static" \notin granted
    BY DEF NetInv, WireInv
  <2> QED BY <1>1, <1>5, <1>6, <2>1
<1>8. ImageInv'
  BY <1>1 DEF NetInv, ImageInv
<1>9. WireInv'
  <2>1. \A f \in wire' :
          f.kind \in {"dhcp", "echo"} /\ (f.kind = "dhcp" => f.lease.addr \in granted) /\ (f.kind = "echo" => f.id \in Nat)
    BY <1>3, <1>4 DEF NetInv, WireInv
  <2>2. ipID' \in Nat /\ echoed' \in Nat /\ "static" \notin granted
    BY <1>1, <1>3 DEF NextID, NetInv, WireInv
  <2>3. asked' = [kind |-> asked'.kind, id |-> asked'.id]
    BY <1>1, <1>2
  <2> QED BY <1>1, <1>2, <1>3, <2>1, <2>2, <2>3 DEF WireInv
<1>10. StageInv'
  <2>1. probe = "dhcp4" => echoed' >= 2 \/ asked'.id > 1
    BY <1>1, <1>2, <1>3, <1>7
  <2> QED BY <1>1, <1>2, <1>7, <2>1, Zenon DEF NetInv, StageInv
<1>11. EchoInv'
  <2>1. probe # "none"
    BY <1>3 DEF ProbeSet, Dispatch
  <2>2. probe = "ping" => \A f \in wire' : f.kind = "echo" /\ f.id <= echoed /\ f.to = opens
    BY <1>4, <1>7 DEF NetInv, EchoInv
  <2>3. probe = "dhcp4" => \A f \in wire' :
          f.kind = "echo" => f.id <= echoed \/ (f.to = opens /\ ~StageAhead(stages, {"open"}))
    BY <1>4, <1>7 DEF NetInv, EchoInv
  <2> QED BY <1>1, <1>7, <2>1, <2>2, <2>3 DEF EchoInv
<1>12. VerdictEarned'
  BY <1>1, <1>2, <1>7 DEF NetInv, VerdictEarned
<1> QED BY <1>8, <1>9, <1>10, <1>11, <1>12 DEF NetInv

\* A deadline passes: the probe fails, or goes on after a preliminary ping.
LEMMA TimeoutInv == ASSUME NetInv, Timeout PROVE NetInv'
<1>1. /\ stages # <<>> /\ asked' = Nobody
      /\ UNCHANGED <<image, probe, opens, local, lease, roots, ipID, echoed, wire, granted, pinged>>
  BY DEF Timeout, NetInv, WireInv
<1>2. ipID \in Nat /\ ipID' \in Nat /\ StageOrder(stages, probe)
  BY <1>1, RunningInv
<1>3. CASE Head(stages) = "preping" /\ Done
  <2>1. probe \in Leased \ {"dhcp4"}
    BY <1>1, <1>2, <1>3, OrderHead
  <2> QED BY <1>1, <1>2, <1>3, <2>1, DoneInv DEF Leased, OverTls
<1>4. CASE FailProbe
  BY <1>1, <1>2, <1>4, FailInv
<1> QED BY <1>3, <1>4 DEF Timeout

\* An answer reaches the device, asked for by this probe or by an earlier one.
LEMMA ArriveInv == ASSUME NetInv, NEW f \in wire, Arrive(f) PROVE NetInv'
<1>1. wire' \subseteq wire /\ UNCHANGED <<image, probe, opens, local, roots, ipID, echoed, granted>>
  BY DEF Arrive
<1>2. CASE asked # [kind |-> f.kind, id |-> f.id]
  <2>1. UNCHANGED <<asked, stages, outcome, lease, pinged>>
    BY <1>2 DEF Arrive
  <2>2. ImageInv' /\ VerdictEarned'
    BY <1>1, <2>1 DEF NetInv, ImageInv, VerdictEarned
  <2>3. WireInv'
    BY <1>1, <2>1 DEF NetInv, WireInv
  <2>4. StageInv'
    BY <1>1, <2>1 DEF NetInv, StageInv
  <2>5. EchoInv'
    BY <1>1, <2>1 DEF NetInv, EchoInv
  <2> QED BY <2>2, <2>3, <2>4, <2>5 DEF NetInv
<1>3. CASE asked = [kind |-> f.kind, id |-> f.id]
  <2>1. /\ asked' = Nobody /\ stages' = Tail(stages) /\ outcome' = outcome /\ asked.kind = f.kind /\ asked.id = f.id
        /\ f.kind = "dhcp" => lease' = f.lease /\ pinged' = pinged
        /\ f.kind = "echo" => lease' = lease /\ pinged' = f.to
    BY <1>3 DEF Arrive, Done
  <2>2. /\ f.kind \in {"dhcp", "echo"} /\ (f.kind = "dhcp" => f.lease.addr \in granted)
        /\ asked # Nobody /\ asked'.kind = "none"
    BY <2>1 DEF NetInv, WireInv, Nobody
  <2>3. /\ stages # <<>>
        /\ \/ asked.kind = "dhcp" /\ Head(stages) = "lease"
           \/ asked.kind = "echo" /\ Head(stages) \in {"ping", "preping", "gwping"}
    BY <2>2 DEF NetInv, WireInv
  <2>4. /\ probe \in ProbeSet /\ outcome[probe] = "none" /\ StageOrder(stages, probe) /\ ipID \in Nat
        /\ \A A : StageAhead(stages', A) => StageAhead(stages, A)
        /\ \A A : StageAhead(stages, A) => Head(stages) \in A \/ StageAhead(stages', A)
        /\ StageOrder(stages', probe)
    BY <2>1, <2>3, RunningInv
  <2>5. ImageInv'
    BY <1>1, <2>1, <2>3, <2>4, Zenon DEF NetInv, ImageInv
  <2>6. WireInv'
    BY <1>1, <2>1 DEF NetInv, WireInv
  <2>7. EchoInv'
    BY <1>1, <2>4 DEF NetInv, EchoInv
  <2>8. CASE f.kind = "dhcp"
    <3>1. /\ Head(stages) = "lease" /\ probe # "ping" /\ (probe \in Leased => StageAhead(stages', {"address"}))
          /\ ~StageAhead(stages', {"open", "lease"})
      BY <2>1, <2>3, <2>4, <2>8, OrderHead, Zenon
    <3>0. ~StageAhead(stages', {"lease"})
      BY <3>1 DEF StageAhead
    <3>2. StageAhead(stages, {"roots"}) => StageAhead(stages', {"roots"})
      BY <2>4, <3>1
    <3>3. "dhcp4" \in Leased
      BY DEF Leased
    <3>4. StageInv'
      BY <1>1, <2>1, <2>2, <2>3, <2>4, <2>8, <3>0, <3>1, <3>2, <3>3, Zenon DEF NetInv, StageInv
    <3>5. VerdictEarned'
      BY <1>1, <2>1, <2>2, <2>4, <2>8, Zenon DEF NetInv, VerdictEarned
    <3> QED BY <2>5, <2>6, <2>7, <3>4, <3>5 DEF NetInv
  <2>9. CASE f.kind = "echo" /\ Head(stages) = "ping"
    <3>1. probe = "ping" /\ ~StageAhead(stages', {"open", "static"}) /\ ~StageAhead(stages', {"ping"})
      BY <2>1, <2>3, <2>4, <2>9, OrderHead, Zenon
    <3>2. ~StageAhead(stages, {"static"})
      <4>1. ~StageAhead(stages', {"static"})
        BY <3>1 DEF StageAhead
      <4> QED BY <2>4, <2>9, <4>1
    <3>3. pinged' = opens
      BY <2>1, <2>9, <3>1 DEF NetInv, EchoInv
    <3>4. StageInv'
      BY <1>1, <2>1, <2>2, <2>3, <2>9, <3>1, <3>2, <3>3, Zenon DEF NetInv, StageInv, Leased, OverTls
    <3>5. VerdictEarned'
      BY <1>1, <2>1, <2>2, <2>4, <3>1, <3>3, Zenon DEF NetInv, VerdictEarned
    <3> QED BY <2>5, <2>6, <2>7, <3>4, <3>5 DEF NetInv
  <2>10. CASE f.kind = "echo" /\ Head(stages) \in {"preping", "gwping"}
    <3>1. probe \in Leased /\ ~StageAhead(stages', {"open", "lease", "address"})
      BY <2>1, <2>3, <2>4, <2>10, OrderHead, Zenon
    <3>2. ~StageAhead(stages', {"lease"}) /\ ~StageAhead(stages', {"address"}) /\ ~StageAhead(stages', {"open", "address"})
      BY <3>1 DEF StageAhead
    <3>3. /\ ~StageAhead(stages, {"lease"}) /\ ~StageAhead(stages, {"address"})
          /\ StageAhead(stages, {"roots"}) => StageAhead(stages', {"roots"})
      BY <2>4, <2>10, <3>2
    <3>4. lease.addr \in granted /\ local \in granted /\ (probe = "dhcp4" => echoed >= 2 \/ f.id > 1)
      BY <2>1, <2>3, <2>10, <3>1, <3>3, Zenon DEF NetInv, StageInv
    <3>5. probe = "dhcp4" => pinged' = opens \/ echoed >= 2
      <4>1. probe = "dhcp4" => f.id <= echoed \/ f.to = opens
        BY <2>10 DEF NetInv, EchoInv
      <4>2. f.id \in Nat /\ echoed \in Nat
        BY <2>10 DEF NetInv, WireInv
      <4> QED BY <2>1, <2>10, <3>4, <4>1, <4>2
    <3>6. "ping" \notin Leased /\ (probe = "dhcp4" => stages' = <<>>)
      BY <2>1, <2>3, <2>4, <2>10, OrderHead DEF Leased, OverTls
    <3>7. StageInv'
      BY <1>1, <2>1, <2>2, <2>3, <2>10, <3>1, <3>2, <3>3, <3>4, <3>6, Zenon DEF NetInv, StageInv
    <3>8. VerdictEarned'
      BY <1>1, <2>1, <2>2, <2>4, <3>1, <3>4, <3>5, <3>6, Zenon DEF NetInv, VerdictEarned
    <3> QED BY <2>5, <2>6, <2>7, <3>7, <3>8 DEF NetInv
  <2> QED BY <2>1, <2>2, <2>3, <2>8, <2>9, <2>10, Zenon
<1> QED BY <1>2, <1>3

\* handleICMP answers a host that pings this machine: an identification is spent.
LEMMA EchoRequestInv == ASSUME NetInv, EchoRequest PROVE NetInv'
<1>1. /\ ipID' = NextID(1) /\ echoed' = echoed + 1
      /\ UNCHANGED <<image, probe, stages, opens, local, lease, roots, asked, wire, granted, pinged, outcome>>
  BY DEF EchoRequest
<1>2. ipID \in Nat /\ echoed \in Nat /\ ipID' \in Nat /\ echoed' \in Nat
  BY <1>1 DEF NextID, NetInv, WireInv
<1>3. /\ ipID <= echoed => ipID' <= echoed'
      /\ echoed >= 2 => echoed' >= 2
      /\ echoed >= 2 \/ ipID \in 2 .. 2 + echoed => echoed' >= 2 \/ ipID' \in 2 .. 2 + echoed'
      /\ \A n \in Nat : n <= echoed => n <= echoed'
  BY <1>1, <1>2 DEF NextID
<1>4. ImageInv'
  BY <1>1 DEF NetInv, ImageInv
<1>5. WireInv'
  BY <1>1, <1>2 DEF NetInv, WireInv
<1>6. StageInv'
  BY <1>1, <1>3, Zenon DEF NetInv, StageInv
<1>7. EchoInv'
  BY <1>1, <1>3, Zenon DEF NetInv, EchoInv, WireInv
<1>8. VerdictEarned'
  BY <1>1, <1>3, Zenon DEF NetInv, VerdictEarned
<1> QED BY <1>4, <1>5, <1>6, <1>7, <1>8 DEF NetInv

\* runPhase2Probe: the next probe begins with nothing of the one before it, but its
\* answers may still be on the wire.
LEMMA NextProbeInv == ASSUME NetInv, NextProbe PROVE NetInv'
<1> DEFINE p == Head(image)
<1>1. /\ stages = <<>> /\ image # <<>> /\ probe' = p /\ image' = Tail(image) /\ stages' = StagesOf(p)
      /\ lease' = NoLease /\ roots' = FALSE /\ pinged' = 0
      /\ UNCHANGED <<opens, local, ipID, echoed, asked, wire, granted, outcome>>
  BY DEF NextProbe
<1>2. image \in Seq(ProbeSet) /\ asked = Nobody /\ asked.kind = "none"
  BY <1>1 DEF NetInv, ImageInv, WireInv, Nobody
<1>3. /\ 1 \in DOMAIN image /\ p = image[1] /\ p \in ProbeSet /\ Tail(image) \in Seq(ProbeSet)
      /\ \A n \in DOMAIN Tail(image) : n \in Nat /\ n + 1 \in DOMAIN image /\ Tail(image)[n] = image[n + 1] /\ 1 < n + 1
  BY <1>1, <1>2
<1> HIDE DEF p
<1>4. /\ outcome[p] = "none" /\ (\A n \in DOMAIN Tail(image) : outcome[Tail(image)[n]] = "none")
      /\ \A n \in DOMAIN Tail(image) : Precedes(p, Tail(image)[n])
      /\ probe # "none" => Precedes(probe, p)
  <2>1. /\ \A j, n \in DOMAIN image : j < n => Precedes(image[j], image[n])
        /\ probe # "none" => \A n \in DOMAIN image : Precedes(probe, image[n])
        /\ \A n \in DOMAIN image : outcome[image[n]] = "none"
    BY Zenon DEF NetInv, ImageInv
  <2> QED BY <1>3, <2>1, Zenon
<1>5. \A j, n \in DOMAIN Tail(image) : j < n => Precedes(Tail(image)[j], Tail(image)[n])
  <2> TAKE j \in DOMAIN Tail(image), n \in DOMAIN Tail(image)
  <2> HAVE j < n
  <2>1. j + 1 < n + 1
    BY <1>3
  <2> QED BY <1>3, <2>1 DEF NetInv, ImageInv
<1>6. /\ StageOrder(stages', p)
      /\ p \in Leased \cup {"ping"} => StageAhead(stages', {"open"})
      /\ p \in OverTls => StageAhead(stages', {"roots"})
  BY <1>1, <1>3, StartOrder, Zenon
<1>7. /\ p \in Leased => StageAhead(stages', {"lease"}) /\ StageAhead(stages', {"address"})
      /\ p = "ping" => StageAhead(stages', {"static"}) /\ StageAhead(stages', {"ping"})
  BY <1>6, OpenAhead
<1>8. p # "none" /\ "dhcp4" \in Leased
  BY <1>3 DEF ProbeSet, Dispatch, Leased
<1>9. ImageInv'
  <2>1. outcome \in [ProbeSet -> {"none", "ok", "fail", "quiet"}]
    BY DEF NetInv, ImageInv
  <2> QED BY <1>1, <1>3, <1>4, <1>5, <1>6, <1>8, <2>1, Zenon DEF ImageInv
<1>10. WireInv'
  BY <1>1, <1>2 DEF NetInv, WireInv
<1>11. StageInv'
  BY <1>1, <1>2, <1>6, <1>7, <1>8 DEF StageInv
<1>12. EchoInv'
  <2>1. p = "ping" => wire = {}
    BY <1>4, DispatchOrder DEF NetInv, EchoInv
  <2>2. p = "dhcp4" => wire = {} \/ probe = "ping"
    BY <1>4, DispatchOrder DEF NetInv, EchoInv
  <2>3. p = "dhcp4" => \A f \in wire : f.kind = "echo" => f.id <= echoed
    BY <2>2 DEF NetInv, EchoInv
  <2> QED BY <1>1, <1>8, <2>1, <2>3 DEF EchoInv
<1>13. VerdictEarned'
  BY <1>1, <1>2, <1>4 DEF VerdictEarned
<1> QED BY <1>9, <1>10, <1>11, <1>12, <1>13 DEF NetInv

\* An image lists its probes in the dispatcher's order.
LEMMA ImagesOrdered ==
  ASSUME NEW img \in Images
  PROVE  img \in Seq(ProbeSet) /\ \A j, n \in DOMAIN img : j < n => Precedes(img[j], img[n])
<1>0. PICK size \in 0 .. MaxProbes : \E g \in [1 .. size -> DOMAIN Dispatch] :
        img = [n \in DOMAIN g |-> Dispatch[g[n]]] /\ \A j, n \in DOMAIN g : j < n => g[j] < g[n]
  BY DEF Images
<1>1. PICK g \in [1 .. size -> DOMAIN Dispatch] :
        img = [n \in DOMAIN g |-> Dispatch[g[n]]] /\ \A j, n \in DOMAIN g : j < n => g[j] < g[n]
  BY <1>0
<1>2. size \in Nat /\ DOMAIN g = 1 .. size /\ DOMAIN img = 1 .. size
      /\ \A n \in 1 .. size : img[n] = Dispatch[g[n]] /\ g[n] \in DOMAIN Dispatch
  BY <1>1, LeaseAssumption
<1>3. \A n \in 1 .. size : img[n] \in ProbeSet
  BY <1>2 DEF ProbeSet
<1>4. img = [n \in 1 .. size |-> img[n]]
  BY <1>1, <1>2
<1>5. img \in Seq(ProbeSet)
  BY <1>2, <1>3, <1>4
<1>6. \A j, n \in DOMAIN img : j < n => Precedes(img[j], img[n])
  BY <1>1, <1>2 DEF Precedes
<1> QED BY <1>5, <1>6

\* Before the dispatcher runs (runPhase2Probe's entry).
LEMMA NetInitInv == NetInit => NetInv
<1> SUFFICES ASSUME NetInit PROVE NetInv
  OBVIOUS
<1>1. image \in Seq(ProbeSet) /\ \A j, n \in DOMAIN image : j < n => Precedes(image[j], image[n])
  BY ImagesOrdered DEF NetInit
<1>2. \A n \in DOMAIN image : image[n] \in ProbeSet
  BY <1>1
<1>3. outcome = [p \in ProbeSet |-> "none"]
  BY DEF NetInit, ProbeSet
<1>4. ImageInv
  BY <1>1, <1>2, <1>3, NoStages, Zenon DEF NetInit, ImageInv
<1>5. WireInv /\ StageInv /\ EchoInv
  BY DEF NetInit, WireInv, StageInv, EchoInv
<1>6. VerdictEarned
  BY DEF NetInit, VerdictEarned, OverTls, Nobody
<1> QED BY <1>4, <1>5, <1>6 DEF NetInv

\* A verdict that a network probe prints is its own, whatever image the probes are
\* built into and however late the answers to an earlier probe come: the ping that ping
\* and dhcp4 report was answered to their own Stack, a Stack that pings has the address
\* of the ping probe or one that the server has granted, and OK over TLS was printed
\* with the trust roots parsed (runPhase2Probe and the probes it calls).  Only when two
\* echo requests of others have been answered may dhcp4 take a late reply to ping.
THEOREM VerdictsAreEarned == NetSpec => []VerdictEarned
<1>1. NetInit => NetInv
  BY NetInitInv
<1>2. NetInv /\ [NetNext]_netVars => NetInv'
  <2> SUFFICES ASSUME NetInv, [NetNext]_netVars PROVE NetInv'
    OBVIOUS
  <2>1. CASE NextProbe
    BY <2>1, NextProbeInv
  <2>2. CASE OpenVirtioNet
    BY <2>2, OpenInv
  <2>3. CASE Call \/ NewRootCAs \/ CheckDns \/ SkipPing \/ Resolve
    BY <2>3, CallInv
  <2>4. CASE SetAddress
    BY <2>4, SetAddressInv
  <2>5. CASE Succeed
    BY <2>5, SucceedInv
  <2>6. CASE AskLease
    BY <2>6, AskLeaseInv
  <2>7. CASE PingOnce
    BY <2>7, PingOnceInv
  <2>8. CASE Timeout
    BY <2>8, TimeoutInv
  <2>9. CASE \E f \in wire : Arrive(f)
    BY <2>9, ArriveInv
  <2>10. CASE EchoRequest
    BY <2>10, EchoRequestInv
  <2>11. CASE UNCHANGED netVars
    <3>1. ImageInv'
      BY <2>11 DEF netVars, NetInv, ImageInv
    <3>2. WireInv'
      BY <2>11 DEF netVars, NetInv, WireInv
    <3>3. StageInv'
      BY <2>11 DEF netVars, NetInv, StageInv
    <3>4. EchoInv'
      BY <2>11 DEF netVars, NetInv, EchoInv
    <3>5. VerdictEarned'
      BY <2>11 DEF netVars, NetInv, VerdictEarned
    <3> QED BY <3>1, <3>2, <3>3, <3>4, <3>5 DEF NetInv
  <2> QED BY <2>1, <2>2, <2>3, <2>4, <2>5, <2>6, <2>7, <2>8, <2>9, <2>10, <2>11 DEF NetNext, Turn
<1>3. NetInv => VerdictEarned
  BY DEF NetInv
<1> QED BY <1>1, <1>2, <1>3, PTL DEF NetSpec
=============================================================================
