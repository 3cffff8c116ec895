------------------------------ MODULE OciFetch ------------------------------
(***************************************************************************)
(* Pulling an artifact from an OCI registry: authentication, manifest,     *)
(* index, and blobs either buffered (FetchBlob), streamed to a writer      *)
(* (FetchBlobStream) or into a slice (FetchBlobToBuffer)                   *)
(* (uefiboard/ministack/oci: registry.go, fetch.go, manifest.go,           *)
(* digest.go).                                                             *)
(*                                                                         *)
(* The registry answers each request as it likes.  A content is a model    *)
(* value, its digest is itself, and its bytes are its numbered cells.      *)
(***************************************************************************)
EXTENDS Naturals, Sequences, FiniteSetsExt

CONSTANTS
  Content,        \* whatever a server may send
  Size,           \* number of bytes of a content
  Index,          \* contents that parse as an index ...
  Entries,        \* ... and its entries, each a platform and a digest
  Platform,       \* the operating system and architecture asked for
  Manifest,       \* contents that parse as a manifest ...
  Config, Layers, \* ... and the config and the sequence of layer digests it names
  Filter,         \* FetchOptions.LayerFilter: the layers FetchArtifact fetches
  Declared,       \* the size a descriptor declares for a digest, 0 if none
  Modes,          \* "blob", "stream", "buffer": how layers are fetched; "verify": see Cosign
  BufLen,         \* length of the caller's slice
  None

\* A digest stands for the content it is the digest of.
ASSUME OciAssumption ==
  /\ Size \in [Content -> Nat]
  /\ Layers \in [Manifest -> Seq(Content)]

MaxBlobRedirects == 2

VARIABLES
  pc,          \* "probe", "token", "manifest", "picked", "config", "layer", "done"
  mode,        \* how layers are fetched, or "verify"
  skip,        \* FetchOptions.SkipConfig
  i,           \* the layer being fetched
  bearer,      \* Registry.bearer: TRUE if a token is cached
  hop,         \* redirects followed for this blob
  home,        \* the blob's URL is on the registry
  sendBearer,  \* the local variable bearer of the blob loops
  index, man, config,   \* Artifact: IndexRaw, ManifestRaw, ConfigBlob, or None
  blobs,       \* Artifact.LayerBlobs, by layer
  dst,         \* the bytes the layer's writer or slice holds
  result,      \* "none", "ok" or "error"
  request      \* ghost: the latest request

blob == <<hop, home, sendBearer>>
vars == <<pc, mode, skip, i, bearer, blob, index, man, config, blobs, dst, result, request>>

Bytes(c) == [k \in 1 .. Size[c] |-> <<c, k>>]
Fail == pc' = "done" /\ result' = "error"
Ask(toHome, withBearer) == request' = [home |-> toHome, bearer |-> withBearer]

\* VerifyDigest.
VerifyDigest(digest, body) == body = digest

\* PickPlatform: the first entry for the platform, or None.
PickPlatform(x) ==
  LET hits == {k \in DOMAIN Entries[x] : Entries[x][k].platform = Platform}
  IN  IF hits = {} THEN None ELSE Entries[x][Min(hits)].digest

-----------------------------------------------------------------------------
\* Authenticate: 200 needs no token, 401 with a usable challenge asks for one.
Probe ==
  /\ pc = "probe" /\ Ask(TRUE, FALSE)
  /\ \/ pc' = "manifest" /\ bearer' = FALSE /\ UNCHANGED result
     \/ pc' = "token" /\ UNCHANGED <<bearer, result>>
     \/ Fail /\ UNCHANGED bearer
  /\ UNCHANGED <<mode, skip, i, blob, index, man, config, blobs, dst>>

\* The realm may be any host; the token must not be empty.
Token ==
  /\ pc = "token" /\ Ask(FALSE, FALSE)
  /\ \/ pc' = "manifest" /\ bearer' = TRUE /\ UNCHANGED result
     \/ Fail /\ UNCHANGED bearer
  /\ UNCHANGED <<mode, skip, i, blob, index, man, config, blobs, dst>>

\* The first request for a blob.
BeginBlob(l) == pc' = l /\ hop' = 0 /\ home' = TRUE /\ sendBearer' = bearer

\* Mutant: the first layer filtered out ends the loop.
LayersFromBreak(m, k) ==
  IF mode = "blob" /\ (k > Len(Layers[m]) \/ Layers[m][k] \notin Filter)
  THEN pc' = "done" /\ result' = "ok" /\ UNCHANGED <<i, blob>>
  ELSE /\ IF mode = "blob" THEN i' = k ELSE i' \in 1 .. Len(Layers[m])
       /\ BeginBlob("layer") /\ UNCHANGED result

\* The loop over the layers of m, from layer k on.  For the other modes the
\* filter refuses every layer and the caller then fetches one of its choice.
LayersFrom(m, k) ==
  LET todo == {j \in k .. Len(Layers[m]) : Layers[m][j] \in Filter}
  IN  IF mode = "blob" /\ todo = {}
      THEN pc' = "done" /\ result' = "ok" /\ UNCHANGED <<i, blob>>
      ELSE /\ IF mode = "blob" THEN i' = Min(todo) ELSE i' \in 1 .. Len(Layers[m])
           /\ BeginBlob("layer") /\ UNCHANGED result

\* LayerBlobs before the loop: one nil for each layer.
NoBlobs(m) == [j \in DOMAIN Layers[m] |-> None]

\* ParseManifest has accepted m.
UseManifest(m) ==
  /\ man' = m
  /\ IF skip THEN LayersFrom(m, 1) /\ blobs' = NoBlobs(m)
             ELSE BeginBlob("config") /\ UNCHANGED <<i, result, blobs>>

\* FetchManifestRaw of the reference, IsIndex, PickPlatform or ParseManifest.
FetchManifest ==
  /\ pc = "manifest" /\ mode # "verify" /\ Ask(TRUE, bearer)
  /\ \/ Fail /\ UNCHANGED <<i, blob, index, man, blobs>>
     \/ \E body \in Index :
          /\ index' = body
          /\ IF PickPlatform(body) = None THEN Fail ELSE pc' = "picked" /\ UNCHANGED result
          /\ UNCHANGED <<i, blob, man, blobs>>
     \/ \E body \in Manifest : UseManifest(body) /\ UNCHANGED index
  /\ UNCHANGED <<mode, skip, bearer, config, dst>>

\* The manifest the index names, verified against the index.
FetchPicked ==
  /\ pc = "picked" /\ mode # "verify" /\ Ask(TRUE, bearer)
  /\ \/ Fail /\ UNCHANGED <<i, blob, man, blobs>>
     \/ \E body \in Content :
          IF VerifyDigest(PickPlatform(index), body) /\ body \in Manifest
          THEN UseManifest(body) ELSE Fail /\ UNCHANGED <<i, blob, man, blobs>>
  /\ UNCHANGED <<mode, skip, bearer, index, config, dst>>

-----------------------------------------------------------------------------
Wanted == IF pc = "config" THEN Config[man] ELSE Layers[man][i]
SizeOk(c) == Declared[Wanted] > 0 => Size[c] = Declared[Wanted]

\* Mutant: the token goes along with the redirect.
RedirectWithBearer(elsewhere) ==
  hop < MaxBlobRedirects /\ hop' = hop + 1 /\ home' = ~elsewhere /\ UNCHANGED <<pc, result, sendBearer>>

\* A redirect that names a location, followed at most twice and without token; one
\* more is an error like any other.
Redirect(elsewhere) ==
  /\ hop < MaxBlobRedirects
  /\ hop' = hop + 1 /\ home' = ~elsewhere /\ sendBearer' = FALSE /\ UNCHANGED <<pc, result>>

\* FetchBlob keeps a body only when it is the one asked for; the config is
\* always fetched this way.
FetchBlob ==
  /\ pc = "config" \/ (pc = "layer" /\ mode = "blob")
  /\ Ask(home, sendBearer)
  /\ \/ Fail /\ UNCHANGED <<i, blob, config, blobs>>
     \/ \E elsewhere \in BOOLEAN : Redirect(elsewhere) /\ UNCHANGED <<i, config, blobs>>
     \/ \E body \in Content :
          IF VerifyDigest(Wanted, body) /\ SizeOk(body)
          THEN IF pc = "config"
               THEN config' = body /\ LayersFrom(man, 1) /\ blobs' = NoBlobs(man)
               ELSE blobs' = [blobs EXCEPT ![i] = body] /\ LayersFrom(man, i + 1) /\ UNCHANGED config
          ELSE Fail /\ UNCHANGED <<i, blob, config, blobs>>
  /\ UNCHANGED <<mode, skip, bearer, index, man, dst>>

\* streamHTTPResponseHeaders sends the body of a redirect to io.Discard.
Discard(body) == UNCHANGED dst

\* One GetStream into a writer that takes at most limit bytes, and what the two
\* streaming loops do with the answer.  The body of an error is written too, a
\* transfer that breaks off or overflows leaves a part, and the hash covers the
\* body of this hop only.
GetStream(limit) ==
  /\ Ask(home, sendBearer)
  /\ \E body \in Content :
       \/ /\ \E k \in 0 .. Size[body] : k <= limit /\ dst' = dst \o SubSeq(Bytes(body), 1, k)
          /\ Fail /\ UNCHANGED blob
       \/ \E elsewhere \in BOOLEAN : Redirect(elsewhere) /\ Discard(body)
       \/ /\ Size[body] <= limit
          /\ dst' = dst \o Bytes(body)
          /\ IF SizeOk(body) /\ VerifyDigest(Wanted, body)
             THEN pc' = "done" /\ result' = "ok" ELSE Fail
          /\ UNCHANGED blob
  /\ UNCHANGED <<mode, skip, i, bearer, index, man, config, blobs>>

FetchBlobStream ==
  /\ pc = "layer" /\ mode = "stream"
  /\ GetStream(Max({Size[c] : c \in Content}))

\* fixedSliceWriter refuses what does not fit in the slice.
FetchBlobToBuffer ==
  /\ pc = "layer" /\ mode = "buffer" /\ Declared[Wanted] <= BufLen
  /\ GetStream(BufLen)

\* ErrBlobBufferTooSmall, before any request.
BufferTooSmall ==
  /\ pc = "layer" /\ mode = "buffer" /\ Declared[Wanted] > BufLen
  /\ Fail
  /\ UNCHANGED <<mode, skip, i, blob, bearer, index, man, config, blobs, dst, request>>

Init ==
  /\ pc = "probe" /\ mode \in Modes /\ skip \in BOOLEAN /\ i = 0
  /\ bearer \in BOOLEAN /\ hop = 0 /\ home = TRUE /\ sendBearer = FALSE
  /\ index = None /\ man = None /\ config = None
  /\ blobs = <<>> /\ dst = <<>>
  /\ result = "none" /\ request = [home |-> TRUE, bearer |-> FALSE]

Next ==
  \/ Probe \/ Token \/ FetchManifest \/ FetchPicked
  \/ FetchBlob \/ FetchBlobStream \/ FetchBlobToBuffer \/ BufferTooSmall

-----------------------------------------------------------------------------
\* Whatever the servers send, a successful walk has the manifest the index
\* names, the config that manifest names, and at each index of LayerBlobs the
\* layer of that index unless it was filtered out (FetchArtifact).  A streamed layer
\* is in dst, and nothing else is, whatever redirects were followed: "the buffer is
\* digest-clean on success" (phase2_oci_kernel_boot.go:1022).
ArtifactVerified ==
  result = "ok" /\ mode # "verify" =>
    /\ index # None => man = PickPlatform(index)
    /\ ~skip => config = Config[man]
    /\ mode = "blob" =>
         \A j \in 1 .. Len(Layers[man]) :
           blobs[j] = IF Layers[man][j] \in Filter THEN Layers[man][j] ELSE None
    /\ mode \in {"stream", "buffer"} => dst = Bytes(Layers[man][i])

\* The token is sent to the registry only, never along a redirect (the variable
\* bearer of the three blob loops).
BearerStaysHome == request.bearer => request.home

=============================================================================
