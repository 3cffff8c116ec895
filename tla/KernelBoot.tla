------------------------------ MODULE KernelBoot ------------------------------
(***************************************************************************)
(* Booting an EFI image: the probes of phase2_oci_kernel_boot.go (modes A, *)
(* B and C), bootEntry of phase2_dhcp_oci_menu.go, and the chain-boot      *)
(* probes phase2_efi_handover.go and phase2_efi_tiny_handover.go, with the *)
(* firmware calls of loadimage_tamago.go, load_options_tamago.go,          *)
(* inherit_device_handle.go and UninstallAllRNG.                           *)
(*                                                                         *)
(* Each probe is a sequence of stages.  A stage fails and the probe        *)
(* returns, or it succeeds and the next one runs; nothing is undone.       *)
(* The firmware decides freely what each call returns.                     *)
(***************************************************************************)
EXTENDS Naturals, Sequences

CONSTANTS
  Targets,     \* what may be booted: [ref, cmdline]; "" where not configured
  Rngs         \* firmware handles that carry EFI_RNG_PROTOCOL

VARIABLES
  probe,       \* which flow runs
  target,      \* the reference and command line it boots
  todo,        \* the stages left; <<>> once the probe has returned
  payload,     \* the bytes in hand: [from, pe]
  measured,    \* the reference whose bytes were handed to measurePhase2
  rng,         \* handles that still carry the protocol
  image,       \* the child: none, loaded, running, kept, gone
  options,     \* its LoadOptions
  device,      \* its DeviceHandle: null or parent
  refused      \* ghost: the firmware calls that failed

bootVars == <<probe, target, todo, payload, measured, rng, image, options, device, refused>>

Nothing == [from |-> "", pe |-> FALSE]

\* runOCIKernelBootProbe.
ModeOf(t) == IF t.ref = "" THEN "modeB" ELSE IF t.cmdline = "" THEN "modeA" ELSE "modeC"

\* runKernelBootLinuxKernel: up to a vmlinuz, up to a child ready to run, and the
\* child's run, which every probe shares.
ModeCFetch == <<"net", "manifest", "extract", "magic">>
ModeCReady == <<"measure", "dtb", "rng", "load", "options", "inherit">>
Launch == <<"start", "unload">>

\* bootEntry, on the menu's network.
EntryFetch == <<"manifest", "extract", "magic">>
EntryReady == <<"dtb", "rng", "load", "options", "inherit">>

\* runKernelBootRealRegistry and runKernelBootSelfTest, then bootStreamedPayload.
ModeAFetch == <<"net", "manifest", "stream">>
ModeBFetch == <<"embedded", "magic", "stream">>
StreamedReady == <<"magic", "measure", "load">>

\* runEFIHandoverProbe and the variants of runOneVariant; the child of variant C
\* is never started.
EmbeddedReady == <<"embedded", "magic", "load">>
TinyVariant(v) == EmbeddedReady \o (IF v = "tinyC" THEN <<>> ELSE Launch)

StagesOf(p) ==
  CASE p = "modeC" -> ModeCFetch \o ModeCReady \o Launch
    [] p = "modeA" -> ModeAFetch \o StreamedReady \o Launch
    [] p = "modeB" -> ModeBFetch \o StreamedReady \o Launch
    [] p = "menu" -> EntryFetch \o EntryReady \o Launch
    [] p = "handover" -> EmbeddedReady \o Launch
    [] OTHER -> TinyVariant(p)

-----------------------------------------------------------------------------
At(stage) == todo # <<>> /\ Head(todo) = stage
Done == todo' = Tail(todo)
Return == todo' = <<>>

\* Network and registry: nothing of this module changes.  "dtb" never fails the
\* probe, the other two do.
Prepare ==
  /\ At("net") \/ At("manifest") \/ At("dtb")
  /\ Done \/ (~At("dtb") /\ Return)
  /\ UNCHANGED <<probe, target, payload, measured, rng, image, options, device, refused>>

\* The payload arrives: the embedded image, a verified layer, or boot/vmlinuz of
\* one; it need not be an EFI image.
Obtain ==
  /\ At("embedded") \/ At("stream") \/ At("extract")
  /\ \/ \E pe \in BOOLEAN : payload' = [from |-> target.ref, pe |-> pe] /\ Done
     \/ Return /\ UNCHANGED payload
  /\ UNCHANGED <<probe, target, measured, rng, image, options, device, refused>>

\* The MZ check.
Magic ==
  /\ At("magic")
  /\ IF payload.pe THEN Done ELSE Return
  /\ UNCHANGED <<probe, target, payload, measured, rng, image, options, device, refused>>

\* measurePhase2: best effort, the boot goes on.
Measure ==
  /\ At("measure") /\ Done
  /\ measured' = payload.from
  /\ UNCHANGED <<probe, target, payload, rng, image, options, device, refused>>

\* UninstallAllRNG: handles whose protocol the firmware will not give up are
\* skipped.
UninstallAllRNG ==
  /\ At("rng") /\ Done
  /\ \E stuck \in SUBSET rng :
       /\ rng' = stuck
       /\ refused' = refused \cup (IF stuck = {} THEN {} ELSE {"rng"})
  /\ UNCHANGED <<probe, target, payload, measured, image, options, device>>

LoadImage ==
  /\ At("load")
  /\ \/ image' = "loaded" /\ Done /\ UNCHANGED refused
     \/ Return /\ refused' = refused \cup {"load"} /\ UNCHANGED image
  /\ UNCHANGED <<probe, target, payload, measured, rng, options, device>>

\* Mutant: a refused SetLoadOptions is only logged.
SetLoadOptionsLogged ==
  /\ At("options") /\ Done
  /\ \/ options' = target.cmdline /\ UNCHANGED refused
     \/ refused' = refused \cup {"options"} /\ UNCHANGED options
  /\ UNCHANGED <<probe, target, payload, measured, rng, image, device>>

\* bootEntry skips it for an empty command line.
SetLoadOptions ==
  /\ At("options")
  /\ \/ target.cmdline = "" /\ Done /\ UNCHANGED <<options, refused>>
     \/ target.cmdline # "" /\ options' = target.cmdline /\ Done /\ UNCHANGED refused
     \/ target.cmdline # "" /\ Return /\ refused' = refused \cup {"options"} /\ UNCHANGED options
  /\ UNCHANGED <<probe, target, payload, measured, rng, image, device>>

InheritParentDeviceHandle ==
  /\ At("inherit")
  /\ \/ device' = "parent" /\ Done /\ UNCHANGED refused
     \/ Return /\ refused' = refused \cup {"inherit"} /\ UNCHANGED device
  /\ UNCHANGED <<probe, target, payload, measured, rng, image, options>>

StartImage ==
  /\ At("start") /\ image = "loaded"
  /\ image' = "running"
  /\ UNCHANGED <<probe, target, todo, payload, measured, rng, options, device, refused>>

\* Mutant: UnloadImage only after a clean exit.
ImageReturnsSwapped ==
  /\ image = "running"
  /\ \/ image' = "gone" /\ todo' = Tail(todo)
     \/ image' \in {"kept", "gone"} /\ Return
  /\ UNCHANGED <<probe, target, payload, measured, rng, options, device, refused>>

\* The child returns to StartImage.  With status 0 the firmware has torn it down
\* and the probe is over; otherwise the firmware may have kept it and
\* UnloadImage follows.
ImageReturns ==
  /\ image = "running"
  /\ \/ image' = "gone" /\ Return
     \/ image' \in {"kept", "gone"} /\ Done
  /\ UNCHANGED <<probe, target, payload, measured, rng, options, device, refused>>

\* UnloadImage; its failure is a warning.
UnloadImage ==
  /\ At("unload") /\ Done
  /\ \/ image = "kept" /\ image' = "gone" /\ UNCHANGED refused
     \/ refused' = refused \cup {"unload"} /\ UNCHANGED image
  /\ UNCHANGED <<probe, target, payload, measured, rng, options, device>>

BootStep ==
  \/ Prepare \/ Obtain \/ Magic \/ Measure \/ UninstallAllRNG \/ LoadImage
  \/ SetLoadOptions \/ InheritParentDeviceHandle
  \/ StartImage \/ ImageReturns \/ UnloadImage

BootInit ==
  /\ payload = Nothing /\ measured = "" /\ rng = Rngs
  /\ image = "none" /\ options = "" /\ device = "null" /\ refused = {}

\* A probe that main runs by itself, not from the menu.
DirectInit ==
  /\ BootInit
  /\ target \in Targets
  /\ probe \in {ModeOf(target), "handover", "tinyC", "tinyZ"}
  /\ todo = StagesOf(probe)

-----------------------------------------------------------------------------
\* The image in control is an EFI image fetched for this target; a Linux kernel
\* runs with its command line and the parent's device, however the calls before
\* StartImage went, and no RNG protocol is left but what the firmware would not give
\* up; modes A, B and C measured exactly these bytes first.
StartedAsConfigured ==
  image = "running" =>
    /\ payload = [from |-> target.ref, pe |-> TRUE]
    /\ probe \in {"modeC", "menu"} => options = target.cmdline /\ device = "parent" /\ (rng = {} \/ "rng" \in refused)
    /\ probe \in {"modeA", "modeB", "modeC"} => measured = payload.from

\* When a probe is over, an image is still in memory only because the firmware
\* refused a call made for it, or because the probe loads without starting.
ImageReleased ==
  todo = <<>> /\ image \in {"loaded", "kept"} =>
    refused \cap {"options", "inherit", "unload"} # {} \/ probe = "tinyC"
=============================================================================
