----------------------------- MODULE MCBootMenu -----------------------------
(* BootMenu with up to three entries, seconds of two ticks, durations that  *)
(* three seconds overflow, few keys; and the probes that boot without it.   *)
EXTENDS BootMenu

AllTargets == [ref : {"", "kernel"}, cmdline : {"", "quiet"}]
MCCmdline == [l \in Labels |-> IF l = "a" THEN "" ELSE l]
=============================================================================
