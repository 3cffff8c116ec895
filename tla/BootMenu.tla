------------------------------- MODULE BootMenu -------------------------------
(***************************************************************************)
(* The interactive boot menu of phase2_dhcp_oci_menu.go: bootmenu.Parse,   *)
(* indexOfDefault, menuLoop with the frames of bootmenu.Renderer, the      *)
(* keyboard of text_input_tamago.go, and bootEntry (KernelBoot) for the    *)
(* entry dispatched.                                                       *)
(*                                                                         *)
(* Time is counted in ticks of the loop, PerSecond to the second.  A       *)
(* duration is a signed word of 2 * Half values, as time.Duration is.      *)
(***************************************************************************)
EXTENDS KernelBoot, Integers, FiniteSetsExt

CONSTANTS
  Labels,      \* labels an HCL file may use; "" is none
  Cmdline,     \* label -> the entry's command line
  MaxEntries,
  Timeouts,    \* values of the timeout attribute
  PerSecond,   \* ticks in a second
  Half,        \* durations are -Half .. Half - 1
  Keys,        \* what the user types
  MaxKeys,     \* bound on keystrokes
  MaxTime,     \* bound on the clock
  MaxErrors    \* bound on the failures of ReadKeyStroke

\* A timeout is any int the HCL file gives; a second is at least one tick.
ASSUME MenuAssumption ==
  /\ Timeouts \subseteq Int
  /\ PerSecond \in Nat \ {0} /\ Half \in Nat \ {0} /\ MaxTime \in Nat /\ MaxEntries \in Nat

VARIABLES
  cfg,         \* [entries, default, timeout]
  loop,        \* "net", "setup", "render", "poll", "check", "boot", "halt";
               \* "direct" for a probe without menu
  selected,    \* index into cfg.entries, from 1
  armed,       \* autoBootArmed
  now, deadline,
  shown,       \* the last frame: [cursor, countdown], cursor 0 if there is none
  keyq,        \* keystrokes the firmware holds
  errors,      \* failures of ReadKeyStroke so far
  typed,       \* ghost: keystrokes read by the loop
  cause        \* ghost: what dispatched, "none", "auto" or "enter"

menuVars == <<cfg, loop, selected, armed, now, deadline, shown, keyq, errors, typed, cause>>
vars == <<bootVars, menuVars>>

Configs ==
  [entries : UNION {[1 .. n -> Labels] : n \in 0 .. MaxEntries},
   default : Labels \cup {""}, timeout : Timeouts]

\* bootmenu.Parse accepts.
Parse(c) ==
  /\ c.entries # <<>> /\ IsInjective(c.entries)
  /\ c.default # "" => c.default \in Range(c.entries)

\* indexOfDefault.
IndexOfDefault(c) ==
  IF c.default # "" /\ c.default \in Range(c.entries)
  THEN CHOOSE j \in DOMAIN c.entries : c.entries[j] = c.default ELSE 1

\* time.Duration(cfg.Timeout) * time.Second.
Seconds(n) == ((n * PerSecond + Half) % (2 * Half)) - Half

\* time.Until(deadline) / time.Second, not below 0; 0 when not armed.
Countdown ==
  IF armed /\ deadline > now THEN (deadline - now) \div PerSecond ELSE 0

\* Mutant: time stands still in the loop.
PassNot(d) == now' = now

\* Time passes between two calls; the bound stops the clock.
Pass(d) == now' = IF now + d > MaxTime THEN MaxTime ELSE now + d

-----------------------------------------------------------------------------
\* runDHCPOCIMenuProbe up to the HCL bytes: network, lease, registry and blob, or
\* the probe returns.
FetchConfig ==
  /\ loop = "net" /\ loop' \in {"setup", "halt"}
  /\ UNCHANGED <<bootVars, cfg, selected, armed, now, deadline, shown, keyq, typed, cause, errors>>

\* What ResetConIn may leave of the keystrokes held: it drains them or fails.
ResetConIn(q) == {<<>>, q}

\* Parse, ResetConIn and menuLoop up to its loop.
Enter ==
  /\ loop = "setup"
  /\ \E c \in Configs :
       /\ cfg' = c
       /\ IF Parse(c)
          THEN /\ loop' = "render"
               /\ selected' = IndexOfDefault(c)
               /\ armed' = (c.timeout > 0 /\ c.default # "")
               /\ deadline' = IF armed' THEN now + Seconds(c.timeout) ELSE now
          ELSE loop' = "halt" /\ UNCHANGED <<selected, armed, deadline>>
  /\ keyq' \in ResetConIn(keyq)
  /\ UNCHANGED <<bootVars, now, shown, typed, cause, errors>>

\* renderer.Render.
Render ==
  /\ loop = "render" /\ loop' = "poll"
  /\ shown' = [cursor |-> selected, countdown |-> Countdown]
  /\ UNCHANGED <<bootVars, cfg, selected, armed, now, deadline, keyq, typed, cause, errors>>

\* The write to the console fails: logged, the screen is anybody's guess.
RenderFails ==
  /\ loop = "render" /\ loop' = "poll"
  /\ shown' = [cursor |-> 0, countdown |-> 0]
  /\ UNCHANGED <<bootVars, cfg, selected, armed, now, deadline, keyq, typed, cause, errors>>

\* ReadKeyNonblocking: no key, or no ConIn.
ReadNone ==
  /\ loop = "poll" /\ keyq = <<>> /\ loop' = "check"
  /\ \E d \in {0, 1} : Pass(d)
  /\ UNCHANGED <<bootVars, cfg, selected, armed, deadline, shown, keyq, typed, cause, errors>>

\* ReadKeyNonblocking: any other status; logged, one tick later the loop goes on.
ReadFails ==
  /\ errors < MaxErrors /\ errors' = errors + 1
  /\ loop = "poll" /\ loop' = "render"
  /\ Pass(1)
  /\ UNCHANGED <<bootVars, cfg, selected, armed, deadline, shown, keyq, typed, cause>>

\* bootEntry(cfg.Entries[selected]).
Dispatch(why) ==
  /\ loop' = "boot" /\ cause' = why
  /\ target' = [ref |-> cfg.entries[selected], cmdline |-> Cmdline[cfg.entries[selected]]]
  /\ todo' = StagesOf("menu")
  /\ UNCHANGED <<probe, payload, measured, rng, image, options, device, refused>>

\* The deadline has passed.
AutoBoot ==
  /\ loop = "check" /\ armed /\ now > deadline
  /\ Dispatch("auto")
  /\ UNCHANGED <<cfg, selected, armed, now, deadline, shown, keyq, typed, errors>>

\* It has not: busyWait.
Wait ==
  /\ loop = "check" /\ ~(armed /\ now > deadline)
  /\ loop' = "render"
  /\ Pass(1)
  /\ UNCHANGED <<bootVars, cfg, selected, armed, deadline, shown, keyq, typed, cause, errors>>

\* Mutant: Down stops one entry too early.
MoveShort(n, k, at) ==
  CASE k = "up" -> IF at > 1 THEN at - 1 ELSE at
    [] k = "down" -> IF at < n - 1 THEN at + 1 ELSE at
    [] k = "home" -> 1
    [] k = "end" -> n
    [] OTHER -> at

\* The cursor keys, in a menu of n entries.
Move(n, k, at) ==
  CASE k = "up" -> IF at > 1 THEN at - 1 ELSE at
    [] k = "down" -> IF at < n THEN at + 1 ELSE at
    [] k = "home" -> 1
    [] k = "end" -> n
    [] OTHER -> at

\* ReadKeyNonblocking returns a keystroke, and the switch over it.
HandleKey ==
  /\ loop = "poll" /\ keyq # <<>>
  /\ keyq' = Tail(keyq) /\ typed' = Append(typed, Head(keyq))
  /\ armed' = FALSE
  /\ selected' = Move(Len(cfg.entries), Head(keyq), selected)
  /\ \/ Head(keyq) = "enter" /\ Dispatch("enter")
     \/ Head(keyq) = "esc" /\ loop' = "halt" /\ UNCHANGED <<bootVars, cause>>
     \/ Head(keyq) \notin {"enter", "esc"} /\ loop' = "render" /\ UNCHANGED <<bootVars, cause>>
  /\ UNCHANGED <<cfg, now, deadline, shown, errors>>

\* The user types while the menu is up, or before it is.
Press(k) ==
  /\ loop \notin {"boot", "halt", "direct"} /\ Len(keyq) + Len(typed) < MaxKeys
  /\ keyq' = Append(keyq, k)
  /\ UNCHANGED <<bootVars, cfg, loop, selected, armed, now, deadline, shown, typed, cause, errors>>

Boot == loop \in {"boot", "direct"} /\ BootStep /\ UNCHANGED menuVars

\* The probe has returned and main goes on to another.
Finished ==
  /\ loop = "halt" \/ (loop \in {"boot", "direct"} /\ todo = <<>>)
  /\ UNCHANGED vars

\* The menu, or a probe that boots without it.
MenuInit ==
  /\ \/ /\ BootInit /\ probe = "menu" /\ target = [ref |-> "", cmdline |-> ""] /\ todo = <<>>
        /\ loop = "net"
     \/ DirectInit /\ loop = "direct"
  /\ cfg = [entries |-> <<>>, default |-> "", timeout |-> 0]
  /\ selected = 1 /\ armed = FALSE /\ now = 0 /\ deadline = 0
  /\ shown = [cursor |-> 0, countdown |-> 0]
  /\ keyq = <<>> /\ errors = 0 /\ typed = <<>> /\ cause = "none"

\* One turn of the program; the user is not part of it.
Turn ==
  FetchConfig \/ Enter \/ Render \/ RenderFails \/ ReadNone \/ ReadFails \/ AutoBoot \/ Wait \/ HandleKey

MenuNext == Turn \/ Boot \/ Finished \/ \E k \in Keys : Press(k)

\* The loop keeps running: nothing in it blocks.  The child booted may stay in
\* control for ever, so nothing is assumed of Boot.
MenuSpec == MenuInit /\ [][MenuNext]_vars /\ WF_vars(Turn)

-----------------------------------------------------------------------------
\* Where a key leads from entry at of c.
Leads(c, k, at) ==
  CASE k = "up" -> IF at = 1 THEN 1 ELSE at - 1
    [] k = "down" -> IF at = Len(c.entries) THEN at ELSE at + 1
    [] k = "home" -> 1
    [] k = "end" -> Len(c.entries)
    [] OTHER -> at

\* The cursor keys lead, one after the other, from the default entry to entry j.
LeadsTo(c, ks, j) ==
  \E at \in [0 .. Len(ks) -> DOMAIN c.entries] :
    /\ at[0] = IndexOfDefault(c) /\ at[Len(ks)] = j
    /\ \A n \in 1 .. Len(ks) : at[n] = Leads(c, ks[n], at[n - 1])

\* The entry dispatched is the one the keystrokes lead to and the one the cursor
\* stood on in the frame on the screen, and the kernel in control is that entry's,
\* with its command line.  Without a keystroke ("cancelled by any keystroke") it is
\* Default, and not before the configured time ("Timeout is seconds before
\* auto-selecting Default", bootmenu.go:62), if that many seconds fit in a Duration.
BootedIsChosen ==
  /\ loop = "boot" =>
       /\ \E j \in DOMAIN cfg.entries : LeadsTo(cfg, typed, j) /\ target.ref = cfg.entries[j]
       /\ shown.cursor # 0 => target.ref = cfg.entries[shown.cursor]
       /\ image = "running" => options = Cmdline[target.ref] /\ payload.from = target.ref
  /\ cause = "auto" =>
       /\ target.ref = cfg.default /\ typed = <<>>
       /\ cfg.timeout * PerSecond < Half => now > cfg.timeout * PerSecond

\* "auto-boot the Default entry after the countdown expires" (menuLoop): a menu
\* that is armed and left alone boots, if ReadKeyStroke fails finitely often.
AutoBoots ==
  (loop = "render" /\ armed) ~> (loop = "boot" \/ typed # <<>> \/ keyq # <<>>)
=============================================================================
