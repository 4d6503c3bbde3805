------------------------------ MODULE NvConfig ------------------------------
(***************************************************************************)
(* The command station's configuration: the RAM image cs_config_mem, its   *)
(* delayed save to flash and its load at boot (src/protocol/               *)
(* lcc_interface.c and src/util/nv_storage.c).                             *)
(*                                                                         *)
(* The LCC task writes the image (space 0xFD, or the user name through     *)
(* 0xFB); a one-shot timer, run by the timer task on either core, copies   *)
(* it and rewrites the flash sector.  Both tasks run the same flush        *)
(* callback: the LCC task calls it for a factory reset.  Power may be lost *)
(* at any point.                                                           *)
(*                                                                         *)
(* The image is a function of the offsets that a decision of the code      *)
(* depends on, plus one byte of the user name.  Time is left out: an armed *)
(* timer may fire whenever the timer task is free.                         *)
(***************************************************************************)
EXTENDS Integers, FiniteSets

CONSTANTS
    Writes,         \* writes: space, address, count, and the value of each byte
    OldImages,      \* images an earlier firmware may have left in flash
    MaxOps,         \* bound: requests
    MaxFails,       \* bound: flash operations that fail
    MaxLosses       \* bound: losses of power

NAME == 0                   \* a byte of the user name
RAILCOM == 128
MAIN_LIMIT == 129           \* two bytes, high byte first
SIG_PIN == 133
FAULT_MAIN == 136
DISPLAY_ADDR == 145
MCP_SCK == 151              \* stands for the nine MCP2515 fields
VERSION == 156
Offsets == {NAME, RAILCOM, MAIN_LIMIT, MAIN_LIMIT + 1, SIG_PIN, FAULT_MAIN,
            DISPLAY_ADDR, MCP_SCK, VERSION}
Image == [Offsets -> 0..255]
ACDI_USER_SIZE == 128
UINT16_MAX == 65535
PIN_FAULT_A == 45
MCP2515_DEFAULT_SCK == 14

\* config_mem_init_defaults
Defaults == [o \in Offsets |->
    CASE o = NAME           -> 0
      [] o = RAILCOM        -> 1
      [] o = MAIN_LIMIT     -> 7
      [] o = MAIN_LIMIT + 1 -> 208
      [] o = SIG_PIN        -> 22
      [] o = FAULT_MAIN     -> PIN_FAULT_A
      [] o = DISPLAY_ADDR   -> 60
      [] o = MCP_SCK        -> MCP2515_DEFAULT_SCK
      [] o = VERSION        -> 1]
Zeroes == [o \in Offsets |-> 0]
Erased == [o \in Offsets |-> 255]
Request(space) == [space |-> space, addr |-> 0, count |-> 0, value |-> 0]
Requests == Writes \union {Request("update_complete"), Request("reset"), Request("reboot")}

ASSUME NvConfigAssumption ==
    /\ Writes \subseteq [space : {"config", "acdi"}, addr : Nat, count : Nat, value : 0..255]
    /\ OldImages \subseteq Image
    /\ MaxOps \in Nat /\ MaxFails \in Nat /\ MaxLosses \in Nat

VARIABLES
    cs_config_mem, cs_config_dirty,
    flash,              \* what the config sector holds
    armed,              \* flash_flush_timer is running
    pc,                 \* where the LCC and the timer task are
    page_buffer,        \* each task's copy of the image
    request,            \* the request the LCC task is at
    applied,            \* RailCom mode and main limit the hardware was given
    booted,             \* history: why the last boot was, "no" once a request came
    raced,              \* history: the image changed under a flush since the boot
    failed,             \* history: a flush has failed since the boot
    ops, fails, losses

history == <<booted, raced, failed>>
vars == <<cs_config_mem, cs_config_dirty, flash, armed, pc, page_buffer, request, applied,
          history, ops, fails, losses>>

Tasks == {"lcc", "timer"}

-----------------------------------------------------------------------------
(* Boot.                                                                   *)

main_limit(image) == image[MAIN_LIMIT] * 256 + image[MAIN_LIMIT + 1]

\* Mutant: the MCP2515 fields are not looked at.
seed_none(image) == image

\* Mutant: a missing pin is marked with -1.
seed_minus_one(image) == IF image[MCP_SCK] = 0 THEN [image EXCEPT ![MCP_SCK] = -1] ELSE image

\* Images from before the MCP2515 have zeroes in its fields.
seed_mcp(image) ==
    IF image[MCP_SCK] = 0 THEN [image EXCEPT ![MCP_SCK] = MCP2515_DEFAULT_SCK] ELSE image

\* Mutant: a pin the user set is moved too, on every boot.
migrate_always(image) == [image EXCEPT ![FAULT_MAIN] = (@ + 41) % 256, ![VERSION] = 1]

\* Version 0 had the fault pin at GPIO 4; a pin set by the user stays.
migrate(image) ==
    IF image[VERSION] >= 1 THEN image
    ELSE [image EXCEPT ![FAULT_MAIN] = IF @ = 4 THEN PIN_FAULT_A ELSE @, ![VERSION] = 1]

\* The image in RAM after a boot that finds this one in flash: defaults for an
\* erased or an incomplete one, else the migrations.
load_config(image) ==
    IF \/ image = Erased
       \/ main_limit(image) = 0 \/ image[SIG_PIN] = 0 \/ image[DISPLAY_ADDR] = 0
    THEN Defaults
    ELSE migrate(seed_mcp(image))

\* main: load, hand the values to the hardware, start the timer if the load
\* changed the image (each of its branches that changes it marks it dirty).
boot(why) ==
    LET image == load_config(flash) IN
    /\ cs_config_mem' = image
    /\ cs_config_dirty' = (image # flash)
    /\ armed' = (image # flash)
    /\ applied' = [railcom |-> image[RAILCOM] # 0, limit |-> main_limit(image)]
    /\ pc' = [t \in Tasks |-> "idle"]
    /\ page_buffer' = [t \in Tasks |-> Erased]
    /\ request' = Request("reboot")
    /\ raced' = FALSE /\ failed' = FALSE /\ booted' = why
    /\ UNCHANGED <<flash, ops, fails>>

\* While the sector is rewritten the other core is held and interrupts are off.
Running == \A t \in Tasks : pc[t] # "program"

power_loss ==
    /\ losses < MaxLosses
    /\ losses' = losses + 1
    /\ boot("loss")

-----------------------------------------------------------------------------
(* The image changes in RAM, under a memcpy of the other task or not.      *)

Flushing(t) == pc[t] \in {"copy", "enter", "program", "clear"}

\* A copy under way meets the change at one point: before it the bytes are of one
\* image, after it of the other.
Seen(t, image) ==
    LET Mix(S) == [o \in Offsets |-> IF o \in S THEN image[o] ELSE page_buffer[t][o]]
        Below(k) == {o \in Offsets : o < k}
    IN  IF pc[t] # "copy" THEN {page_buffer[t]}
        ELSE UNION {{Mix(Below(k)), Mix(Offsets \ Below(k))} : k \in Offsets}

change(image) ==
    /\ cs_config_mem' = image
    /\ \E b \in Seen("timer", image) : page_buffer' = [page_buffer EXCEPT !["timer"] = b]
    /\ raced' = (raced \/ Flushing("timer"))

-----------------------------------------------------------------------------
(* The LCC task.                                                           *)

Goto(t, l) == pc' = [pc EXCEPT ![t] = l]
At(t, l) == pc[t] = l /\ Running

\* A request: an early flush if anything is unsaved (xTimerChangePeriod starts
\* the timer), or the start of a write, of a factory reset or of a reboot, which
\* does not flush.
accept(w) ==
    /\ At("lcc", "idle")
    /\ ops < MaxOps /\ ops' = ops + 1
    /\ request' = w
    /\ booted' = "no"
    /\ armed' = (armed \/ (w.space = "update_complete" /\ cs_config_dirty))
    /\ Goto("lcc", CASE w.space \in {"config", "acdi"} -> "write"
                     [] w.space = "update_complete"   -> "idle"
                     [] w.space = "reset"             -> "memset"
                     [] w.space = "reboot"            -> "delay")
    /\ UNCHANGED <<cs_config_mem, cs_config_dirty, flash, page_buffer, applied, raced,
                   failed, fails, losses>>

\* The offsets a write lands on: in full for 0xFD, shifted past the read-only
\* version byte for 0xFB.
Range(w) == w.addr..w.addr + w.count - 1
Target(w) ==
    IF w.space = "config" THEN Offsets \intersect Range(w)
    ELSE {o \in Offsets : o + 1 \in Range(w) /\ o + 1 < ACDI_USER_SIZE}

\* config_write and acdi_user_write: the bytes ...
write_bytes ==
    /\ At("lcc", "write")
    /\ change([o \in Offsets |-> IF o \in Target(request) THEN request.value
                                 ELSE cs_config_mem[o]])
    /\ Goto("lcc", IF request.space = "acdi" /\ Target(request) = {} THEN "idle" ELSE "mark")
    /\ UNCHANGED <<cs_config_dirty, flash, armed, request, applied, booted, failed, ops, fails,
                   losses>>

\* Mutant: the timer is not started.
xTimerStart_missed == armed

xTimerStart == TRUE

\* ... then the mark ...
mark_config_dirty ==
    /\ At("lcc", "mark")
    /\ cs_config_dirty' = TRUE
    /\ armed' = xTimerStart
    /\ Goto("lcc", IF request.space = "config" THEN "apply" ELSE "idle")
    /\ UNCHANGED <<cs_config_mem, flash, page_buffer, request, applied, history, ops, fails,
                   losses>>

\* Mutant: only a write that starts at the field is noticed.
config_range_touches_start(w, field, field_len) == w.addr = field

config_range_touches(w, field, field_len) ==
    w.addr < field + field_len /\ w.addr + w.count > field

\* ... then what takes effect at once.
apply ==
    /\ At("lcc", "apply")
    /\ applied' = [railcom |-> IF config_range_touches(request, RAILCOM, 1)
                               THEN cs_config_mem[RAILCOM] # 0 ELSE applied.railcom,
                   limit   |-> IF config_range_touches(request, MAIN_LIMIT, 2)
                               THEN main_limit(cs_config_mem) ELSE applied.limit]
    /\ Goto("lcc", "idle")
    /\ UNCHANGED <<cs_config_mem, cs_config_dirty, flash, armed, page_buffer, request, history,
                   ops, fails, losses>>

\* memcfg_factory_reset_hook: memset, the defaults, the mark, and a flush.
reset_image ==
    /\ \/ At("lcc", "memset") /\ change(Zeroes) /\ Goto("lcc", "defaults")
       \/ At("lcc", "defaults") /\ change(Defaults) /\ Goto("lcc", "reset")
    /\ UNCHANGED <<cs_config_dirty, flash, armed, request, applied, booted, failed, ops, fails,
                   losses>>

reset_mark ==
    /\ At("lcc", "reset")
    /\ cs_config_dirty' = TRUE
    /\ Goto("lcc", "check")
    /\ UNCHANGED <<cs_config_mem, flash, armed, page_buffer, request, applied, history, ops, fails,
                   losses>>

watchdog_reboot ==
    /\ At("lcc", "delay")
    /\ boot(request.space)
    /\ UNCHANGED losses

-----------------------------------------------------------------------------
(* The flush callback, of either task.                                     *)

After(t) == IF t = "lcc" THEN "delay" ELSE "idle"

\* Nothing to do unless the image is dirty; else the copy begins.
check_dirty(t) ==
    /\ Goto(t, IF cs_config_dirty THEN "copy" ELSE After(t))
    /\ page_buffer' = IF cs_config_dirty THEN [page_buffer EXCEPT ![t] = cs_config_mem]
                      ELSE page_buffer
    /\ UNCHANGED <<cs_config_mem, cs_config_dirty, flash, request, applied, history, ops, fails,
                   losses>>

fire == At("timer", "idle") /\ armed /\ armed' = FALSE /\ check_dirty("timer")
reset_flush == At("lcc", "check") /\ check_dirty("lcc") /\ UNCHANGED armed

\* nv_storage_write: the copy is done ...
copied(t) ==
    /\ At(t, "copy")
    /\ Goto(t, "enter")
    /\ UNCHANGED <<cs_config_mem, cs_config_dirty, flash, armed, page_buffer, request, applied,
                   history, ops, fails, losses>>

\* ... the sector is erased and programmed with everything else held ...
flash_erase(t) ==
    /\ At(t, "enter")
    /\ flash' = Erased
    /\ Goto(t, "program")
    /\ UNCHANGED <<cs_config_mem, cs_config_dirty, armed, page_buffer, request, applied, history,
                   ops, fails, losses>>

flash_program(t) ==
    /\ pc[t] = "program"
    /\ flash' = page_buffer[t]
    /\ page_buffer' = [page_buffer EXCEPT ![t] = Erased]
    /\ Goto(t, "clear")
    /\ UNCHANGED <<cs_config_mem, cs_config_dirty, armed, request, applied, history, ops, fails,
                   losses>>

\* ... or there is no heap for the copy, or flash_safe_execute gives up.
flash_fails(t) ==
    /\ At(t, "copy") \/ At(t, "enter")
    /\ fails < MaxFails /\ fails' = fails + 1
    /\ failed' = TRUE
    /\ page_buffer' = [page_buffer EXCEPT ![t] = Erased]
    /\ Goto(t, After(t))
    /\ UNCHANGED <<cs_config_mem, cs_config_dirty, flash, armed, request, applied, booted, raced,
                   ops, losses>>

clear_dirty(t) ==
    /\ At(t, "clear")
    /\ cs_config_dirty' = FALSE
    /\ Goto(t, After(t))
    /\ UNCHANGED <<cs_config_mem, flash, armed, page_buffer, request, applied, history, ops, fails,
                   losses>>

-----------------------------------------------------------------------------

Init ==
    /\ flash \in OldImages
    /\ cs_config_mem = load_config(flash)
    /\ cs_config_dirty = (cs_config_mem # flash)
    /\ armed = cs_config_dirty
    /\ applied = [railcom |-> cs_config_mem[RAILCOM] # 0, limit |-> main_limit(cs_config_mem)]
    /\ pc = [t \in Tasks |-> "idle"]
    /\ page_buffer = [t \in Tasks |-> Erased]
    /\ request = Request("reboot")
    /\ booted = "reboot" /\ raced = FALSE /\ failed = FALSE
    /\ ops = 0 /\ fails = 0 /\ losses = 0

lcc_task == reset_flush \/ write_bytes \/ mark_config_dirty \/ apply \/ reset_image \/ reset_mark
            \/ watchdog_reboot
flush(t) == copied(t) \/ flash_erase(t) \/ flash_program(t) \/ flash_fails(t) \/ clear_dirty(t)

Next ==
    \/ \E w \in Requests : accept(w)
    \/ lcc_task
    \/ fire
    \/ \E t \in Tasks : flush(t)
    \/ power_loss

Spec == Init /\ [][Next]_vars

\* Both tasks are scheduled and a running timer expires.
Fairness == WF_vars(lcc_task) /\ WF_vars(fire) /\ \A t \in Tasks : WF_vars(flush(t))

FairSpec == Spec /\ Fairness

-----------------------------------------------------------------------------

TypeOK ==
    /\ cs_config_mem \in Image /\ flash \in Image
    /\ page_buffer \in [Tasks -> Image]
    /\ cs_config_dirty \in BOOLEAN /\ armed \in BOOLEAN
    /\ pc["timer"] \in {"idle", "copy", "enter", "program", "clear"}
    /\ pc["lcc"] \in {"idle", "write", "mark", "apply", "memset", "defaults", "reset", "check", "delay",
                      "copy", "enter", "program", "clear"}
    /\ request \in Requests
    /\ applied \in [railcom : BOOLEAN, limit : 0..UINT16_MAX]
    /\ booted \in {"no", "loss", "reset", "reboot"}
    /\ ops \in 0..MaxOps /\ fails \in 0..MaxFails /\ losses \in 0..MaxLosses

\* Whatever a flush, a torn copy or a loss of power left in the sector, a boot ends
\* with an image the station can run on.
BootIsUsable ==
    booted # "no" =>
        /\ main_limit(cs_config_mem) # 0
        /\ \A o \in {SIG_PIN, DISPLAY_ADDR, MCP_SCK, VERSION} : cs_config_mem[o] # 0

\* Saving what a boot loaded and booting again gives the same image: no migration
\* is applied twice or undoes another.
MigratesOnce == load_config(load_config(flash)) = load_config(flash)

\* Between requests the hardware has the RailCom mode and the current limit that
\* the image says.
HardwareFollows ==
    pc["lcc"] = "idle" => applied = [railcom |-> cs_config_mem[RAILCOM] # 0,
                                     limit   |-> main_limit(cs_config_mem)]

\* An unsaved image is saved, unless a flush failed or the image was changed
\* under one.
UnsavedIsSaved == cs_config_dirty ~> (flash = cs_config_mem \/ raced \/ failed)

\* What a write says: "Writes mark dirty and kick the flash flush timer"; once
\* the timer has run the image is saved, if no flush failed.
WritesReachFlash ==
    (~armed /\ ~failed /\ \A t \in Tasks : pc[t] = "idle") => flash = cs_config_mem

\* The factory reset: "Synchronous flush before reboot so the defaults survive."
DefaultsSurvive == booted = "reset" /\ fails = 0 => cs_config_mem = Defaults

=============================================================================
