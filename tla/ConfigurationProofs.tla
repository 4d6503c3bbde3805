------------------------ MODULE ConfigurationProofs ------------------------
(***************************************************************************)
(* Proofs about MC_Configuration, for every value of its constants: the    *)
(* configuration image (NvConfig) and the memory configuration requests    *)
(* (MemConfig).                                                            *)
(***************************************************************************)
EXTENDS MC_Configuration, TLAPS

-----------------------------------------------------------------------------
(* The image a boot makes *)

\* What the station needs of an image.
Usable(image) ==
    /\ main_limit(image) # 0
    /\ \A o \in {SIG_PIN, DISPLAY_ADDR, MCP_SCK, VERSION} : image[o] # 0

\* The offsets are nine different numbers.
LEMMA OffsetFacts ==
    /\ NAME \in Offsets /\ RAILCOM \in Offsets /\ MAIN_LIMIT \in Offsets
    /\ MAIN_LIMIT + 1 \in Offsets /\ SIG_PIN \in Offsets /\ FAULT_MAIN \in Offsets
    /\ DISPLAY_ADDR \in Offsets /\ MCP_SCK \in Offsets /\ VERSION \in Offsets
BY DEF Offsets

LEMMA OffsetValues ==
    /\ NAME = 0 /\ RAILCOM = 128 /\ MAIN_LIMIT = 129 /\ MAIN_LIMIT + 1 = 130 /\ SIG_PIN = 133
    /\ FAULT_MAIN = 136 /\ DISPLAY_ADDR = 145 /\ MCP_SCK = 151 /\ VERSION = 156
BY DEF NAME, RAILCOM, MAIN_LIMIT, SIG_PIN, FAULT_MAIN, DISPLAY_ADDR, MCP_SCK, VERSION

\* The defaults, byte by byte.
LEMMA DefaultValues ==
    /\ Defaults \in Image
    /\ Defaults[MAIN_LIMIT] = 7 /\ Defaults[MAIN_LIMIT + 1] = 208 /\ Defaults[SIG_PIN] = 22
    /\ Defaults[DISPLAY_ADDR] = 60 /\ Defaults[MCP_SCK] = 14 /\ Defaults[VERSION] = 1
<1> DEFINE val(o) ==
        CASE o = NAME           -> 0
          [] o = RAILCOM        -> 1
          [] o = MAIN_LIMIT     -> 7
          [] o = MAIN_LIMIT + 1 -> 208
          [] o = SIG_PIN        -> 22
          [] o = FAULT_MAIN     -> PIN_FAULT_A
          [] o = DISPLAY_ADDR   -> 60
          [] o = MCP_SCK        -> MCP2515_DEFAULT_SCK
          [] o = VERSION        -> 1
<1>1. Defaults = [o \in Offsets |-> val(o)]
  BY DEF Defaults
<1>2. /\ val(NAME) = 0 /\ val(RAILCOM) = 1 /\ val(MAIN_LIMIT) = 7 /\ val(MAIN_LIMIT + 1) = 208
      /\ val(SIG_PIN) = 22 /\ val(FAULT_MAIN) = 45 /\ val(DISPLAY_ADDR) = 60
      /\ val(MCP_SCK) = 14 /\ val(VERSION) = 1
  BY OffsetValues DEF PIN_FAULT_A, MCP2515_DEFAULT_SCK
<1> HIDE DEF val
<1>3. ASSUME NEW o \in Offsets PROVE val(o) \in 0..255
  <2>1. \/ o = NAME \/ o = RAILCOM \/ o = MAIN_LIMIT \/ o = MAIN_LIMIT + 1 \/ o = SIG_PIN
        \/ o = FAULT_MAIN \/ o = DISPLAY_ADDR \/ o = MCP_SCK \/ o = VERSION
    BY DEF Offsets
  <2>2. val(o) \in {0, 1, 7, 208, 22, 45, 60, 14}
    BY <1>2, <2>1
  <2>3. QED  BY <2>2
<1>4. Defaults \in Image
  BY <1>1, <1>3 DEF Image
<1>5. QED  BY <1>1, <1>2, <1>4, OffsetFacts

\* An image of zeroes, and an erased sector.
LEMMA BlankImages == Zeroes \in Image /\ Erased \in Image /\ Erased[VERSION] = 255 /\ Erased[MCP_SCK] = 255
BY OffsetFacts DEF Zeroes, Erased, Image

\* A usable image is loaded as it is.
LEMMA LoadKeeps ==
    ASSUME NEW image \in Image, image # Erased, Usable(image)
    PROVE  load_config(image) = image
<1>1. /\ main_limit(image) # 0 /\ image[SIG_PIN] # 0 /\ image[DISPLAY_ADDR] # 0
      /\ image[MCP_SCK] # 0 /\ image[VERSION] # 0
  BY DEF Usable
<1>2. image[VERSION] >= 1
  BY <1>1, OffsetFacts DEF Image
<1>3. QED  BY <1>1, <1>2 DEF load_config, seed_mcp, migrate

\* Whatever is in flash, a boot has a usable image, which loads as it is.
LEMMA LoadUsable ==
    ASSUME NEW image \in Image
    PROVE  LET loaded == load_config(image)
           IN  loaded \in Image /\ loaded # Erased /\ Usable(loaded)
<1> DEFINE loaded == load_config(image)
<1> SUFFICES loaded \in Image /\ loaded # Erased /\ Usable(loaded)
  OBVIOUS
<1>1. CASE \/ image = Erased
           \/ main_limit(image) = 0 \/ image[SIG_PIN] = 0 \/ image[DISPLAY_ADDR] = 0
  <2>1. loaded = Defaults
    BY <1>1 DEF load_config
  <2>2. main_limit(Defaults) = 2000
    BY DefaultValues DEF main_limit
  <2>3. QED  BY <2>1, <2>2, DefaultValues, BlankImages DEF Usable
<1>2. CASE ~(\/ image = Erased
             \/ main_limit(image) = 0 \/ image[SIG_PIN] = 0 \/ image[DISPLAY_ADDR] = 0)
  <2> DEFINE seeded == seed_mcp(image)
  <2>1. loaded = migrate(seeded)
    BY <1>2 DEF load_config
  <2>2. /\ seeded \in Image /\ seeded[MCP_SCK] # 0
        /\ \A o \in Offsets \ {MCP_SCK} : seeded[o] = image[o]
        /\ seeded # image => seeded[MCP_SCK] = 14
    BY OffsetFacts DEF seed_mcp, Image, MCP2515_DEFAULT_SCK
  <2> HIDE DEF seeded, loaded
  <2>3. PIN_FAULT_A \in 0..255 /\ 1 \in 0..255
    BY DEF PIN_FAULT_A
  <2>4. CASE seeded[VERSION] >= 1
    <3>1. loaded = seeded
      BY <2>1, <2>4 DEF migrate
    <3>2. loaded # Erased
      <4>1. CASE seeded = image
        BY <1>2, <3>1, <4>1
      <4>2. CASE seeded # image
        BY <2>2, <3>1, <4>2, BlankImages
      <4>3. QED  BY <4>1, <4>2
    <3>3. main_limit(loaded) = main_limit(image)
      BY <2>2, <3>1, OffsetFacts, OffsetValues DEF main_limit
    <3>4. loaded[SIG_PIN] = image[SIG_PIN] /\ loaded[DISPLAY_ADDR] = image[DISPLAY_ADDR]
      BY <2>2, <3>1, OffsetFacts, OffsetValues
    <3>5. loaded[VERSION] # 0
      BY <2>2, <2>4, <3>1
    <3>6. QED  BY <1>2, <2>2, <3>1, <3>2, <3>3, <3>4, <3>5 DEF Usable
  <2>5. CASE ~(seeded[VERSION] >= 1)
    <3>1. loaded = [seeded EXCEPT ![FAULT_MAIN] = IF seeded[FAULT_MAIN] = 4 THEN PIN_FAULT_A
                                                 ELSE seeded[FAULT_MAIN],
                                  ![VERSION] = 1]
      BY <2>1, <2>5 DEF migrate
    <3>2. /\ loaded \in Image /\ loaded[VERSION] = 1
          /\ \A o \in Offsets \ {FAULT_MAIN, VERSION} : loaded[o] = seeded[o]
      BY <2>2, <2>3, <3>1, OffsetFacts DEF Image
    <3>3. main_limit(loaded) = main_limit(image)
      BY <2>2, <3>2, OffsetFacts, OffsetValues DEF main_limit
    <3>4. /\ loaded[SIG_PIN] = image[SIG_PIN] /\ loaded[DISPLAY_ADDR] = image[DISPLAY_ADDR]
          /\ loaded[MCP_SCK] = seeded[MCP_SCK]
      BY <2>2, <3>2, OffsetFacts, OffsetValues
    <3>5. loaded # Erased
      BY <3>2, BlankImages
    <3>6. QED  BY <1>2, <2>2, <3>2, <3>3, <3>4, <3>5 DEF Usable
  <2>6. QED  BY <2>4, <2>5
<1>3. QED  BY <1>1, <1>2

-----------------------------------------------------------------------------
(* NvConfig *)

FlushPcs == {"idle", "copy", "enter", "program", "clear"}
LccPcs == {"idle", "write", "mark", "apply", "memset", "defaults", "reset", "check", "delay",
           "copy", "enter", "program", "clear"}

\* Where the LCC task is in a write, and where in a reset or a reboot.
Writing == {"write", "mark", "apply"}
Restarting == {"memset", "defaults", "reset", "check", "delay", "copy", "enter", "program", "clear"}

\* The hardware has what the image says.
Followed ==
    applied = [railcom |-> cs_config_mem[RAILCOM] # 0, limit |-> main_limit(cs_config_mem)]

Stage ==
    /\ pc["lcc"] \in Writing => request \in Writes
    /\ pc["lcc"] = "apply" => request.space = "config"
    /\ pc["lcc"] \in Restarting => request \in {Request("reset"), Request("reboot")}

Booted == booted # "no" => pc["lcc"] = "idle" /\ Usable(cs_config_mem)

\* In a write of the configuration, the settings it does not touch.
Hardware ==
    /\ pc["lcc"] \in {"idle", "write"} => Followed
    /\ pc["lcc"] = "mark" /\ request.space = "acdi" => Followed
    /\ pc["lcc"] \in {"mark", "apply"} /\ request.space = "config" =>
          /\ ~config_range_touches(request, RAILCOM, 1)
                => applied.railcom = (cs_config_mem[RAILCOM] # 0)
          /\ ~config_range_touches(request, MAIN_LIMIT, 2)
                => applied.limit = main_limit(cs_config_mem)

\* Limits of the main track, in two bytes.
Limits == 0..UINT16_MAX

ImageTypes ==
    /\ cs_config_mem \in Image /\ flash \in Image
    /\ page_buffer \in [Tasks -> Image]
    /\ cs_config_dirty \in BOOLEAN /\ armed \in BOOLEAN
    /\ pc \in [Tasks -> LccPcs] /\ pc["timer"] \in FlushPcs
    /\ request \in Requests
    /\ applied \in [railcom : BOOLEAN, limit : Limits]
    /\ booted \in {"no", "loss", "reset", "reboot"}
    /\ ops \in 0..MaxOps /\ fails \in 0..MaxFails /\ losses \in 0..MaxLosses

ImageInv == ImageTypes /\ Stage /\ Booted /\ Hardware

\* A step of the timer task, or one that only starts the timer.
LEMMA TimerStep ==
    ASSUME Stage, Booted, Hardware,
           UNCHANGED <<cs_config_mem, request, applied, booted>>, pc'["lcc"] = pc["lcc"]
    PROVE  Stage' /\ Booted' /\ Hardware'
BY DEF Stage, Booted, Hardware, Followed, Usable

\* A step of a reset or a reboot that goes on with it.
LEMMA RestartStep ==
    ASSUME Stage, Booted, UNCHANGED <<request, booted>>,
           pc["lcc"] \in Restarting, pc'["lcc"] \in Restarting
    PROVE  Stage' /\ Booted' /\ Hardware'
BY DEF Stage, Booted, Hardware, Restarting, Writing

\* A limit fits its two bytes.
LEMMA LimitType ==
    ASSUME NEW image \in Image
    PROVE  main_limit(image) \in Limits
<1> DEFINE a == image[MAIN_LIMIT]
           b == image[MAIN_LIMIT + 1]
<1>1. a \in 0..255 /\ b \in 0..255
  BY OffsetFacts DEF Image
<1>2. main_limit(image) = a * 256 + b
  BY DEF main_limit
<1>a. UINT16_MAX = 65535
  BY DEF UINT16_MAX
<1>c. UINT16_MAX \in Nat
  BY DEF UINT16_MAX
<1> HIDE DEF a, b
<1>3. a \in Int /\ 0 <= a /\ a <= 255 /\ b \in Int /\ 0 <= b /\ b <= 255
  BY ONLY <1>1
<1>4. a * 256 + b \in Nat
  BY ONLY <1>3
<1>b. a * 256 + b <= UINT16_MAX
  BY ONLY <1>3, <1>a
<1>5. a * 256 + b \in Limits
  BY ONLY <1>4, <1>b, <1>c DEF Limits
<1>6. QED  BY ONLY <1>2, <1>5, Zenon

\* A copy that meets a change of the image is still an image.
LEMMA SeenType ==
    ASSUME ImageTypes, NEW image \in Image, NEW b \in Seen("timer", image)
    PROVE  b \in Image
<1>0. page_buffer["timer"] \in Image
  BY DEF ImageTypes, Tasks
<1> DEFINE Mix(S) == [o \in Offsets |-> IF o \in S THEN image[o] ELSE page_buffer["timer"][o]]
           Below(k) == {o \in Offsets : o < k}
<1>1. \A S : Mix(S) \in Image
  BY <1>0 DEF Image
<1>2. CASE pc["timer"] # "copy"
  BY <1>0, <1>2 DEF Seen
<1>3. CASE pc["timer"] = "copy"
  <2>1. b \in UNION {{Mix(Below(k)), Mix(Offsets \ Below(k))} : k \in Offsets}
    BY <1>3 DEF Seen
  <2>2. \E S : b = Mix(S)
    BY <2>1
  <2>3. QED  BY <1>1, <2>2
<1>4. QED  BY <1>2, <1>3

\* The image changes under the timer task.
LEMMA ChangeTypes ==
    ASSUME ImageTypes, NEW image \in Image, change(image)
    PROVE  cs_config_mem' \in Image /\ page_buffer' \in [Tasks -> Image]
<1>1. PICK b \in Seen("timer", image) : page_buffer' = [page_buffer EXCEPT !["timer"] = b]
  BY DEF change
<1>2. b \in Image
  BY SeenType
<1>3. cs_config_mem' = image
  BY DEF change
<1>4. page_buffer \in [Tasks -> Image]
  BY DEF ImageTypes
<1>5. QED  BY <1>1, <1>2, <1>3, <1>4

\* A boot makes everything anew.
LEMMA BootStep ==
    ASSUME ImageTypes, NEW why \in {"loss", "reset", "reboot"}, boot(why), losses' \in 0..MaxLosses
    PROVE  ImageInv'
<1> DEFINE image == load_config(flash)
<1>0. flash \in Image
  BY DEF ImageTypes
<1>1. image \in Image /\ Usable(image)
  BY <1>0, LoadUsable
<1>l. main_limit(image) \in Limits
  BY <1>1, LimitType
<1>2. /\ cs_config_mem' = image /\ cs_config_dirty' = (image # flash) /\ armed' = (image # flash)
      /\ applied' = [railcom |-> image[RAILCOM] # 0, limit |-> main_limit(image)]
      /\ pc' = [t \in Tasks |-> "idle"] /\ page_buffer' = [t \in Tasks |-> Erased]
      /\ request' = Request("reboot") /\ booted' = why
      /\ UNCHANGED <<flash, ops, fails>>
  BY DEF boot
<1> HIDE DEF image
<1>3. pc'["lcc"] = "idle" /\ pc'["timer"] = "idle" /\ pc' \in [Tasks -> LccPcs]
  BY <1>2 DEF Tasks, LccPcs
<1>4. (image # flash) \in BOOLEAN /\ (image[RAILCOM] # 0) \in BOOLEAN
  BY Zenon
<1>5. page_buffer' \in [Tasks -> Image] /\ request' \in Requests
  BY <1>2, BlankImages DEF Requests
<1>6. applied' \in [railcom : BOOLEAN, limit : Limits]
  BY <1>2, <1>4, <1>l
<1>a. /\ flash' \in Image /\ ops' \in 0..MaxOps /\ fails' \in 0..MaxFails
      /\ booted' \in {"no", "loss", "reset", "reboot"}
  BY <1>2 DEF ImageTypes
<1>b. cs_config_dirty' \in BOOLEAN /\ armed' \in BOOLEAN /\ cs_config_mem' \in Image
  BY <1>1, <1>2, <1>4
<1>7. ImageTypes'
  BY <1>3, <1>5, <1>6, <1>a, <1>b, Zenon DEF ImageTypes, FlushPcs
<1>c. Usable(cs_config_mem)' /\ Followed'
  BY <1>1, <1>2, Zenon DEF Usable, Followed, main_limit
<1>8. Stage' /\ Booted'
  BY <1>3, <1>c DEF Stage, Booted, Writing, Restarting
<1>9. Hardware'
  BY <1>3, <1>c DEF Hardware
<1>10. QED  BY <1>7, <1>8, <1>9 DEF ImageInv

\* A move of one task leaves the other where it is.
LEMMA GotoType ==
    ASSUME ImageTypes, NEW t \in Tasks, NEW l \in LccPcs, Goto(t, l),
           t = "timer" => l \in FlushPcs
    PROVE  /\ pc' \in [Tasks -> LccPcs] /\ pc'["timer"] \in FlushPcs
           /\ pc'[t] = l /\ (t = "timer" => pc'["lcc"] = pc["lcc"])
BY DEF ImageTypes, Goto, Tasks

\* The fields of a write.
LEMMA WriteFields ==
    ASSUME NEW w \in Writes
    PROVE  /\ w.space \in {"config", "acdi"} /\ w.addr \in Nat /\ w.count \in Nat
           /\ w.value \in 0..255
BY NvConfigAssumption

\* A request is taken.
LEMMA AcceptStep ==
    ASSUME ImageInv, NEW w \in Requests, accept(w)
    PROVE  ImageInv'
<1>t. ImageTypes /\ Stage /\ Booted /\ Hardware
  BY DEF ImageInv
<1>1. /\ pc["lcc"] = "idle" /\ request' = w /\ booted' = "no" /\ ops < MaxOps /\ ops' = ops + 1
      /\ armed' = (armed \/ (w.space = "update_complete" /\ cs_config_dirty))
      /\ UNCHANGED <<cs_config_mem, cs_config_dirty, flash, page_buffer, applied, fails, losses>>
  BY DEF accept, At
<1>2. Followed
  BY <1>t, <1>1 DEF Hardware
<1>3. armed' \in BOOLEAN
  BY <1>1, Zenon
<1>4. ops' \in 0..MaxOps
  BY <1>t, <1>1, NvConfigAssumption DEF ImageTypes
<1>5. ASSUME NEW l \in {"idle", "write", "memset", "delay"}, Goto("lcc", l)
      PROVE  ImageTypes' /\ pc'["lcc"] = l
  <2>1. "lcc" \in Tasks /\ l \in LccPcs /\ "lcc" # "timer"
    BY DEF Tasks, LccPcs
  <2>2. pc' \in [Tasks -> LccPcs] /\ pc'["timer"] \in FlushPcs /\ pc'["lcc"] = l
    BY <1>t, <1>5, <2>1, GotoType
  <2>3. QED  BY <1>t, <1>1, <1>3, <1>4, <2>2 DEF ImageTypes
<1>6. CASE w \in Writes
  <2>1. w.space \in {"config", "acdi"}
    BY <1>6, WriteFields
  <2>2. Goto("lcc", "write")
    BY <2>1 DEF accept
  <2>3. ImageTypes' /\ pc'["lcc"] = "write"
    BY <1>5, <2>2
  <2>4. Followed'
    BY <1>1, <1>2 DEF Followed, main_limit
  <2>5. QED
    BY <1>1, <1>6, <2>3, <2>4 DEF ImageInv, Stage, Booted, Hardware, Writing, Restarting
<1>7. CASE w = Request("update_complete")
  <2>1. Goto("lcc", "idle")
    BY <1>7 DEF accept, Request
  <2>2. ImageTypes' /\ pc'["lcc"] = "idle"
    BY <1>5, <2>1
  <2>3. Followed'
    BY <1>1, <1>2 DEF Followed, main_limit
  <2>4. QED
    BY <1>1, <2>2, <2>3 DEF ImageInv, Stage, Booted, Hardware, Writing, Restarting
<1>8. CASE w \in {Request("reset"), Request("reboot")}
  <2>1. PICK l \in {"memset", "delay"} : Goto("lcc", l)
    BY <1>8 DEF accept, Request
  <2>2. ImageTypes' /\ pc'["lcc"] = l
    BY <1>5, <2>1
  <2>3. QED
    BY <1>1, <1>8, <2>2 DEF ImageInv, Stage, Booted, Hardware, Writing, Restarting
<1>9. QED  BY <1>6, <1>7, <1>8 DEF Requests

\* A step of the LCC task to l that leaves the flash alone.
LEMMA LccTypes ==
    ASSUME ImageTypes, NEW l \in LccPcs, Goto("lcc", l),
           cs_config_mem' \in Image, page_buffer' \in [Tasks -> Image],
           cs_config_dirty' \in BOOLEAN, armed' \in BOOLEAN,
           applied' \in [railcom : BOOLEAN, limit : Limits],
           UNCHANGED <<flash, request, booted, ops, fails, losses>>
    PROVE  ImageTypes' /\ pc'["lcc"] = l
<1>1. "lcc" \in Tasks /\ "lcc" # "timer"
  BY DEF Tasks
<1>2. pc' \in [Tasks -> LccPcs] /\ pc'["timer"] \in FlushPcs /\ pc'["lcc"] = l
  BY <1>1, GotoType
<1>3. QED  BY <1>2 DEF ImageTypes

\* config_write and acdi_user_write: the settings outside the range stay.
LEMMA WriteStep ==
    ASSUME ImageInv, write_bytes
    PROVE  ImageInv'
<1>t. ImageTypes /\ Stage /\ Booted /\ Hardware
  BY DEF ImageInv
<1> DEFINE image == [o \in Offsets |-> IF o \in Target(request) THEN request.value
                                       ELSE cs_config_mem[o]]
           l == IF request.space = "acdi" /\ Target(request) = {} THEN "idle" ELSE "mark"
<1>1. /\ pc["lcc"] = "write" /\ change(image) /\ Goto("lcc", l)
      /\ UNCHANGED <<cs_config_dirty, flash, armed, request, applied, booted, ops, fails, losses>>
  BY DEF write_bytes, At
<1>2. /\ request \in Writes /\ request.space \in {"config", "acdi"} /\ request.addr \in Nat
      /\ request.count \in Nat /\ request.value \in 0..255
  BY <1>t, <1>1, WriteFields DEF Stage, Writing
<1>3. Followed /\ booted = "no"
  BY <1>t, <1>1 DEF Hardware, Booted
<1>4. image \in Image /\ cs_config_mem \in Image
  BY <1>t, <1>2 DEF Image, ImageTypes
<1>5. \A o \in Offsets \ Target(request) : image[o] = cs_config_mem[o]
  OBVIOUS
<1>6. cs_config_mem' = image
  BY <1>1 DEF change
<1>7. cs_config_mem' \in Image /\ page_buffer' \in [Tasks -> Image]
  BY <1>t, <1>1, <1>4, ChangeTypes
<1>8. l \in LccPcs
  BY DEF LccPcs
<1> HIDE DEF image
<1>9. ImageTypes' /\ pc'["lcc"] = l
  <2>1. /\ cs_config_dirty' \in BOOLEAN /\ armed' \in BOOLEAN
        /\ applied' \in [railcom : BOOLEAN, limit : Limits]
    BY <1>t, <1>1 DEF ImageTypes
  <2>2. QED  BY <1>t, <1>1, <1>7, <1>8, <2>1, LccTypes
<1>10. Stage'
  BY <1>1, <1>2, <1>9 DEF Stage, Writing, Restarting
<1>11. Booted'
  BY <1>1, <1>3 DEF Booted
<1>o. RAILCOM = 128 /\ MAIN_LIMIT = 129 /\ MAIN_LIMIT + 1 = 130
  BY OffsetValues
<1>12. CASE request.space = "acdi"
  <2>1. \A o \in Target(request) : o + 1 < 128
    BY <1>12 DEF Target, ACDI_USER_SIZE
  <2>2. RAILCOM \notin Target(request) /\ MAIN_LIMIT \notin Target(request)
        /\ MAIN_LIMIT + 1 \notin Target(request)
    BY <1>o, <2>1
  <2>3. /\ cs_config_mem'[RAILCOM] = cs_config_mem[RAILCOM]
        /\ cs_config_mem'[MAIN_LIMIT] = cs_config_mem[MAIN_LIMIT]
        /\ cs_config_mem'[MAIN_LIMIT + 1] = cs_config_mem[MAIN_LIMIT + 1]
    BY <1>5, <1>6, <2>2, OffsetFacts
  <2>4. Followed'
    BY <1>1, <1>3, <2>3, Zenon DEF Followed, main_limit
  <2>5. Hardware'
    BY <1>1, <1>9, <1>12, <2>4 DEF Hardware
  <2>6. QED  BY <1>9, <1>10, <1>11, <2>5 DEF ImageInv
<1>13. CASE request.space = "config"
  <2>1. \A o \in Target(request) : o \in request.addr..request.addr + request.count - 1
    BY <1>13 DEF Target, Range
  <2>2. /\ ~config_range_touches(request, RAILCOM, 1) => RAILCOM \notin Target(request)
        /\ ~config_range_touches(request, MAIN_LIMIT, 2)
              => MAIN_LIMIT \notin Target(request) /\ MAIN_LIMIT + 1 \notin Target(request)
    BY <1>2, <1>o, <2>1 DEF config_range_touches
  <2>3. /\ ~config_range_touches(request, RAILCOM, 1)
              => cs_config_mem'[RAILCOM] = cs_config_mem[RAILCOM]
        /\ ~config_range_touches(request, MAIN_LIMIT, 2)
              => /\ cs_config_mem'[MAIN_LIMIT] = cs_config_mem[MAIN_LIMIT]
                 /\ cs_config_mem'[MAIN_LIMIT + 1] = cs_config_mem[MAIN_LIMIT + 1]
    BY <1>5, <1>6, <2>2, OffsetFacts
  <2>4. applied.railcom = (cs_config_mem[RAILCOM] # 0) /\ applied.limit = main_limit(cs_config_mem)
    BY <1>3 DEF Followed
  <2>5. pc'["lcc"] = "mark"
    BY <1>9, <1>13
  <2>6. /\ ~config_range_touches(request, RAILCOM, 1)
              => applied.railcom = (cs_config_mem'[RAILCOM] # 0)
        /\ ~config_range_touches(request, MAIN_LIMIT, 2)
              => applied.limit = main_limit(cs_config_mem')
    BY <2>3, <2>4 DEF main_limit
  <2>7. Hardware'
    BY <1>1, <1>13, <2>5, <2>6 DEF Hardware, config_range_touches, main_limit
  <2>8. QED  BY <1>9, <1>10, <1>11, <2>7 DEF ImageInv
<1>14. QED  BY <1>2, <1>12, <1>13

\* The mark, and what takes effect at once.
LEMMA ApplyStep ==
    ASSUME ImageInv, mark_config_dirty \/ apply
    PROVE  ImageInv'
<1>t. ImageTypes /\ Stage /\ Booted /\ Hardware
  BY DEF ImageInv
<1>m. cs_config_mem \in Image /\ page_buffer \in [Tasks -> Image] /\ armed \in BOOLEAN
      /\ cs_config_dirty \in BOOLEAN /\ applied \in [railcom : BOOLEAN, limit : Limits]
  BY <1>t DEF ImageTypes
<1>1. CASE mark_config_dirty
  <2> DEFINE l == IF request.space = "config" THEN "apply" ELSE "idle"
  <2>1. /\ pc["lcc"] = "mark" /\ cs_config_dirty' = TRUE /\ armed' = TRUE /\ Goto("lcc", l)
        /\ UNCHANGED <<cs_config_mem, flash, page_buffer, request, applied, booted, ops, fails,
                       losses>>
    BY <1>1 DEF mark_config_dirty, At, xTimerStart, history
  <2>2. l \in LccPcs
    BY DEF LccPcs
  <2>3. ImageTypes' /\ pc'["lcc"] = l
    BY <1>t, <1>m, <2>1, <2>2, LccTypes
  <2>4. request \in Writes /\ request.space \in {"config", "acdi"} /\ booted = "no"
    BY <1>t, <2>1, WriteFields DEF Stage, Writing, Booted
  <2>5. Stage' /\ Booted'
    BY <2>1, <2>3, <2>4 DEF Stage, Booted, Writing, Restarting
  <2>6. Hardware'
    BY <1>t, <2>1, <2>3, <2>4 DEF Hardware, Followed, main_limit, config_range_touches
  <2>7. QED  BY <2>3, <2>5, <2>6 DEF ImageInv
<1>2. CASE apply
  <2> DEFINE rc == IF config_range_touches(request, RAILCOM, 1)
                   THEN cs_config_mem[RAILCOM] # 0 ELSE applied.railcom
             lim == IF config_range_touches(request, MAIN_LIMIT, 2)
                    THEN main_limit(cs_config_mem) ELSE applied.limit
  <2>1. /\ pc["lcc"] = "apply" /\ Goto("lcc", "idle") /\ applied' = [railcom |-> rc, limit |-> lim]
        /\ UNCHANGED <<cs_config_mem, cs_config_dirty, flash, armed, page_buffer, request, booted,
                       ops, fails, losses>>
    BY <1>2 DEF apply, At, history
  <2>2. request.space = "config" /\ booted = "no"
    BY <1>t, <2>1 DEF Stage, Booted
  <2>3. rc = (cs_config_mem[RAILCOM] # 0) /\ lim = main_limit(cs_config_mem)
    BY <1>t, <2>1, <2>2 DEF Hardware
  <2>4. Followed'
    <3>1. applied' = [railcom |-> cs_config_mem[RAILCOM] # 0, limit |-> main_limit(cs_config_mem)]
      BY <2>1, <2>3, Zenon
    <3>2. QED  BY <2>1, <3>1, Zenon DEF Followed, main_limit
  <2> HIDE DEF rc, lim
  <2>5. applied' \in [railcom : BOOLEAN, limit : Limits]
    <3>1. main_limit(cs_config_mem) \in Limits
      BY <1>m, LimitType
    <3>2. (cs_config_mem[RAILCOM] # 0) \in BOOLEAN
      BY Zenon
    <3>3. QED  BY <2>1, <2>3, <3>1, <3>2
  <2>6. "idle" \in LccPcs
    BY DEF LccPcs
  <2>7. ImageTypes' /\ pc'["lcc"] = "idle"
    BY <1>t, <1>m, <2>1, <2>5, <2>6, LccTypes
  <2>8. Stage' /\ Booted' /\ Hardware'
    BY <2>1, <2>2, <2>4, <2>7 DEF Stage, Booted, Hardware, Writing, Restarting
  <2>9. QED  BY <2>7, <2>8 DEF ImageInv
<1>3. QED  BY <1>1, <1>2

\* The factory reset, up to its flush.
LEMMA ResetStep ==
    ASSUME ImageInv, reset_image \/ reset_mark
    PROVE  ImageInv'
<1>t. ImageTypes /\ Stage /\ Booted /\ Hardware
  BY DEF ImageInv
<1>m. cs_config_mem \in Image /\ page_buffer \in [Tasks -> Image] /\ armed \in BOOLEAN
      /\ cs_config_dirty \in BOOLEAN /\ applied \in [railcom : BOOLEAN, limit : Limits]
  BY <1>t DEF ImageTypes
<1>1. CASE reset_image
  <2>1. UNCHANGED <<cs_config_dirty, flash, armed, request, applied, booted, ops, fails, losses>>
    BY <1>1 DEF reset_image
  <2>2. PICK image \in Image, l \in {"defaults", "reset"} :
            change(image) /\ Goto("lcc", l) /\ pc["lcc"] \in {"memset", "defaults"}
    BY <1>1, BlankImages, DefaultValues DEF reset_image, At
  <2>3. l \in LccPcs
    BY DEF LccPcs
  <2>4. cs_config_mem' \in Image /\ page_buffer' \in [Tasks -> Image]
    BY <1>t, <2>2, ChangeTypes
  <2>5. ImageTypes' /\ pc'["lcc"] = l
    BY <1>t, <1>m, <2>1, <2>2, <2>3, <2>4, LccTypes
  <2>6. Stage' /\ Booted' /\ Hardware'
    BY <1>t, <2>1, <2>2, <2>5, RestartStep DEF Restarting
  <2>7. QED  BY <2>5, <2>6 DEF ImageInv
<1>2. CASE reset_mark
  <2>1. /\ pc["lcc"] = "reset" /\ cs_config_dirty' = TRUE /\ Goto("lcc", "check")
        /\ UNCHANGED <<cs_config_mem, flash, armed, page_buffer, request, applied, booted, ops,
                       fails, losses>>
    BY <1>2 DEF reset_mark, At, history
  <2>2. "check" \in LccPcs
    BY DEF LccPcs
  <2>3. ImageTypes' /\ pc'["lcc"] = "check"
    BY <1>t, <1>m, <2>1, <2>2, LccTypes
  <2>4. Stage' /\ Booted' /\ Hardware'
    BY <1>t, <2>1, <2>3, RestartStep DEF Restarting
  <2>5. QED  BY <2>3, <2>4 DEF ImageInv
<1>3. QED  BY <1>1, <1>2

\* A step of a flush, on either task.
LEMMA FlushTypes ==
    ASSUME ImageInv, NEW t \in Tasks, NEW l \in FlushPcs \union {"delay"}, Goto(t, l),
           t = "timer" => l \in FlushPcs,
           t = "lcc" => l # "idle" /\ pc["lcc"] \in Restarting,
           flash' \in Image, page_buffer' \in [Tasks -> Image],
           cs_config_dirty' \in BOOLEAN, armed' \in BOOLEAN, fails' \in 0..MaxFails,
           UNCHANGED <<cs_config_mem, request, applied, booted, ops, losses>>
    PROVE  ImageInv'
<1>t. ImageTypes /\ Stage /\ Booted /\ Hardware
  BY DEF ImageInv
<1>1. l \in LccPcs
  BY DEF FlushPcs, LccPcs
<1>2. /\ pc' \in [Tasks -> LccPcs] /\ pc'["timer"] \in FlushPcs
      /\ pc'[t] = l /\ (t = "timer" => pc'["lcc"] = pc["lcc"])
  BY <1>t, <1>1, GotoType
<1>3. ImageTypes'
  BY <1>t, <1>2 DEF ImageTypes
<1>4. CASE t = "timer"
  BY <1>t, <1>2, <1>3, <1>4, TimerStep DEF ImageInv
<1>5. CASE t = "lcc"
  <2>1. pc'["lcc"] \in Restarting
    BY <1>2, <1>5 DEF FlushPcs, Restarting
  <2>2. QED  BY <1>t, <1>3, <1>5, <2>1, RestartStep DEF ImageInv
<1>6. QED  BY <1>4, <1>5 DEF Tasks

\* The flush callback.
LEMMA FlushStep ==
    ASSUME ImageInv, fire \/ reset_flush \/ \E t \in Tasks : flush(t)
    PROVE  ImageInv'
<1>t. /\ ImageTypes /\ flash \in Image /\ cs_config_mem \in Image
      /\ page_buffer \in [Tasks -> Image] /\ armed \in BOOLEAN /\ cs_config_dirty \in BOOLEAN
      /\ fails \in 0..MaxFails
  BY DEF ImageInv, ImageTypes
<1>1. ASSUME NEW t \in Tasks, check_dirty(t), armed' \in BOOLEAN,
             t = "lcc" => pc["lcc"] = "check"
      PROVE  ImageInv'
  <2> DEFINE l == IF cs_config_dirty THEN "copy" ELSE After(t)
  <2>1. /\ Goto(t, l)
        /\ page_buffer' = IF cs_config_dirty THEN [page_buffer EXCEPT ![t] = cs_config_mem]
                          ELSE page_buffer
        /\ UNCHANGED <<cs_config_mem, cs_config_dirty, flash, request, applied, booted, ops, fails,
                       losses>>
    BY <1>1 DEF check_dirty, history
  <2>2. page_buffer' \in [Tasks -> Image]
    BY <1>t, <2>1
  <2>3. /\ l \in FlushPcs \union {"delay"} /\ (t = "timer" => l \in FlushPcs)
        /\ t = "lcc" => l # "idle" /\ pc["lcc"] \in Restarting
    BY <1>1 DEF After, FlushPcs, Restarting
  <2> HIDE DEF l
  <2>4. QED  BY <1>1, <1>t, <2>1, <2>2, <2>3, FlushTypes
<1>2. CASE fire
  <2>1. check_dirty("timer") /\ armed' = FALSE /\ "timer" \in Tasks /\ "timer" # "lcc"
    BY <1>2 DEF fire, Tasks
  <2>2. QED  BY <1>1, <2>1
<1>3. CASE reset_flush
  <2>1. check_dirty("lcc") /\ armed' = armed /\ "lcc" \in Tasks /\ pc["lcc"] = "check"
    BY <1>3 DEF reset_flush, At, Tasks
  <2>2. QED  BY <1>1, <1>t, <2>1
<1>4. ASSUME NEW t \in Tasks, flush(t) PROVE ImageInv'
  <2>0. Erased \in Image
    BY BlankImages
  <2>a. \A l \in {"enter", "program", "clear"} : l \in FlushPcs /\ l # "idle"
    BY DEF FlushPcs
  <2>b. /\ After(t) \in FlushPcs \union {"delay"} /\ (t = "timer" => After(t) \in FlushPcs)
        /\ (t = "lcc" => After(t) # "idle")
    BY DEF After, FlushPcs
  <2>c. pc[t] \in {"copy", "enter", "program", "clear"}
    BY <1>4 DEF flush, copied, flash_erase, flash_program, flash_fails, clear_dirty, At
  <2>d. t = "lcc" => pc["lcc"] \in Restarting
    BY <2>c DEF Restarting
  <2>1. CASE copied(t)
    <3>1. /\ Goto(t, "enter")
          /\ UNCHANGED <<cs_config_mem, cs_config_dirty, flash, armed, page_buffer, request,
                         applied, booted, ops, fails, losses>>
      BY <2>1 DEF copied, history
    <3>2. QED  BY <1>4, <1>t, <2>a, <2>d, <3>1, FlushTypes
  <2>2. CASE flash_erase(t)
    <3>1. /\ Goto(t, "program") /\ flash' = Erased
          /\ UNCHANGED <<cs_config_mem, cs_config_dirty, armed, page_buffer, request, applied,
                         booted, ops, fails, losses>>
      BY <2>2 DEF flash_erase, history
    <3>2. QED  BY <1>4, <1>t, <2>0, <2>a, <2>d, <3>1, FlushTypes
  <2>3. CASE flash_program(t)
    <3>1. /\ Goto(t, "clear") /\ flash' = page_buffer[t]
          /\ page_buffer' = [page_buffer EXCEPT ![t] = Erased]
          /\ UNCHANGED <<cs_config_mem, cs_config_dirty, armed, request, applied, booted, ops,
                         fails, losses>>
      BY <2>3 DEF flash_program, history
    <3>2. flash' \in Image /\ page_buffer' \in [Tasks -> Image]
      BY <1>4, <1>t, <2>0, <3>1
    <3>3. QED  BY <1>4, <1>t, <2>a, <2>d, <3>1, <3>2, FlushTypes
  <2>4. CASE flash_fails(t)
    <3>1. /\ Goto(t, After(t)) /\ fails < MaxFails /\ fails' = fails + 1
          /\ page_buffer' = [page_buffer EXCEPT ![t] = Erased]
          /\ UNCHANGED <<cs_config_mem, cs_config_dirty, flash, armed, request, applied, booted,
                         ops, losses>>
      BY <2>4 DEF flash_fails
    <3>2. page_buffer' \in [Tasks -> Image]
      BY <1>4, <1>t, <2>0, <3>1
    <3>3. fails' \in 0..MaxFails
      BY <1>t, <3>1, NvConfigAssumption
    <3>4. QED  BY <1>4, <1>t, <2>b, <2>d, <3>1, <3>2, <3>3, FlushTypes
  <2>5. CASE clear_dirty(t)
    <3>1. /\ Goto(t, After(t)) /\ cs_config_dirty' = FALSE
          /\ UNCHANGED <<cs_config_mem, flash, armed, page_buffer, request, applied, booted,
                         ops, fails, losses>>
      BY <2>5 DEF clear_dirty, history
    <3>2. QED  BY <1>4, <1>t, <2>b, <2>d, <3>1, FlushTypes
  <2>6. QED  BY <1>4, <2>1, <2>2, <2>3, <2>4, <2>5 DEF flush
<1>5. QED  BY <1>2, <1>3, <1>4

\* ImageInv is inductive.
LEMMA ImageStep ==
    ASSUME ImageInv, [Next]_vars
    PROVE  ImageInv'
<1>t. ImageTypes /\ Stage /\ Booted /\ Hardware
  BY DEF ImageInv
<1>1. ASSUME NEW w \in Requests, accept(w) PROVE ImageInv'
  BY <1>1, AcceptStep
<1>2. CASE watchdog_reboot
  <2>1. pc["lcc"] = "delay" /\ boot(request.space) /\ losses' = losses
    BY <1>2 DEF watchdog_reboot, At
  <2>2. request.space \in {"loss", "reset", "reboot"}
    BY <1>t, <2>1 DEF Stage, Restarting, Request
  <2>3. losses' \in 0..MaxLosses
    BY <1>t, <2>1 DEF ImageTypes
  <2>4. QED  BY <1>t, <2>1, <2>2, <2>3, BootStep
<1>3. CASE power_loss
  <2>1. boot("loss") /\ losses' \in 0..MaxLosses
    BY <1>3, <1>t, NvConfigAssumption DEF power_loss, ImageTypes
  <2>2. QED  BY <1>t, <2>1, BootStep
<1>4. CASE UNCHANGED vars
  <2>1. ImageTypes'
    BY <1>4, <1>t DEF vars, ImageTypes, history
  <2>2. QED  BY <1>4, <1>t, <2>1, TimerStep DEF vars, history, ImageInv
<1>5. QED
  BY <1>1, <1>2, <1>3, <1>4, WriteStep, ApplyStep, ResetStep, FlushStep DEF Next, lcc_task

\* The invariant holds after the first boot.
LEMMA ImageInit == Init => ImageInv
<1> SUFFICES ASSUME Init PROVE ImageInv
  OBVIOUS
<1>1. flash \in Image /\ cs_config_mem = load_config(flash)
  BY NvConfigAssumption DEF Init
<1>2. cs_config_mem \in Image /\ Usable(cs_config_mem)
  BY <1>1, LoadUsable
<1>3. Followed
  BY DEF Init, Followed
<1>4. applied \in [railcom : BOOLEAN, limit : Limits]
  <2>1. main_limit(cs_config_mem) \in Limits /\ (cs_config_mem[RAILCOM] # 0) \in BOOLEAN
    BY <1>2, LimitType
  <2>2. QED  BY <1>3, <2>1 DEF Followed
<1>5. pc["lcc"] = "idle" /\ pc["timer"] = "idle" /\ pc \in [Tasks -> LccPcs]
  BY DEF Init, Tasks, LccPcs
<1>6. cs_config_dirty \in BOOLEAN /\ armed \in BOOLEAN
  BY Zenon DEF Init
<1>7. page_buffer \in [Tasks -> Image] /\ request \in Requests
  BY BlankImages DEF Init, Requests
<1>8. /\ booted \in {"no", "loss", "reset", "reboot"}
      /\ ops \in 0..MaxOps /\ fails \in 0..MaxFails /\ losses \in 0..MaxLosses
  BY NvConfigAssumption DEF Init
<1>9. ImageTypes
  BY <1>1, <1>2, <1>4, <1>5, <1>6, <1>7, <1>8 DEF ImageTypes, FlushPcs
<1>10. QED
  BY <1>2, <1>3, <1>5, <1>9 DEF ImageInv, Stage, Booted, Hardware, Writing, Restarting

\* Every state of the composed specification satisfies the image's invariant.
LEMMA ImageAlways == AllSpec => []ImageInv
<1>1. AllInit => ImageInv
  BY ImageInit DEF AllInit
<1>2. ImageInv /\ [AllNext]_all_vars => ImageInv'
  BY ImageStep DEF AllNext, all_vars
<1>3. QED  BY <1>1, <1>2, PTL DEF AllSpec

(* Whatever a flush, a torn copy, a failed flash operation or a loss of     *)
(* power at any point left in the sector, load_config ends with an image    *)
(* the station can run on; no migration is applied twice; and between       *)
(* requests the hardware has the RailCom mode and the current limit of the  *)
(* image, however a write crosses their fields.  For all writes, images of  *)
(* bytes and numbers of failures.                                           *)
THEOREM ImageCorrect == AllSpec => []ImageIsUsable
<1>1. ImageInv => ImageIsUsable
  <2> SUFFICES ASSUME ImageInv PROVE ImageIsUsable
    OBVIOUS
  <2>1. BootIsUsable
    BY DEF ImageInv, Booted, Usable, BootIsUsable
  <2>2. MigratesOnce
    <3>1. flash \in Image
      BY DEF ImageInv, ImageTypes
    <3>2. load_config(flash) \in Image /\ load_config(flash) # Erased /\ Usable(load_config(flash))
      BY <3>1, LoadUsable
    <3>3. QED  BY <3>2, LoadKeeps DEF MigratesOnce
  <2>3. HardwareFollows
    BY DEF ImageInv, Hardware, Followed, HardwareFollows
  <2>4. QED  BY <2>1, <2>2, <2>3 DEF ImageIsUsable
<1>2. QED  BY <1>1, ImageAlways, PTL

-----------------------------------------------------------------------------
(* MemConfig *)

Replies == [error : Mem!Errors, len : Int, from : Nat]
Entries == [req : MemRequests, ack : {"REJECTED", "REPLY_PENDING", "OK"}, replies : Seq(Replies),
            cvs : Seq(Nat)]

MemTypes ==
    /\ log \in Seq(Entries) /\ Len(log) <= MaxRequests
    /\ g_deferred \in [state : {"IDLE", "PENDING", "DONE"}, id : 0..Len(log), error : Mem!Errors,
                       from : 0..Len(log)]
    /\ lcc \in {"idle", "write", "defer"} /\ current \in 0..Len(log)
    /\ (lcc # "idle" => current # 0) /\ (g_deferred.state # "IDLE" => g_deferred.id # 0)
    /\ done \in Nat /\ error \in Mem!Errors /\ pom_cv_index \in 0..Mem!UINT16_MAX
    /\ svc_queue \in 0..Len(log) /\ svc_job \in 0..Len(log) /\ rc_job \in 0..Len(log)

\* The one operation of a pending slot: where it is.
Held ==
    /\ g_deferred.state # "PENDING" =>
          lcc # "defer" /\ svc_queue = 0 /\ svc_job = 0 /\ rc_job = 0
    /\ g_deferred.state = "PENDING" =>
          \/ lcc = "defer" /\ current = g_deferred.id /\ svc_queue = 0 /\ svc_job = 0 /\ rc_job = 0
          \/ lcc # "defer" /\ svc_queue = g_deferred.id /\ svc_job = 0 /\ rc_job = 0
          \/ lcc # "defer" /\ svc_queue = 0 /\ svc_job = g_deferred.id /\ rc_job = 0
          \/ lcc # "defer" /\ svc_queue = 0 /\ svc_job = 0 /\ rc_job = g_deferred.id
    /\ g_deferred.state = "DONE" => g_deferred.from = g_deferred.id
    /\ lcc = "write" /\ g_deferred.state # "IDLE" => current # g_deferred.id

Unanswered(k) == log[k].ack = "REPLY_PENDING" /\ log[k].replies = <<>>

IsTrainWrite(q) == q.cmd = "write" /\ q.node = "train"

\* The requests the LCC task and the slot hold have no answer yet, and the slot's
\* is no write to a train.
Open ==
    /\ lcc # "idle" => Unanswered(current)
    /\ g_deferred.state # "IDLE" =>
          Unanswered(g_deferred.id) /\ ~IsTrainWrite(log[g_deferred.id].req)

Answered(k) ==
    /\ Len(log[k].replies) <= 1
    /\ log[k].ack # "REPLY_PENDING" => log[k].replies = <<>>
    /\ log[k].replies # <<>> => log[k].replies[1].from = k

\* The CVs of a write: each once and in order; all of them if and only if the
\* reply says so.
Exact(k) ==
    LET q == log[k].req IN
    IsTrainWrite(q) /\ q.addr < Mem!CV_DIRECT_COUNT =>
        /\ \A j \in 1..Len(log[k].cvs) : log[k].cvs[j] = q.addr + j
        /\ Len(log[k].cvs) <= Len(q.data)
        /\ log[k].replies # <<>> =>
              (log[k].replies[1].error = "none" <=> Len(log[k].cvs) = Len(q.data))

\* handle_write's loop: what the space has taken is what was sent.
Loop ==
    lcc = "write" =>
        LET q == log[current].req IN
        /\ IsTrainWrite(q) /\ q.space = "cv" /\ q.addr < Mem!CV_SPACE_SIZE
        /\ q.addr < Mem!CV_DIRECT_COUNT =>
              /\ Len(log[current].cvs) = done
              /\ error # "none" => done < Len(q.data)

MemInv ==
    /\ MemTypes /\ Held /\ Open /\ Loop
    /\ \A k \in 1..Len(log) : Answered(k) /\ Exact(k)

\* The fields of a request ...
LEMMA RequestFields ==
    ASSUME NEW q \in MemRequests
    PROVE  /\ q.node \in {"cs", "train"} /\ q.space \in {"cv", "cdi", "unknown"}
           /\ q.addr \in Nat /\ q.count \in Nat
           /\ q.data \in Seq(0..255) /\ Len(q.data) <= 65
<1>1. Mem!MaxData = 65
  BY DEF Mem!MaxData
<1>2. QED  BY <1>1, MemRequestsAssumption DEF Mem!MemConfigAssumption

\* ... and of an entry of the log.
LEMMA EntryFields ==
    ASSUME NEW L \in Seq(Entries), NEW k \in 1..Len(L)
    PROVE  /\ L[k] \in Entries /\ L[k].req \in MemRequests /\ L[k].cvs \in Seq(Nat)
           /\ L[k].replies \in Seq(Replies)
<1>1. L[k] \in Entries
  OBVIOUS
<1>2. QED  BY <1>1 DEF Entries

\* The addresses of the train's CV space.
LEMMA CvSpace ==
    /\ Mem!CV_DIRECT_COUNT = 1024 /\ Mem!CV_OFFSET_INDEX \in Nat /\ Mem!CV_OFFSET_INDEX > 2000
    /\ Mem!CV_OFFSET_VALUE = Mem!CV_OFFSET_INDEX + 4
    /\ Mem!CV_OFFSET_VERIFY_VALUE = Mem!CV_OFFSET_INDEX + 5
    /\ Mem!CV_OFFSET_VERIFY_RESULT = Mem!CV_OFFSET_INDEX + 6
    /\ Mem!CV_SPACE_SIZE = Mem!CV_OFFSET_INDEX + 7
BY DEF Mem!CV_DIRECT_COUNT, Mem!CV_OFFSET_INDEX, Mem!CV_OFFSET_VALUE, Mem!CV_OFFSET_VERIFY_VALUE,
       Mem!CV_OFFSET_VERIFY_RESULT, Mem!CV_SPACE_SIZE

\* A function on 1..n is a sequence of length n.
LEMMA IsASeq ==
    ASSUME NEW S, NEW m \in Nat, NEW f \in [1..m -> S]
    PROVE  f \in Seq(S) /\ Len(f) = m
OBVIOUS

\* One entry of a log is replaced.
LEMMA Replaced ==
    ASSUME NEW L \in Seq(Entries), NEW k \in 1..Len(L), NEW e \in Entries,
           NEW M, M = [L EXCEPT ![k] = e]
    PROVE  /\ M \in Seq(Entries) /\ Len(M) = Len(L) /\ M[k] = e
           /\ \A j \in 1..Len(L) : j # k => M[j] = L[j]
<1>1. L \in [1..Len(L) -> Entries] /\ Len(L) \in Nat
  OBVIOUS
<1>2. M \in [1..Len(L) -> Entries]
  BY <1>1
<1>3. M \in Seq(Entries) /\ Len(M) = Len(L)
  BY <1>1, <1>2, IsASeq
<1>4. QED  BY <1>1, <1>3

\* An entry is added to a log.
LEMMA Added ==
    ASSUME NEW L \in Seq(Entries), NEW e \in Entries, NEW M, M = Append(L, e)
    PROVE  /\ M \in Seq(Entries) /\ Len(M) = Len(L) + 1 /\ M[Len(L) + 1] = e
           /\ \A j \in 1..Len(L) : M[j] = L[j]
OBVIOUS

\* A reply to request k is sent.
LEMMA Replied ==
    ASSUME log \in Seq(Entries), NEW k \in 1..Len(log), Unanswered(k), NEW rep \in Replies,
           Mem!send_reply(k, rep)
    PROVE  /\ log' \in Seq(Entries) /\ Len(log') = Len(log)
           /\ log'[k].req = log[k].req /\ log'[k].ack = log[k].ack /\ log'[k].cvs = log[k].cvs
           /\ log'[k].replies = <<rep>>
           /\ \A j \in 1..Len(log) : j # k => log'[j] = log[j]
<1> DEFINE e == [log[k] EXCEPT !.replies = Append(log[k].replies, rep)]
<1>0. log[k] \in Entries /\ log[k].replies \in Seq(Replies) /\ log[k].replies = <<>>
  BY EntryFields DEF Unanswered
<1>1. log' = [log EXCEPT ![k] = e]
  BY DEF Mem!send_reply
<1>2. Append(log[k].replies, rep) \in Seq(Replies) /\ Append(log[k].replies, rep) = <<rep>>
  BY <1>0
<1>3. /\ e \in Entries /\ e.req = log[k].req /\ e.ack = log[k].ack /\ e.cvs = log[k].cvs
      /\ e.replies = <<rep>>
  BY <1>0, <1>2 DEF Entries
<1> HIDE DEF e
<1>4. QED  BY <1>1, <1>3, Replaced

\* The log with a new request, answered at once or not.
Grown(q, a, replies) ==
    /\ log' \in Seq(Entries) /\ Len(log') = Len(log) + 1
    /\ \A j \in 1..Len(log) : log'[j] = log[j]
    /\ log'[Len(log) + 1].req = q /\ log'[Len(log) + 1].ack = a
    /\ log'[Len(log) + 1].replies = replies /\ log'[Len(log) + 1].cvs = <<>>

LEMMA Grows ==
    ASSUME log \in Seq(Entries), NEW q \in MemRequests,
           NEW a \in {"REJECTED", "REPLY_PENDING", "OK"}, NEW L,
           L = Append(log, [req |-> q, ack |-> a, replies |-> <<>>, cvs |-> <<>>])
    PROVE  /\ log' = L => Grown(q, a, <<>>)
           /\ \A rep \in Replies : log' = [L EXCEPT ![Len(log) + 1].replies = <<rep>>]
                                       => Grown(q, a, <<rep>>)
<1> DEFINE e == [req |-> q, ack |-> a, replies |-> <<>>, cvs |-> <<>>]
           id == Len(log) + 1
<1>1. e \in Entries
  BY DEF Entries
<1>f. e.req = q /\ e.ack = a /\ e.replies = <<>> /\ e.cvs = <<>>
  OBVIOUS
<1> HIDE DEF e
<1>2. /\ L \in Seq(Entries) /\ Len(L) = Len(log) + 1 /\ L[Len(log) + 1] = e
      /\ \A j \in 1..Len(log) : L[j] = log[j]
  BY <1>1, Added DEF e
<1>3. log' = L => Grown(q, a, <<>>)
  BY <1>2, <1>f DEF Grown
<1>4. ASSUME NEW rep \in Replies, log' = [L EXCEPT ![Len(log) + 1].replies = <<rep>>]
      PROVE  Grown(q, a, <<rep>>)
  <2> DEFINE x == [e EXCEPT !.replies = <<rep>>]
  <2>0. <<rep>> \in Seq(Replies)
    OBVIOUS
  <2>1. x \in Entries /\ x.req = q /\ x.ack = a /\ x.replies = <<rep>> /\ x.cvs = <<>>
    BY <1>1, <1>f, <2>0 DEF Entries
  <2>2. id \in 1..Len(L) /\ Len(log) \in Nat
    BY <1>2
  <2>3. log' = [L EXCEPT ![id] = x]
    BY <1>2, <1>4
  <2> HIDE DEF x, id
  <2>4. /\ log' \in Seq(Entries) /\ Len(log') = Len(L) /\ log'[id] = x
        /\ \A j \in 1..Len(L) : j # id => log'[j] = L[j]
    <3> DEFINE M == log'
    <3>1. M = [L EXCEPT ![id] = x] /\ x \in Entries /\ L \in Seq(Entries) /\ id \in 1..Len(L)
      BY <1>2, <2>1, <2>2, <2>3
    <3> HIDE DEF M
    <3>2. /\ M \in Seq(Entries) /\ Len(M) = Len(L) /\ M[id] = x
          /\ \A j \in 1..Len(L) : j # id => M[j] = L[j]
      BY ONLY <3>1, Replaced
    <3>3. QED  BY <3>2 DEF M
  <2>5. \A j \in 1..Len(log) : log'[j] = log[j]
    BY <1>2, <2>2, <2>4 DEF id
  <2>6. QED  BY <1>2, <2>1, <2>4, <2>5 DEF Grown, id
<1>5. QED  BY <1>3, <1>4

-----------------------------------------------------------------------------
(* A datagram's dispatch, one of four outcomes.                             *)

Refused(q) ==
    /\ \E a \in {"REJECTED", "OK"} : Grown(q, a, <<>>)
    /\ UNCHANGED <<g_deferred, lcc, done, error>>

AtOnce(q) ==
    /\ \E rep \in Replies : rep.from = Len(log) + 1 /\ Grown(q, "REPLY_PENDING", <<rep>>)
    /\ ~IsTrainWrite(q)
    /\ lcc' = "idle" /\ UNCHANGED <<g_deferred, done, error>>

PutOff(q) ==
    /\ Grown(q, "REPLY_PENDING", <<>>) /\ ~IsTrainWrite(q)
    /\ g_deferred.state = "IDLE" /\ g_deferred' = Mem!Slot("PENDING", Len(log) + 1)
    /\ lcc' = "defer" /\ UNCHANGED <<done, error>>

WriteBegins(q) ==
    /\ Grown(q, "REPLY_PENDING", <<>>) /\ IsTrainWrite(q)
    /\ q.space = "cv" /\ q.addr < Mem!CV_SPACE_SIZE
    /\ lcc' = "write" /\ done' = 0 /\ error' = "none" /\ UNCHANGED g_deferred

\* A reply is one of Replies.
LEMMA ReplyType ==
    ASSUME NEW err \in Mem!Errors, NEW n \in Int, NEW from \in Nat
    PROVE  Mem!Reply(err, n, from) \in Replies /\ Mem!Reply(err, n, from).from = from
           /\ Mem!Reply(err, n, from).error = err
BY DEF Mem!Reply, Replies

\* The size of a space there is.
LEMMA SizeType ==
    ASSUME NEW q \in MemRequests, q.space # "unknown"
    PROVE  /\ Mem!Size(q) \in Nat
           /\ q.space = "cv" /\ q.node = "train" => Mem!Size(q) = Mem!CV_SPACE_SIZE
<1>1. Mem!CV_SPACE_SIZE \in Nat /\ Mem!CV_DIRECT_COUNT \in Nat
  BY CvSpace
<1>2. CDI_SIZE \in Nat
  BY MemRequestsAssumption DEF Mem!MemConfigAssumption
<1>3. q.node \in {"cs", "train"} /\ q.space \in {"cv", "cdi", "unknown"}
  BY RequestFields
<1>4. QED  BY <1>1, <1>2, <1>3 DEF Mem!Size

\* start_deferred refuses or takes the slot.
LEMMA StartDeferred ==
    ASSUME MemTypes, NEW q \in MemRequests, q.space # "unknown", ~IsTrainWrite(q), NEW L,
           L = Append(log, [req |-> q, ack |-> "REPLY_PENDING", replies |-> <<>>, cvs |-> <<>>]),
           Mem!start_deferred(Len(log) + 1, q, L), UNCHANGED <<done, error>>
    PROVE  AtOnce(q) \/ PutOff(q)
<1> DEFINE id == Len(log) + 1
<1>t. log \in Seq(Entries) /\ Len(log) \in Nat /\ id \in Nat
  BY DEF MemTypes
<1>g. /\ log' = L => Grown(q, "REPLY_PENDING", <<>>)
      /\ \A rep \in Replies : log' = [L EXCEPT ![Len(log) + 1].replies = <<rep>>]
                                  => Grown(q, "REPLY_PENDING", <<rep>>)
  BY <1>t, Grows
<1>1. ASSUME NEW err \in {"OUT_OF_BOUNDS", "TEMPORARY"},
             log' = [L EXCEPT ![id].replies = <<Mem!Reply(err, 0, id)>>], lcc' = "idle",
             UNCHANGED g_deferred
      PROVE  AtOnce(q)
  <2>1. Mem!Reply(err, 0, id) \in Replies /\ Mem!Reply(err, 0, id).from = id
    BY <1>t, ReplyType DEF Mem!Errors
  <2>2. Grown(q, "REPLY_PENDING", <<Mem!Reply(err, 0, id)>>)
    BY <1>g, <1>1, <2>1
  <2>3. QED  BY <1>1, <2>1, <2>2 DEF AtOnce
<1>2. ASSUME g_deferred' = Mem!Slot("PENDING", id), lcc' = "defer", log' = L, ~Mem!SlotBusy
      PROVE  PutOff(q)
  BY <1>2, <1>g DEF PutOff, Mem!SlotBusy
<1>3. Mem!Size(q) \in Nat /\ q.addr \in Nat
  BY SizeType, RequestFields
<1>4. CASE q.addr >= Mem!Size(q)
  BY <1>1, <1>3, <1>4 DEF Mem!start_deferred
<1>5. CASE q.addr < Mem!Size(q) /\ Mem!SlotBusy
  BY <1>1, <1>3, <1>5 DEF Mem!start_deferred
<1>6. CASE q.addr < Mem!Size(q) /\ ~Mem!SlotBusy
  BY <1>2, <1>3, <1>6 DEF Mem!start_deferred
<1>7. QED  BY <1>3, <1>4, <1>5, <1>6

\* handle_read answers at once or puts the read off.
LEMMA HandleRead ==
    ASSUME MemTypes, NEW q \in MemRequests, q.space # "unknown", q.cmd = "read", NEW L,
           L = Append(log, [req |-> q, ack |-> "REPLY_PENDING", replies |-> <<>>, cvs |-> <<>>]),
           Mem!handle_read(Len(log) + 1, q, L)
    PROVE  AtOnce(q) \/ PutOff(q)
<1> DEFINE id == Len(log) + 1
           result == IF q.space = "cdi" \/ q.addr >= Mem!Size(q) THEN "data"
                     ELSE IF q.node = "cs" THEN "DEFER" ELSE Mem!cv_space_read(q)
           length == IF q.space = "cv" /\ q.addr < Mem!Size(q)
                     THEN Mem!Min2(Mem!ReadLength(q), Mem!CV_OFFSET_VALUE - q.addr)
                     ELSE Mem!ReadLength(q)
           rep == IF result = "data" THEN Mem!Reply("none", length, id) ELSE Mem!Reply(result, 0, id)
<1>t. log \in Seq(Entries) /\ Len(log) \in Nat /\ id \in Nat
  BY DEF MemTypes
<1>n. ~IsTrainWrite(q)
  BY DEF IsTrainWrite
<1>s. Mem!Size(q) \in Nat /\ q.addr \in Nat /\ q.count \in Nat
  BY SizeType, RequestFields
<1>1. length \in Int
  <2>1. Mem!Count(q) \in Nat
    BY <1>s DEF Mem!Count
  <2>2. Mem!MaxData \in Nat /\ Mem!CV_OFFSET_VALUE \in Int
    BY CvSpace DEF Mem!MaxData
  <2>3. Mem!ReadLength(q) \in Int
    BY <1>s, <2>1, <2>2 DEF Mem!ReadLength, Mem!Min2
  <2>4. QED  BY <1>s, <2>2, <2>3 DEF Mem!Min2
<1>2. result \in {"data", "DEFER"} \union Mem!Errors
  BY DEF Mem!cv_space_read, Mem!Errors
<1>3. CASE result = "DEFER" \/ (q.space = "cv" /\ q.node = "cs")
  <2>1. Mem!start_deferred(id, q, L) /\ UNCHANGED <<done, error>>
    BY <1>3 DEF Mem!handle_read
  <2>2. QED  BY <2>1, <1>n, StartDeferred
<1>4. CASE ~(result = "DEFER" \/ (q.space = "cv" /\ q.node = "cs"))
  <2>1. /\ log' = [L EXCEPT ![id].replies = <<rep>>] /\ lcc' = "idle"
        /\ UNCHANGED <<g_deferred, done, error>>
    BY <1>4 DEF Mem!handle_read
  <2>2. result = "data" \/ result \in Mem!Errors
    BY <1>2, <1>4
  <2> HIDE DEF result, length
  <2>3. rep \in Replies /\ rep.from = id
    <3>1. CASE result = "data"
      <4>1. rep = Mem!Reply("none", length, id) /\ "none" \in Mem!Errors
        BY <3>1 DEF Mem!Errors
      <4>2. QED  BY <4>1, <1>1, <1>t, ReplyType
    <3>2. CASE result # "data"
      <4>1. rep = Mem!Reply(result, 0, id) /\ result \in Mem!Errors
        BY <2>2, <3>2
      <4>2. QED  BY <4>1, <1>t, ReplyType
    <3>3. QED  BY <3>1, <3>2
  <2> HIDE DEF rep
  <2>4. Grown(q, "REPLY_PENDING", <<rep>>)
    BY <1>t, <2>1, <2>3, Grows
  <2>5. QED  BY <1>n, <2>1, <2>3, <2>4 DEF AtOnce
<1>5. QED  BY <1>3, <1>4

\* lcc_datagram_dispatch.
LEMMA Dispatch ==
    ASSUME MemTypes, NEW q \in MemRequests, Mem!lcc_datagram_dispatch(q)
    PROVE  /\ lcc = "idle" /\ Len(log) < MaxRequests /\ current' = Len(log) + 1
           /\ UNCHANGED <<pom_cv_index, svc_queue, svc_job, g_busy, rc_job, railcom_on>>
           /\ Refused(q) \/ AtOnce(q) \/ PutOff(q) \/ WriteBegins(q)
<1> DEFINE id  == Len(log) + 1
           err == Mem!lcc_memconfig_check(q)
           ack == CASE err # "none" -> "REJECTED"
                    [] err = "none" /\ Mem!ReplyPending(q) -> "REPLY_PENDING"
                    [] OTHER -> "OK"
           L   == Append(log, [req |-> q, ack |-> ack, replies |-> <<>>, cvs |-> <<>>])
<1>t. log \in Seq(Entries) /\ Len(log) \in Nat /\ id \in Nat
  BY DEF MemTypes
<1>f. /\ q.node \in {"cs", "train"} /\ q.space \in {"cv", "cdi", "unknown"}
      /\ q.addr \in Nat /\ q.count \in Nat /\ q.data \in Seq(0..255)
  BY RequestFields
<1>1. /\ lcc = "idle" /\ Len(log) < MaxRequests /\ current' = id
      /\ UNCHANGED <<pom_cv_index, svc_queue, svc_job, g_busy, rc_job, railcom_on>>
  BY DEF Mem!lcc_datagram_dispatch, Mem!jobs
<1>2. /\ ack = "REPLY_PENDING" /\ q.cmd = "read" => Mem!handle_read(id, q, L)
      /\ ack = "REPLY_PENDING" /\ q.cmd = "write" => Mem!handle_write(id, q, L)
      /\ ack = "REPLY_PENDING" /\ ~Mem!IsRw(q)    => Mem!handle_inquiry(id, q, L)
      /\ ack # "REPLY_PENDING" => log' = L /\ UNCHANGED <<g_deferred, lcc, done, error>>
  BY DEF Mem!lcc_datagram_dispatch, Mem!IsRw
<1>3. ack \in {"REJECTED", "REPLY_PENDING", "OK"}
  OBVIOUS
<1>4. ack = "REPLY_PENDING" =>
          /\ Mem!IsRw(q) => q.space # "unknown"
          /\ IsTrainWrite(q) => q.space = "cv" /\ q.addr < Mem!CV_SPACE_SIZE
  <2> SUFFICES ASSUME ack = "REPLY_PENDING", Mem!IsRw(q)
               PROVE  /\ q.space # "unknown"
                      /\ IsTrainWrite(q) => q.space = "cv" /\ q.addr < Mem!CV_SPACE_SIZE
    BY DEF IsTrainWrite, Mem!IsRw
  <2>1. Mem!parse_rw(q) = "none"
    <3>1. err = "none"
      OBVIOUS
    <3>2. QED  BY <3>1 DEF Mem!lcc_memconfig_check, Mem!IsRw
  <2>2. Mem!Count(q) \in Nat
    BY <1>f DEF Mem!Count
  <2>3. q.space # "unknown" /\ (q.cmd = "write" => q.space # "cdi")
    BY <2>1, <2>2 DEF Mem!parse_rw
  <2>4. Mem!Size(q) \in Nat
    BY <2>3, SizeType
  <2>5. IsTrainWrite(q) => q.space = "cv" /\ Mem!Size(q) = Mem!CV_SPACE_SIZE
    BY <1>f, <2>3, SizeType DEF IsTrainWrite
  <2>6. IsTrainWrite(q) => q.addr < Mem!Size(q)
    BY <1>f, <2>1, <2>4, <2>5 DEF Mem!parse_rw, IsTrainWrite
  <2>7. QED  BY <2>3, <2>5, <2>6
<1> HIDE DEF ack
<1>g. /\ log' = L => Grown(q, ack, <<>>)
      /\ \A rep \in Replies : log' = [L EXCEPT ![Len(log) + 1].replies = <<rep>>]
                                  => Grown(q, ack, <<rep>>)
  BY <1>t, <1>3, Grows
<1>5. CASE ack # "REPLY_PENDING"
  <2>1. ack \in {"REJECTED", "OK"} /\ Grown(q, ack, <<>>)
    BY <1>2, <1>3, <1>5, <1>g
  <2>2. QED  BY <1>1, <1>2, <1>5, <2>1 DEF Refused
<1>6. CASE ack = "REPLY_PENDING"
  <2>0. L = Append(log, [req |-> q, ack |-> "REPLY_PENDING", replies |-> <<>>, cvs |-> <<>>])
    BY <1>6
  <2> HIDE DEF L
  <2>1. CASE q.cmd = "read"
    <3>1. q.space # "unknown" /\ Mem!handle_read(id, q, L)
      BY <1>2, <1>4, <1>6, <2>1 DEF Mem!IsRw
    <3>2. AtOnce(q) \/ PutOff(q)
      BY <2>0, <2>1, <3>1, HandleRead
    <3>3. QED  BY <1>1, <3>2
  <2>2. CASE q.cmd = "write"
    <3>1. q.space # "unknown" /\ Mem!handle_write(id, q, L)
      BY <1>2, <1>4, <1>6, <2>2 DEF Mem!IsRw
    <3>2. CASE q.node = "cs"
      <4>1. Mem!start_deferred(id, q, L) /\ UNCHANGED <<done, error>> /\ ~IsTrainWrite(q)
        BY <3>1, <3>2 DEF Mem!handle_write, IsTrainWrite
      <4>2. AtOnce(q) \/ PutOff(q)
        BY <2>0, <3>1, <4>1, StartDeferred
      <4>3. QED  BY <1>1, <4>2
    <3>3. CASE q.node = "train"
      <4>1. IsTrainWrite(q)
        BY <2>2, <3>3 DEF IsTrainWrite
      <4>2. /\ lcc' = "write" /\ done' = 0 /\ error' = "none" /\ UNCHANGED g_deferred
            /\ Grown(q, "REPLY_PENDING", <<>>)
        BY <1>6, <1>g, <3>1, <3>3 DEF Mem!handle_write
      <4>3. WriteBegins(q)
        BY <1>4, <1>6, <4>1, <4>2 DEF WriteBegins
      <4>4. QED  BY <1>1, <4>3
    <3>4. QED  BY <1>f, <3>2, <3>3
  <2>3. CASE ~Mem!IsRw(q)
    <3> DEFINE e == IF q.cmd = "space_info" /\ q.space = "unknown" THEN "SPACE_UNKNOWN" ELSE "none"
    <3>1. /\ log' = [L EXCEPT ![id].replies = <<Mem!Reply(e, 0, id)>>]
          /\ UNCHANGED <<g_deferred, lcc, done, error>>
      BY <1>2, <1>6, <2>3 DEF Mem!handle_inquiry
    <3>2. e \in Mem!Errors
      BY DEF Mem!Errors
    <3> HIDE DEF e
    <3>3. Mem!Reply(e, 0, id) \in Replies /\ Mem!Reply(e, 0, id).from = id
      BY <1>t, <3>2, ReplyType
    <3>4. Grown(q, "REPLY_PENDING", <<Mem!Reply(e, 0, id)>>)
      BY <1>6, <1>g, <3>1, <3>3
    <3>5. ~IsTrainWrite(q)
      BY <2>3 DEF IsTrainWrite, Mem!IsRw
    <3>6. AtOnce(q)
      BY <1>1, <3>1, <3>3, <3>4, <3>5 DEF AtOnce
    <3>7. QED  BY <1>1, <3>6
  <2>4. QED  BY <2>1, <2>2, <2>3 DEF Mem!IsRw
<1>7. QED  BY <1>5, <1>6

-----------------------------------------------------------------------------
(* One call of the CV space's write.                                        *)

\* A 16-bit number, ...
LEMMA Widest == Mem!UINT16_MAX = 65535
BY DEF Mem!UINT16_MAX

\* ... its two bytes, ...
LEMMA Halves ==
    ASSUME NEW n \in Nat, n <= Mem!UINT16_MAX
    PROVE  n \div 256 \in 0..255 /\ n % 256 \in 0..255
<1>1. n <= 65535
  BY Widest
<1>2. n \div 256 \in Nat /\ n \div 256 <= 255
  BY ONLY n \in Nat, <1>1
<1>3. n % 256 \in Nat /\ n % 256 <= 255
  BY ONLY n \in Nat, <1>1
<1>4. QED  BY ONLY <1>2, <1>3

\* ... and the number its bytes are of.
LEMMA Word ==
    ASSUME NEW hi \in 0..255, NEW lo \in 0..255
    PROVE  hi * 256 + lo \in 0..Mem!UINT16_MAX
<1>1. Mem!UINT16_MAX = 65535
  BY Widest
<1>m. Mem!UINT16_MAX \in Nat
  BY DEF Mem!UINT16_MAX
<1>a. hi \in Int /\ 0 <= hi /\ hi <= 255 /\ lo \in Int /\ 0 <= lo /\ lo <= 255
  BY ONLY hi \in 0..255, lo \in 0..255
<1>2. hi * 256 + lo \in Nat
  BY ONLY <1>a
<1>3. hi * 256 + lo <= Mem!UINT16_MAX
  BY ONLY <1>1, <1>a
<1>4. QED  BY ONLY <1>m, <1>2, <1>3

LEMMA Element ==
    ASSUME NEW S, NEW sq \in Seq(S), NEW i \in 1..Len(sq)
    PROVE  sq[i] \in S
OBVIOUS

LEMMA Section ==
    ASSUME NEW S, NEW sq \in Seq(S), NEW m \in 1..Len(sq), NEW n \in m..Len(sq)
    PROVE  SubSeq(sq, m, n) \in Seq(S) /\ Len(SubSeq(sq, m, n)) = n - m + 1
OBVIOUS

\* The latched index keeps to 16 bits.
LEMMA IndexType ==
    ASSUME pom_cv_index \in 0..Mem!UINT16_MAX, NEW off \in Nat, NEW bytes \in Seq(0..255)
    PROVE  Mem!LatchIndex(off, bytes) \in 0..Mem!UINT16_MAX
<1> DEFINE hi == pom_cv_index \div 256
           lo == pom_cv_index % 256
           old == <<0, 0, hi, lo>>
           new == [i \in 1..4 |-> IF i \in off + 1..off + Len(bytes) THEN bytes[i - off] ELSE old[i]]
<1>a. pom_cv_index \in Nat /\ pom_cv_index <= Mem!UINT16_MAX
  OBVIOUS
<1>0. hi \in 0..255 /\ lo \in 0..255
  BY ONLY <1>a, Halves
<1>e. Mem!LatchIndex(off, bytes) = new[3] * 256 + new[4]
  BY DEF Mem!LatchIndex
<1> HIDE DEF hi, lo
<1>1. \A i \in 1..4 : old[i] \in 0..255
  <2>1. old[1] = 0 /\ old[2] = 0 /\ old[3] = hi /\ old[4] = lo
    OBVIOUS
  <2> HIDE DEF old
  <2>2. \A i \in 1..4 : i = 1 \/ i = 2 \/ i = 3 \/ i = 4
    OBVIOUS
  <2>3. PICK Byte : Byte = 0..255
    OBVIOUS
  <2>4. 0 \in Byte /\ hi \in Byte /\ lo \in Byte
    BY <1>0, <2>3
  <2>5. \A i \in 1..4 : old[i] \in Byte
    BY ONLY <2>1, <2>2, <2>4, Zenon
  <2>6. QED  BY ONLY <2>3, <2>5
<1> HIDE DEF old
<1>2. \A i \in 1..4 : new[i] \in 0..255
  <2> TAKE i \in 1..4
  <2>1. CASE i \in off + 1..off + Len(bytes)
    <3>1. i - off \in 1..Len(bytes)
      BY <2>1
    <3>2. bytes[i - off] \in 0..255
      BY <3>1, Element
    <3>3. QED  BY <2>1, <3>2
  <2>2. CASE i \notin off + 1..off + Len(bytes)
    BY <1>1, <2>2
  <2>3. QED  BY <2>1, <2>2
<1>3. new[3] \in 0..255 /\ new[4] \in 0..255
  BY <1>2
<1> HIDE DEF new
<1>4. new[3] * 256 + new[4] \in 0..Mem!UINT16_MAX
  BY <1>3, Word
<1>5. QED  BY <1>e, <1>4

LEMMA WriteCall ==
    ASSUME pom_cv_index \in 0..Mem!UINT16_MAX, NEW addr \in Nat, NEW bytes \in Seq(0..255),
           Len(bytes) > 0, NEW w, w = Mem!cv_space_write(addr, bytes)
    PROVE  /\ w.taken \in Nat /\ w.cvs \in Seq(Nat) /\ w.error \in Mem!Errors
           /\ w.index \in 0..Mem!UINT16_MAX
           /\ addr < Mem!CV_DIRECT_COUNT =>
                 /\ w.error = "none" /\ w.taken = Len(w.cvs) /\ Len(w.cvs) <= Len(bytes)
                 /\ \A j \in 1..Len(w.cvs) : w.cvs[j] = addr + j
           /\ addr >= Mem!CV_DIRECT_COUNT /\ addr < Mem!CV_OFFSET_INDEX =>
                 w.error # "none" /\ w.taken = 0 /\ w.cvs = <<>>
<1>c. /\ Mem!CV_DIRECT_COUNT = 1024 /\ Mem!CV_OFFSET_INDEX \in Nat /\ Mem!CV_OFFSET_INDEX > 2000
      /\ Mem!CV_OFFSET_VALUE = Mem!CV_OFFSET_INDEX + 4
      /\ Mem!CV_OFFSET_VERIFY_VALUE = Mem!CV_OFFSET_INDEX + 5
      /\ Mem!CV_OFFSET_VERIFY_RESULT = Mem!CV_OFFSET_INDEX + 6
  BY CvSpace
<1>l. Len(bytes) \in Nat
  OBVIOUS
<1>e. Mem!Errors = {"none", "INVALID_ARGUMENTS", "SPACE_UNKNOWN", "WRITE_READ_ONLY",
          "OUT_OF_BOUNDS", "UNIMPLEMENTED_SUBCMD", "UNIMPLEMENTED_CMD", "TEMPORARY", "DCC_NO_LOCO"}
  BY DEF Mem!Errors
<1>k. \A n, c : w = Mem!Taken(n, c) =>
          w.taken = n /\ w.cvs = c /\ w.index = pom_cv_index /\ w.error = "none"
  BY DEF Mem!Taken
<1>r. \A err : w = Mem!Refused(err) =>
          w.taken = 0 /\ w.cvs = <<>> /\ w.index = pom_cv_index /\ w.error = err
  BY DEF Mem!Taken, Mem!Refused
<1>s. <<>> \in Seq(Nat)
  OBVIOUS
<1>1. CASE addr < Mem!CV_DIRECT_COUNT
  <2> DEFINE v == Mem!write_cvs(addr + 1, Len(bytes))
  <2>1. w = Mem!Taken(v.taken, v.cvs)
    BY <1>1, <1>c DEF Mem!cv_space_write, Mem!IndexArea
  <2>2. /\ v.taken \in Nat /\ v.cvs \in Seq(Nat) /\ v.taken = Len(v.cvs) /\ Len(v.cvs) <= Len(bytes)
        /\ \A j \in 1..Len(v.cvs) : v.cvs[j] = addr + j
    <3> HIDE DEF v
    <3>1. CASE v = [cvs |-> <<addr + 1, addr + 1 + 1>>, taken |-> 2] /\ Len(bytes) >= 2
      <4>1. v.cvs = <<addr + 1, addr + 2>> /\ v.taken = 2
        BY <3>1
      <4>2. QED  BY <1>l, <3>1, <4>1
    <3>2. CASE v = [cvs |-> <<addr + 1>>, taken |-> 1]
      <4>1. v.cvs = <<addr + 1>> /\ v.taken = 1
        BY <3>2
      <4>2. QED  BY <1>l, <4>1
    <3>3. QED  BY <3>1, <3>2 DEF Mem!write_cvs, v
  <2> HIDE DEF v
  <2>3. w.taken = v.taken /\ w.cvs = v.cvs /\ w.index = pom_cv_index /\ w.error = "none"
    BY <1>k, <2>1
  <2>4. QED  BY <1>1, <1>c, <1>e, <2>2, <2>3
<1>2. CASE Mem!IndexArea(addr)
  <2> DEFINE off == addr - Mem!CV_OFFSET_INDEX
             n == Mem!Min2(Len(bytes), 4 - off)
             t == Mem!Taken(n, <<>>)
             ix == Mem!LatchIndex(off, SubSeq(bytes, 1, n))
  <2>1. /\ addr >= Mem!CV_OFFSET_INDEX /\ off \in 0..3 /\ ~(addr < Mem!CV_DIRECT_COUNT)
        /\ addr < Mem!CV_OFFSET_VALUE
    BY <1>2, <1>c DEF Mem!IndexArea
  <2>2. w = [t EXCEPT !.index = ix]
    BY <1>2, <1>c, <2>1 DEF Mem!cv_space_write
  <2> HIDE DEF off
  <2>3. n \in 1..Len(bytes)
    BY <1>l, <2>1 DEF Mem!Min2
  <2> HIDE DEF n
  <2>4. SubSeq(bytes, 1, n) \in Seq(0..255)
    <3>1. 1 \in 1..Len(bytes)
      BY <1>l
    <3>2. QED  BY <2>3, <3>1, Section
  <2>5. ix \in 0..Mem!UINT16_MAX
    <3>1. off \in Nat
      BY <2>1
    <3>2. QED  BY ONLY pom_cv_index \in 0..Mem!UINT16_MAX, <3>1, <2>4, IndexType
  <2> HIDE DEF ix
  <2>6. w.taken = n /\ w.cvs = <<>> /\ w.error = "none" /\ w.index = ix
    BY <2>2 DEF Mem!Taken
  <2>7. ~(addr < Mem!CV_OFFSET_INDEX) /\ n \in Nat
    BY <1>c, <1>l, <2>1, <2>3
  <2>8. QED  BY <1>e, <1>s, <2>1, <2>5, <2>6, <2>7
<1>3. CASE addr = Mem!CV_OFFSET_VALUE
  <2>1. ~(addr < Mem!CV_DIRECT_COUNT) /\ ~(addr < Mem!CV_OFFSET_INDEX) /\ ~Mem!IndexArea(addr)
    BY <1>3, <1>c DEF Mem!IndexArea
  <2>2. w = IF Mem!IndexValid THEN Mem!Taken(1, Mem!write_cvs(pom_cv_index, 1).cvs)
            ELSE Mem!Refused("INVALID_ARGUMENTS")
    BY <1>3, <1>c, <2>1 DEF Mem!cv_space_write
  <2>3. Mem!write_cvs(pom_cv_index, 1).cvs = <<pom_cv_index>> /\ <<pom_cv_index>> \in Seq(Nat)
    BY DEF Mem!write_cvs
  <2>4. \/ w.taken = 1 /\ w.cvs = <<pom_cv_index>> /\ w.index = pom_cv_index /\ w.error = "none"
        \/ w.taken = 0 /\ w.cvs = <<>> /\ w.index = pom_cv_index /\ w.error = "INVALID_ARGUMENTS"
    BY <1>k, <1>r, <2>2, <2>3
  <2>5. w.taken \in Nat /\ w.index \in 0..Mem!UINT16_MAX
    BY <2>4
  <2>6. w.error \in Mem!Errors
    BY ONLY <1>e, <2>4
  <2>7. w.cvs \in Seq(Nat)
    BY ONLY <1>s, <2>3, <2>4
  <2>8. QED  BY ONLY <2>1, <2>5, <2>6, <2>7
<1>4. CASE addr \in {Mem!CV_OFFSET_VERIFY_VALUE, Mem!CV_OFFSET_VERIFY_RESULT}
  <2>1. ~(addr < Mem!CV_DIRECT_COUNT) /\ ~(addr < Mem!CV_OFFSET_INDEX) /\ ~Mem!IndexArea(addr)
    BY <1>4, <1>c DEF Mem!IndexArea
  <2>2. w = Mem!Taken(1, <<>>) \/ w = Mem!Refused("WRITE_READ_ONLY")
    BY <1>4, <1>c, <2>1 DEF Mem!cv_space_write
  <2>3. \/ w.taken = 1 /\ w.cvs = <<>> /\ w.index = pom_cv_index /\ w.error = "none"
        \/ w.taken = 0 /\ w.cvs = <<>> /\ w.index = pom_cv_index /\ w.error = "WRITE_READ_ONLY"
    BY <1>k, <1>r, <2>2
  <2>4. w.taken \in Nat /\ w.index \in 0..Mem!UINT16_MAX
    BY <2>3
  <2>5. w.error \in Mem!Errors
    BY ONLY <1>e, <2>3
  <2>6. w.cvs \in Seq(Nat)
    BY ONLY <1>s, <2>3
  <2>7. QED  BY ONLY <2>1, <2>4, <2>5, <2>6
<1>5. CASE /\ ~(addr < Mem!CV_DIRECT_COUNT) /\ ~Mem!IndexArea(addr)
           /\ addr \notin {Mem!CV_OFFSET_VALUE, Mem!CV_OFFSET_VERIFY_VALUE, Mem!CV_OFFSET_VERIFY_RESULT}
  <2>1. w = Mem!Refused("OUT_OF_BOUNDS")
    BY <1>5 DEF Mem!cv_space_write
  <2>2. w.taken = 0 /\ w.cvs = <<>> /\ w.index = pom_cv_index /\ w.error = "OUT_OF_BOUNDS"
    BY <1>r, <2>1
  <2>3. QED  BY <1>5, <1>e, <1>s, <2>2
<1>6. QED  BY <1>1, <1>2, <1>3, <1>4, <1>5

-----------------------------------------------------------------------------
(* What a growing log and a reply keep.                                     *)

LEMMA GrownKeeps ==
    ASSUME MemInv, NEW q \in MemRequests, NEW a, NEW replies, Grown(q, a, replies),
           \/ replies = <<>>
           \/ /\ a = "REPLY_PENDING" /\ ~IsTrainWrite(q)
              /\ \E rep \in Replies : rep.from = Len(log) + 1 /\ replies = <<rep>>
    PROVE  /\ \A k \in 1..Len(log') : Answered(k)' /\ Exact(k)'
           /\ \A k \in 1..Len(log) : Unanswered(k) => Unanswered(k)'
<1>t. Len(log) \in Nat /\ Len(log') = Len(log) + 1
  BY DEF MemInv, MemTypes, Grown
<1>1. ASSUME NEW k \in 1..Len(log)
      PROVE  Answered(k)' /\ Exact(k)' /\ (Unanswered(k) => Unanswered(k)')
  <2>1. log'[k] = log[k] /\ Answered(k) /\ Exact(k)
    BY <1>1 DEF Grown, MemInv
  <2>2. Answered(k)'
    BY <2>1 DEF Answered
  <2>3. Exact(k)'
    BY <2>1 DEF Exact
  <2>4. QED  BY <2>1, <2>2, <2>3 DEF Unanswered
<1>2. ASSUME NEW id, id = Len(log) + 1
      PROVE  Answered(id)' /\ Exact(id)'
  <2>1. /\ log'[id].req = q /\ log'[id].ack = a /\ log'[id].replies = replies
        /\ log'[id].cvs = <<>>
    BY <1>2 DEF Grown
  <2>2. q.data \in Seq(0..255)
    BY RequestFields
  <2>3. CASE replies = <<>>
    <3>1. Answered(id)'
      BY <2>1, <2>3 DEF Answered
    <3>2. Exact(id)'
      <4>1. Len(log'[id].cvs) = 0 /\ Len(q.data) \in Nat
        BY <2>1, <2>2
      <4>2. QED  BY <2>1, <2>3, <4>1 DEF Exact
    <3>3. QED  BY <3>1, <3>2
  <2>4. CASE /\ a = "REPLY_PENDING" /\ ~IsTrainWrite(q)
             /\ \E rep \in Replies : rep.from = id /\ replies = <<rep>>
    <3>1. PICK rep \in Replies : rep.from = id /\ replies = <<rep>>
      BY <2>4
    <3>2. Len(replies) = 1 /\ replies[1] = rep
      BY <3>1
    <3>3. Answered(id)'
      BY <2>1, <2>4, <3>1, <3>2 DEF Answered
    <3>4. Exact(id)'
      BY <2>1, <2>4 DEF Exact
    <3>5. QED  BY <3>3, <3>4
  <2>5. QED  BY <1>2, <2>3, <2>4
<1>3. QED
  <2>1. \A k \in 1..Len(log') : k \in 1..Len(log) \/ k = Len(log) + 1
    BY <1>t
  <2>2. QED  BY <1>1, <1>2, <2>1

LEMMA RepliedKeeps ==
    ASSUME MemInv, NEW k \in 1..Len(log), Unanswered(k), NEW rep \in Replies, rep.from = k,
           Mem!send_reply(k, rep),
           IsTrainWrite(log[k].req) /\ log[k].req.addr < Mem!CV_DIRECT_COUNT =>
               (rep.error = "none" <=> Len(log[k].cvs) = Len(log[k].req.data))
    PROVE  /\ log' \in Seq(Entries) /\ Len(log') = Len(log)
           /\ \A j \in 1..Len(log) : log'[j].req = log[j].req
           /\ \A j \in 1..Len(log') : Answered(j)' /\ Exact(j)'
           /\ \A j \in 1..Len(log) : j # k /\ Unanswered(j) => Unanswered(j)'
<1>1. /\ log' \in Seq(Entries) /\ Len(log') = Len(log)
      /\ log'[k].req = log[k].req /\ log'[k].ack = log[k].ack /\ log'[k].cvs = log[k].cvs
      /\ log'[k].replies = <<rep>>
      /\ \A j \in 1..Len(log) : j # k => log'[j] = log[j]
  BY Replied DEF MemInv, MemTypes
<1>2. ASSUME NEW j \in 1..Len(log), j # k
      PROVE  Answered(j)' /\ Exact(j)' /\ (Unanswered(j) => Unanswered(j)')
  <2>1. log'[j] = log[j] /\ Answered(j) /\ Exact(j)
    BY <1>1, <1>2 DEF MemInv
  <2>2. Answered(j)'
    BY <2>1 DEF Answered
  <2>3. Exact(j)'
    BY <2>1 DEF Exact
  <2>4. QED  BY <2>1, <2>2, <2>3 DEF Unanswered
<1>3. Answered(k)' /\ Exact(k)'
  <2>1. Len(<<rep>>) = 1 /\ <<rep>>[1] = rep
    OBVIOUS
  <2>2. log[k].ack = "REPLY_PENDING" /\ Exact(k)
    BY DEF Unanswered, MemInv
  <2>3. Answered(k)'
    BY <1>1, <2>1, <2>2 DEF Answered
  <2>4. Exact(k)'
    BY <1>1, <2>1, <2>2 DEF Exact
  <2>5. QED  BY <2>3, <2>4
<1>4. QED  BY <1>1, <1>2, <1>3

-----------------------------------------------------------------------------
(* The invariant through each step.                                         *)

\* Fields and ranges, for every step.
LEMMA MemFacts ==
    ASSUME MemInv
    PROVE  /\ log \in Seq(Entries) /\ Len(log) \in Nat /\ Len(log) <= MaxRequests
           /\ g_deferred.state \in {"IDLE", "PENDING", "DONE"} /\ g_deferred.id \in 0..Len(log)
           /\ g_deferred.error \in Mem!Errors /\ g_deferred.from \in 0..Len(log)
           /\ lcc \in {"idle", "write", "defer"} /\ current \in 0..Len(log)
           /\ (lcc # "idle" => current \in 1..Len(log))
           /\ (g_deferred.state # "IDLE" => g_deferred.id \in 1..Len(log))
           /\ done \in Nat /\ error \in Mem!Errors /\ pom_cv_index \in 0..Mem!UINT16_MAX
           /\ svc_queue \in 0..Len(log) /\ svc_job \in 0..Len(log) /\ rc_job \in 0..Len(log)
<1>1. MemTypes /\ Len(log) \in Nat
  BY DEF MemInv, MemTypes
<1>2. QED  BY <1>1 DEF MemTypes

LEMMA EmptySlot ==
    ASSUME NEW n \in Nat, NEW sl, sl = Mem!Slot("IDLE", 0)
    PROVE  /\ sl.state = "IDLE" /\ sl.id = 0
           /\ sl \in [state : {"IDLE", "PENDING", "DONE"}, id : 0..n, error : Mem!Errors, from : 0..n]
<1>1. sl = [state |-> "IDLE", id |-> 0, error |-> "none", from |-> 0]
  BY DEF Mem!Slot
<1>2. "none" \in Mem!Errors /\ 0 \in 0..n
  BY DEF Mem!Errors
<1>3. QED  BY <1>1, <1>2

LEMMA DispatchStep ==
    ASSUME MemInv, NEW q \in MemRequests, Mem!lcc_datagram_dispatch(q)
    PROVE  MemInv'
<1> DEFINE id == Len(log) + 1
<1>t. /\ log \in Seq(Entries) /\ Len(log) \in Nat
      /\ g_deferred \in [state : {"IDLE", "PENDING", "DONE"}, id : 0..Len(log), error : Mem!Errors,
                         from : 0..Len(log)]
      /\ (g_deferred.state # "IDLE" => g_deferred.id # 0)
      /\ done \in Nat /\ error \in Mem!Errors /\ pom_cv_index \in 0..Mem!UINT16_MAX
      /\ svc_queue \in 0..Len(log) /\ svc_job \in 0..Len(log) /\ rc_job \in 0..Len(log)
  BY DEF MemInv, MemTypes
<1>1. /\ lcc = "idle" /\ Len(log) < MaxRequests /\ current' = id
      /\ UNCHANGED <<pom_cv_index, svc_queue, svc_job, g_busy, rc_job, railcom_on>>
      /\ Refused(q) \/ AtOnce(q) \/ PutOff(q) \/ WriteBegins(q)
  BY Dispatch DEF MemInv
<1>m. MaxRequests \in Nat
  BY MemRequestsAssumption DEF Mem!MemConfigAssumption
<1>2. /\ log' \in Seq(Entries) /\ Len(log') = id /\ log'[id].req = q
      /\ \A j \in 1..Len(log) : log'[j] = log[j]
  BY <1>1 DEF Refused, AtOnce, PutOff, WriteBegins, Grown
<1>3. /\ \A k \in 1..Len(log') : Answered(k)' /\ Exact(k)'
      /\ \A k \in 1..Len(log) : Unanswered(k) => Unanswered(k)'
  <2>1. CASE Refused(q)
    <3>1. PICK a \in {"REJECTED", "OK"} : Grown(q, a, <<>>)
      BY <2>1 DEF Refused
    <3>2. QED  BY <3>1, GrownKeeps
  <2>2. CASE AtOnce(q)
    <3>1. PICK rep \in Replies : rep.from = Len(log) + 1 /\ Grown(q, "REPLY_PENDING", <<rep>>)
      BY <2>2 DEF AtOnce
    <3>2. ~IsTrainWrite(q)
      BY <2>2 DEF AtOnce
    <3>3. QED  BY <3>1, <3>2, GrownKeeps
  <2>3. CASE PutOff(q) \/ WriteBegins(q)
    <3>1. Grown(q, "REPLY_PENDING", <<>>)
      BY <2>3 DEF PutOff, WriteBegins
    <3>2. QED  BY <3>1, GrownKeeps
  <2>4. QED  BY <1>1, <2>1, <2>2, <2>3
<1>n. /\ 0..Len(log) \subseteq 0..Len(log') /\ id \in 0..Len(log') /\ id # 0 /\ Len(log') <= MaxRequests
      /\ id \notin 0..Len(log)
  BY <1>t, <1>1, <1>2, <1>m
<1>4. CASE g_deferred' = g_deferred /\ lcc' = "idle" /\ UNCHANGED <<done, error>>
  <2>1. MemTypes'
    <3>1. g_deferred' \in [state : {"IDLE", "PENDING", "DONE"}, id : 0..Len(log'), error : Mem!Errors,
                           from : 0..Len(log')]
      BY <1>t, <1>n, <1>4
    <3>2. QED  BY <1>t, <1>1, <1>2, <1>n, <1>4, <3>1 DEF MemTypes
  <2>2. Held'
    BY <1>1, <1>4 DEF Held, MemInv
  <2>3. Open'
    <3>1. g_deferred.state # "IDLE" => g_deferred.id \in 1..Len(log)
      BY <1>t
    <3>2. QED  BY <1>2, <1>3, <1>4, <3>1 DEF Open, MemInv
  <2>4. Loop'
    BY <1>4 DEF Loop
  <2>5. QED  BY <1>3, <2>1, <2>2, <2>3, <2>4 DEF MemInv
<1>5. CASE PutOff(q)
  <2>0. /\ g_deferred.state = "IDLE" /\ g_deferred' = Mem!Slot("PENDING", id) /\ lcc' = "defer"
        /\ UNCHANGED <<done, error>> /\ Grown(q, "REPLY_PENDING", <<>>) /\ ~IsTrainWrite(q)
    BY <1>5 DEF PutOff
  <2>s. /\ g_deferred' = [state |-> "PENDING", id |-> id, error |-> "none", from |-> 0]
        /\ "none" \in Mem!Errors
    BY <2>0 DEF Mem!Slot, Mem!Errors
  <2>e. svc_queue = 0 /\ svc_job = 0 /\ rc_job = 0
    BY <2>0 DEF MemInv, Held
  <2>1. MemTypes'
    <3>1. g_deferred' \in [state : {"IDLE", "PENDING", "DONE"}, id : 0..Len(log'), error : Mem!Errors,
                           from : 0..Len(log')]
      BY <1>t, <1>n, <2>s
    <3>2. QED  BY <1>t, <1>1, <1>2, <1>n, <2>0, <2>s, <3>1 DEF MemTypes
  <2>2. Held'
    BY <1>1, <2>0, <2>s, <2>e DEF Held
  <2>3. Open'
    <3>1. log'[id].ack = "REPLY_PENDING" /\ log'[id].replies = <<>> /\ log'[id].req = q
      BY <2>0 DEF Grown
    <3>2. g_deferred'.id = id /\ current' = id
      BY <2>s, <1>1
    <3>3. QED  BY <2>0, <3>1, <3>2 DEF Open, Unanswered
  <2>4. Loop'
    BY <2>0 DEF Loop
  <2>5. QED  BY <1>3, <2>1, <2>2, <2>3, <2>4 DEF MemInv
<1>6. CASE WriteBegins(q)
  <2>0. /\ g_deferred' = g_deferred /\ lcc' = "write" /\ done' = 0 /\ error' = "none"
        /\ Grown(q, "REPLY_PENDING", <<>>) /\ IsTrainWrite(q) /\ q.space = "cv"
        /\ q.addr < Mem!CV_SPACE_SIZE
    BY <1>6 DEF WriteBegins
  <2>g. /\ log'[id].ack = "REPLY_PENDING" /\ log'[id].replies = <<>> /\ log'[id].req = q
        /\ log'[id].cvs = <<>>
    BY <2>0 DEF Grown
  <2>1. MemTypes'
    <3>1. g_deferred' \in [state : {"IDLE", "PENDING", "DONE"}, id : 0..Len(log'), error : Mem!Errors,
                           from : 0..Len(log')]
      BY <1>t, <1>n, <2>0
    <3>2. "none" \in Mem!Errors
      BY DEF Mem!Errors
    <3>3. QED  BY <1>t, <1>1, <1>2, <1>n, <2>0, <3>1, <3>2 DEF MemTypes
  <2>2. Held'
    <3>1. g_deferred.id # id
      BY <1>t, <1>n
    <3>2. QED  BY <1>1, <2>0, <3>1 DEF Held, MemInv
  <2>3. Open'
    <3>1. g_deferred.state # "IDLE" => g_deferred.id \in 1..Len(log)
      BY <1>t
    <3>2. (lcc # "idle" => Unanswered(current))'
      BY <1>1, <2>g DEF Unanswered
    <3>3. (g_deferred.state # "IDLE" =>
              Unanswered(g_deferred.id) /\ ~IsTrainWrite(log[g_deferred.id].req))'
      BY <1>2, <1>3, <2>0, <3>1 DEF Open, MemInv
    <3>4. QED  BY <3>2, <3>3 DEF Open
  <2>4. Loop'
    <3>1. Len(log'[id].cvs) = 0
      BY <2>g
    <3>2. QED  BY <1>1, <2>0, <2>g, <3>1 DEF Loop
  <2>5. QED  BY <1>3, <2>1, <2>2, <2>3, <2>4 DEF MemInv
<1>7. QED  BY <1>1, <1>4, <1>5, <1>6 DEF Refused, AtOnce

\* A reply that ends what the LCC task was at; the slot is as it was or empty.
LEMMA ReplyStep ==
    ASSUME MemInv, NEW k \in 1..Len(log), Unanswered(k), NEW rep \in Replies, rep.from = k,
           Mem!send_reply(k, rep),
           IsTrainWrite(log[k].req) /\ log[k].req.addr < Mem!CV_DIRECT_COUNT =>
               (rep.error = "none" <=> Len(log[k].cvs) = Len(log[k].req.data)),
           lcc' = "idle",
           UNCHANGED <<current, done, error, pom_cv_index, svc_queue, svc_job, rc_job>>,
           \/ /\ g_deferred' = g_deferred /\ lcc # "defer"
              /\ g_deferred.state # "IDLE" => g_deferred.id # k
           \/ /\ g_deferred' = Mem!Slot("IDLE", 0)
              /\ svc_queue = 0 /\ svc_job = 0 /\ rc_job = 0
    PROVE  MemInv'
<1>t. /\ log \in Seq(Entries) /\ Len(log) \in Nat /\ Len(log) <= MaxRequests
      /\ g_deferred \in [state : {"IDLE", "PENDING", "DONE"}, id : 0..Len(log), error : Mem!Errors,
                         from : 0..Len(log)]
      /\ current \in 0..Len(log) /\ (g_deferred.state # "IDLE" => g_deferred.id # 0)
      /\ done \in Nat /\ error \in Mem!Errors /\ pom_cv_index \in 0..Mem!UINT16_MAX
      /\ svc_queue \in 0..Len(log) /\ svc_job \in 0..Len(log) /\ rc_job \in 0..Len(log)
  BY DEF MemInv, MemTypes
<1>1. /\ log' \in Seq(Entries) /\ Len(log') = Len(log)
      /\ \A j \in 1..Len(log) : log'[j].req = log[j].req
      /\ \A j \in 1..Len(log') : Answered(j)' /\ Exact(j)'
      /\ \A j \in 1..Len(log) : j # k /\ Unanswered(j) => Unanswered(j)'
  BY RepliedKeeps
<1>2. Loop'
  BY DEF Loop
<1>3. CASE /\ g_deferred' = g_deferred /\ lcc # "defer"
           /\ g_deferred.state # "IDLE" => g_deferred.id # k
  <2>1. MemTypes'
    BY <1>t, <1>1, <1>3 DEF MemTypes
  <2>2. Held'
    BY <1>3 DEF Held, MemInv
  <2>3. Open'
    <3>1. g_deferred.state # "IDLE" => g_deferred.id \in 1..Len(log)
      BY <1>t
    <3>2. QED  BY <1>1, <1>3, <3>1 DEF Open, MemInv
  <2>4. QED  BY <1>1, <1>2, <2>1, <2>2, <2>3 DEF MemInv
<1>4. CASE /\ g_deferred' = Mem!Slot("IDLE", 0)
           /\ svc_queue = 0 /\ svc_job = 0 /\ rc_job = 0
  <2>s. /\ g_deferred'.state = "IDLE"
        /\ g_deferred' \in [state : {"IDLE", "PENDING", "DONE"}, id : 0..Len(log), error : Mem!Errors,
                            from : 0..Len(log)]
    BY <1>t, <1>4, EmptySlot
  <2>1. MemTypes'
    BY <1>t, <1>1, <2>s DEF MemTypes
  <2>2. Held'
    BY <1>4, <2>s DEF Held
  <2>3. Open'
    BY <2>s DEF Open
  <2>4. QED  BY <1>1, <1>2, <2>1, <2>2, <2>3 DEF MemInv
<1>5. QED  BY <1>3, <1>4

LEMMA WriteEndStep ==
    ASSUME MemInv, Mem!write_end
    PROVE  MemInv'
<1> DEFINE q == log[current].req
           err == IF error = "none" /\ Mem!InBounds < Len(q.data) THEN "OUT_OF_BOUNDS" ELSE error
           rep == Mem!Reply(err, 0, current)
<1>t. /\ log \in Seq(Entries) /\ Len(log) \in Nat /\ lcc = "write" /\ current \in 1..Len(log)
      /\ current \in Nat /\ error \in Mem!Errors /\ done \in Nat
  BY MemFacts DEF Mem!write_end
<1>q. q \in MemRequests /\ q.addr \in Nat /\ q.data \in Seq(0..255) /\ Len(q.data) \in Nat
  BY <1>t, EntryFields, RequestFields
<1>1. /\ Mem!send_reply(current, rep) /\ lcc' = "idle"
      /\ UNCHANGED <<g_deferred, current, done, error, pom_cv_index, svc_queue, svc_job, rc_job>>
      /\ done >= Mem!InBounds \/ error # "none"
  BY DEF Mem!write_end, Mem!jobs, Mem!Request
<1>2. err \in Mem!Errors
  BY <1>t DEF Mem!Errors
<1>b. /\ Mem!InBounds \in Int
      /\ IsTrainWrite(q) /\ q.addr < Mem!CV_DIRECT_COUNT => Mem!InBounds = Len(q.data)
  <2>1. IsTrainWrite(q) /\ q.space = "cv" /\ q.addr < Mem!CV_SPACE_SIZE
    BY <1>t DEF MemInv, Loop
  <2>2. Mem!Size(q) = Mem!CV_SPACE_SIZE
    BY <1>q, <2>1, SizeType DEF IsTrainWrite
  <2>3. Len(q.data) <= 65
    BY <1>q, RequestFields
  <2>4. Mem!InBounds = Mem!Min2(Len(q.data), Mem!CV_SPACE_SIZE - q.addr)
    BY <2>2 DEF Mem!InBounds, Mem!Request
  <2> HIDE DEF q
  <2>5. QED  BY <1>q, <2>3, <2>4, CvSpace DEF Mem!Min2
<1>3. IsTrainWrite(q) /\ q.addr < Mem!CV_DIRECT_COUNT =>
          (err = "none" <=> Len(log[current].cvs) = Len(q.data))
  <2> SUFFICES ASSUME IsTrainWrite(q), q.addr < Mem!CV_DIRECT_COUNT
               PROVE  err = "none" <=> Len(log[current].cvs) = Len(q.data)
    OBVIOUS
  <2>1. Len(log[current].cvs) = done /\ (error # "none" => done < Len(q.data))
    BY <1>t DEF MemInv, Loop
  <2>2. Len(log[current].cvs) <= Len(q.data)
    BY <1>t DEF MemInv, Exact
  <2>3. Mem!InBounds = Len(q.data)
    BY <1>b
  <2> HIDE DEF q
  <2>4. QED  BY <1>t, <1>q, <1>1, <2>1, <2>2, <2>3
<1> HIDE DEF err
<1>4. rep \in Replies /\ rep.from = current /\ rep.error = err
  BY <1>t, <1>2, ReplyType
<1> HIDE DEF rep
<1>5. Unanswered(current)
  BY <1>t DEF MemInv, Open
<1>6. g_deferred.state # "IDLE" => g_deferred.id # current
  BY <1>t DEF MemInv, Held
<1>7. QED  BY <1>t, <1>1, <1>3, <1>4, <1>5, <1>6, ReplyStep

LEMMA WriteNextStep ==
    ASSUME MemInv, Mem!write_next
    PROVE  MemInv'
<1> DEFINE q == log[current].req
           cvs == log[current].cvs
           bound == Mem!InBounds
           bytes == SubSeq(q.data, done + 1, bound)
           w == Mem!cv_space_write(q.addr + done, bytes)
           e == [log[current] EXCEPT !.cvs = cvs \o w.cvs]
<1>t. /\ log \in Seq(Entries) /\ Len(log) \in Nat /\ Len(log) <= MaxRequests
      /\ g_deferred \in [state : {"IDLE", "PENDING", "DONE"}, id : 0..Len(log), error : Mem!Errors,
                         from : 0..Len(log)]
      /\ lcc = "write" /\ current \in 1..Len(log) /\ (g_deferred.state # "IDLE" => g_deferred.id # 0)
      /\ done \in Nat /\ error = "none" /\ pom_cv_index \in 0..Mem!UINT16_MAX
      /\ svc_queue \in 0..Len(log) /\ svc_job \in 0..Len(log) /\ rc_job \in 0..Len(log)
  BY DEF MemInv, MemTypes, Mem!write_next
<1>q. /\ q \in MemRequests /\ q.addr \in Nat /\ q.data \in Seq(0..255) /\ Len(q.data) \in Nat
      /\ Len(q.data) <= 65 /\ log[current] \in Entries /\ cvs \in Seq(Nat) /\ Len(cvs) \in Nat
  BY <1>t, EntryFields, RequestFields
<1>1. /\ done < bound /\ done' = done + w.taken /\ error' = w.error /\ pom_cv_index' = w.index
      /\ log' = [log EXCEPT ![current] = e]
      /\ UNCHANGED <<g_deferred, lcc, current, svc_queue, svc_job, rc_job>>
  BY DEF Mem!write_next, Mem!jobs, Mem!Request
<1>s. IsTrainWrite(q) /\ q.space = "cv" /\ q.addr < Mem!CV_SPACE_SIZE
  BY <1>t DEF MemInv, Loop
<1>b. bound \in Int /\ bound <= Len(q.data)
  <2>1. Mem!Size(q) = Mem!CV_SPACE_SIZE
    BY <1>q, <1>s, SizeType DEF IsTrainWrite
  <2>2. bound = Mem!Min2(Len(q.data), Mem!CV_SPACE_SIZE - q.addr)
    BY <2>1 DEF Mem!InBounds, Mem!Request
  <2> HIDE DEF q, bound
  <2>3. QED  BY <1>q, <2>2, CvSpace DEF Mem!Min2
<1>c. q.addr < Mem!CV_DIRECT_COUNT => Len(cvs) = done
  BY <1>t DEF MemInv, Loop
<1>x. /\ Unanswered(current) /\ Answered(current) /\ Exact(current)
      /\ (g_deferred.state # "IDLE" => g_deferred.id # current)
  BY <1>t DEF MemInv, Open, Held
<1>p. IsTrainWrite(q) /\ q.addr < Mem!CV_DIRECT_COUNT => \A j \in 1..Len(cvs) : cvs[j] = q.addr + j
  BY <1>x DEF Exact
<1>a. /\ done \in Nat /\ q.addr \in Nat /\ Len(q.data) \in Nat /\ Len(q.data) <= 65
      /\ bound \in Int /\ bound <= Len(q.data) /\ done < bound /\ Len(cvs) \in Nat
  BY <1>t, <1>q, <1>b, <1>1
<1> HIDE DEF q, bound, cvs
<1>d. q.addr + done \in Nat
  BY ONLY <1>a
<1>2. bytes \in Seq(0..255) /\ Len(bytes) = bound - done /\ Len(bytes) > 0
  <2>1. done + 1 \in 1..Len(q.data) /\ bound \in done + 1..Len(q.data)
    BY ONLY <1>a
  <2>2. q.data \in Seq(0..255)
    BY <1>q
  <2>0. PICK Byte : Byte = 0..255
    OBVIOUS
  <2>a. q.data \in Seq(Byte)
    BY ONLY <2>0, <2>2
  <2>b. /\ SubSeq(q.data, done + 1, bound) \in Seq(Byte)
        /\ Len(SubSeq(q.data, done + 1, bound)) = bound - (done + 1) + 1
    BY ONLY <2>1, <2>a, Section, Zenon
  <2>3. /\ SubSeq(q.data, done + 1, bound) \in Seq(0..255)
        /\ Len(SubSeq(q.data, done + 1, bound)) = bound - (done + 1) + 1
    BY ONLY <2>0, <2>b
  <2>4. bound - (done + 1) + 1 = bound - done /\ bound - done > 0
    BY ONLY <1>a
  <2>5. bytes \in Seq(0..255) /\ Len(bytes) = bound - done
    BY ONLY <2>3, <2>4, Zenon DEF bytes
  <2>6. QED  BY ONLY <2>4, <2>5, Zenon
<1> HIDE DEF bytes
<1>3. /\ w.taken \in Nat /\ w.cvs \in Seq(Nat) /\ w.error \in Mem!Errors
      /\ w.index \in 0..Mem!UINT16_MAX
      /\ q.addr + done < Mem!CV_DIRECT_COUNT =>
            /\ w.error = "none" /\ w.taken = Len(w.cvs) /\ Len(w.cvs) <= Len(bytes)
            /\ \A j \in 1..Len(w.cvs) : w.cvs[j] = q.addr + done + j
      /\ q.addr + done >= Mem!CV_DIRECT_COUNT /\ q.addr + done < Mem!CV_OFFSET_INDEX =>
            w.error # "none" /\ w.taken = 0 /\ w.cvs = <<>>
  BY <1>t, <1>2, <1>d, WriteCall
<1> HIDE DEF w
<1>4. /\ cvs \o w.cvs \in Seq(Nat) /\ Len(cvs \o w.cvs) = Len(cvs) + Len(w.cvs)
      /\ \A j \in 1..Len(cvs) : (cvs \o w.cvs)[j] = cvs[j]
      /\ \A j \in 1..Len(cvs) + Len(w.cvs) : j > Len(cvs) => (cvs \o w.cvs)[j] = w.cvs[j - Len(cvs)]
  BY <1>q, <1>3
<1>5. /\ e \in Entries /\ e.req = q /\ e.ack = log[current].ack /\ e.replies = log[current].replies
      /\ e.cvs = cvs \o w.cvs
  BY <1>q, <1>4 DEF Entries, q
<1> HIDE DEF e
<1>6. /\ log' \in Seq(Entries) /\ Len(log') = Len(log) /\ log'[current] = e
      /\ \A j \in 1..Len(log) : j # current => log'[j] = log[j]
  BY ONLY <1>t, <1>1, <1>5, Replaced
<1>7. q.addr < Mem!CV_DIRECT_COUNT =>
          /\ Len(e.cvs) = done'
          /\ Len(e.cvs) <= Len(q.data)
          /\ (error' # "none" => done' < Len(q.data))
          /\ \A j \in 1..Len(e.cvs) : e.cvs[j] = q.addr + j
  <2> SUFFICES ASSUME q.addr < Mem!CV_DIRECT_COUNT
               PROVE  /\ Len(e.cvs) = done'
                      /\ Len(e.cvs) <= Len(q.data)
                      /\ (error' # "none" => done' < Len(q.data))
                      /\ \A j \in 1..Len(e.cvs) : e.cvs[j] = q.addr + j
    OBVIOUS
  <2>1. Len(cvs) = done
    BY <1>c
  <2>2. CASE q.addr + done < Mem!CV_DIRECT_COUNT
    <3>0. w.taken = Len(w.cvs) /\ Len(w.cvs) <= Len(bytes) /\ error' = "none" /\ done' = done + w.taken
      BY <1>1, <1>3, <2>2
    <3>1. Len(e.cvs) = done'
      BY <1>4, <1>5, <2>1, <3>0
    <3>2. Len(e.cvs) <= Len(q.data)
      <4>1. Len(w.cvs) \in Nat /\ Len(e.cvs) = done + Len(w.cvs) /\ Len(w.cvs) <= bound - done
        BY <1>2, <1>3, <3>0, <3>1
      <4>2. QED  BY ONLY <1>a, <4>1
    <3>3. ASSUME NEW j \in 1..Len(e.cvs)
          PROVE  e.cvs[j] = q.addr + j
      <4>1. CASE j <= Len(cvs)
        <5>1. j \in 1..Len(cvs)
          BY <1>q, <4>1
        <5>2. QED  BY <1>4, <1>5, <1>p, <1>s, <5>1
      <4>2. CASE j > Len(cvs)
        <5>1. j - Len(cvs) \in 1..Len(w.cvs) /\ j \in 1..Len(cvs) + Len(w.cvs)
          BY <1>q, <1>3, <1>4, <1>5, <4>2
        <5>2. e.cvs[j] = w.cvs[j - Len(cvs)]
          BY <1>4, <1>5, <4>2, <5>1
        <5>3. w.cvs[j - Len(cvs)] = q.addr + done + (j - Len(cvs))
          BY <1>3, <2>2, <5>1
        <5>4. QED  BY <1>q, <1>t, <2>1, <5>1, <5>2, <5>3
      <4>3. QED  BY <1>q, <4>1, <4>2
    <3>4. QED  BY <3>0, <3>1, <3>2, <3>3
  <2>3. CASE q.addr + done >= Mem!CV_DIRECT_COUNT
    <3>1. q.addr + done < Mem!CV_OFFSET_INDEX
      <4>1. Mem!CV_DIRECT_COUNT = 1024 /\ Mem!CV_OFFSET_INDEX \in Nat /\ Mem!CV_OFFSET_INDEX > 2000
        BY CvSpace
      <4>2. QED  BY ONLY <1>a, <4>1, q.addr < Mem!CV_DIRECT_COUNT
    <3>2. w.taken = 0 /\ w.cvs = <<>> /\ Len(w.cvs) = 0
      BY <1>3, <2>3, <3>1
    <3>3. done' = done /\ done < Len(q.data)
      BY <1>t, <1>q, <1>b, <1>1, <3>2
    <3>4. Len(e.cvs) = Len(cvs) /\ \A j \in 1..Len(cvs) : e.cvs[j] = cvs[j]
      BY <1>q, <1>4, <1>5, <3>2
    <3>5. \A j \in 1..Len(e.cvs) : e.cvs[j] = q.addr + j
      BY <1>p, <1>s, <3>4
    <3>6. Len(e.cvs) = done' /\ Len(e.cvs) <= Len(q.data) /\ done' < Len(q.data)
      BY ONLY <1>a, <2>1, <3>3, <3>4
    <3>7. QED  BY <3>5, <3>6
  <2>4. QED  BY <1>q, <1>t, <2>2, <2>3, CvSpace
<1>8. MemTypes'
  <2>0. done' = done + w.taken
    BY <1>1
  <2>a. done \in Nat /\ w.taken \in Nat
    BY <1>a, <1>3
  <2>1. done' \in Nat
    BY ONLY <2>0, <2>a
  <2>2. current' \in 0..Len(log') /\ current' # 0
    BY <1>t, <1>1, <1>6
  <2>3. QED  BY <1>t, <1>1, <1>3, <1>6, <2>1, <2>2 DEF MemTypes
<1>9. Held'
  BY <1>1 DEF MemInv, Held
<1>10. Open'
  <2>1. Unanswered(current)'
    BY <1>1, <1>5, <1>6, <1>x DEF Unanswered
  <2>2. g_deferred.state # "IDLE" => g_deferred.id \in 1..Len(log) /\ g_deferred.id # current
    BY <1>t, <1>x
  <2>3. (g_deferred.state # "IDLE" =>
            Unanswered(g_deferred.id) /\ ~IsTrainWrite(log[g_deferred.id].req))'
    BY <1>1, <1>6, <2>2 DEF Open, MemInv, Unanswered
  <2>4. QED  BY <2>1, <2>3 DEF Open
<1>11. Loop'
  <2>1. log'[current'].req = q /\ log'[current'].cvs = e.cvs
    BY <1>1, <1>5, <1>6
  <2>2. QED  BY <1>s, <1>7, <2>1 DEF Loop
<1>12. \A k \in 1..Len(log') : Answered(k)' /\ Exact(k)'
  <2> SUFFICES ASSUME NEW k \in 1..Len(log)
               PROVE  Answered(k)' /\ Exact(k)'
    BY <1>6
  <2>1. CASE k = current
    <3>1. /\ log'[k].req = q /\ log'[k].cvs = e.cvs /\ log'[k].ack = log[k].ack
          /\ log'[k].replies = log[k].replies /\ log[k].replies = <<>>
      BY <1>5, <1>6, <1>x, <2>1 DEF Unanswered
    <3>2. Answered(k)'
      BY <1>x, <2>1, <3>1 DEF Answered
    <3>3. Exact(k)'
      BY <1>7, <3>1 DEF Exact
    <3>4. QED  BY <3>2, <3>3
  <2>2. CASE k # current
    <3>1. log'[k] = log[k] /\ Answered(k) /\ Exact(k)
      BY <1>6, <2>2 DEF MemInv
    <3>2. Answered(k)'
      BY <3>1 DEF Answered
    <3>3. Exact(k)'
      BY <3>1 DEF Exact
    <3>4. QED  BY <3>2, <3>3
  <2>3. QED  BY <2>1, <2>2
<1>13. QED  BY <1>8, <1>9, <1>10, <1>11, <1>12 DEF MemInv

\* The log, the LCC task's loop and what is answered stay as they are.
LogKept == UNCHANGED <<log, current, done, error, pom_cv_index>>

LEMMA KeptLog ==
    ASSUME MemInv, LogKept
    PROVE  /\ \A k \in 1..Len(log') : Answered(k)' /\ Exact(k)'
           /\ \A k : Unanswered(k)' <=> Unanswered(k)
           /\ lcc' \in {lcc, "idle"} => Loop'
<1>1. \A k \in 1..Len(log') : Answered(k)' /\ Exact(k)'
  BY DEF MemInv, LogKept, Answered, Exact
<1>2. \A k : Unanswered(k)' <=> Unanswered(k)
  BY DEF LogKept, Unanswered
<1>3. lcc' = lcc => Loop'
  BY DEF MemInv, LogKept, Loop
<1>4. lcc' = "idle" => Loop'
  BY DEF Loop
<1>5. QED  BY <1>1, <1>2, <1>3, <1>4

\* The defer hooks.
LEMMA DeferStep ==
    ASSUME MemInv, Mem!progtrack_defer \/ Mem!cv_space_defer
    PROVE  MemInv'
<1>t. MemTypes /\ Held /\ Open
  BY DEF MemInv
<1>1. lcc = "defer" /\ lcc' = "idle" /\ UNCHANGED <<current, done, error, pom_cv_index, svc_job>>
  BY DEF Mem!progtrack_defer, Mem!cv_space_defer
<1>2. /\ g_deferred.state = "PENDING" /\ current = g_deferred.id
      /\ svc_queue = 0 /\ svc_job = 0 /\ rc_job = 0
      /\ current \in 1..Len(log) /\ current \in Nat
  BY <1>t, <1>1, MemFacts DEF Held
<1>3. Unanswered(current) /\ ~IsTrainWrite(log[current].req)
  BY <1>t, <1>1, <1>2 DEF Open
<1>4. ASSUME NEW err \in Mem!Errors, Mem!send_reply(current, Mem!Reply(err, 0, current)),
             g_deferred' = Mem!Slot("IDLE", 0), UNCHANGED <<svc_queue, rc_job>>
      PROVE  MemInv'
  <2> DEFINE rep == Mem!Reply(err, 0, current)
  <2>1. rep \in Replies /\ rep.from = current
    BY <1>2, <1>4, ReplyType
  <2>2. Mem!send_reply(current, rep)
    BY <1>4
  <2> HIDE DEF rep
  <2>3. QED  BY <1>1, <1>2, <1>3, <1>4, <2>1, <2>2, ReplyStep
<1>5. ASSUME \/ svc_queue' = current /\ rc_job' = rc_job
             \/ svc_queue' = svc_queue /\ rc_job' = current,
             UNCHANGED <<g_deferred, log>>
      PROVE  MemInv'
  <2>1. LogKept
    BY <1>1, <1>5 DEF LogKept
  <2>2. MemTypes'
    BY <1>t, <1>1, <1>5 DEF MemTypes
  <2>3. Held'
    BY <1>1, <1>2, <1>5 DEF Held
  <2>4. Open'
    BY <1>t, <1>1, <1>2, <1>5, <2>1, KeptLog DEF Open
  <2>5. QED  BY <1>1, <2>1, <2>2, <2>3, <2>4, KeptLog DEF MemInv
<1>6. CASE Mem!progtrack_defer
  <2> DEFINE err == CASE Mem!Request.cmd = "write" /\ Len(Mem!Request.data) # 1 -> "INVALID_ARGUMENTS"
                      [] svc_queue # 0 -> "TEMPORARY"
                      [] OTHER -> "none"
  <2>1. /\ rc_job' = rc_job
        /\ IF err = "none"
           THEN svc_queue' = current /\ UNCHANGED <<g_deferred, log>>
           ELSE /\ g_deferred' = Mem!Slot("IDLE", 0)
                /\ Mem!send_reply(current, Mem!Reply(err, 0, current))
                /\ UNCHANGED svc_queue
    BY <1>6 DEF Mem!progtrack_defer
  <2>2. err \in Mem!Errors
    BY <1>2 DEF Mem!Errors
  <2> HIDE DEF err
  <2>3. QED  BY <1>4, <1>5, <2>1, <2>2
<1>7. CASE Mem!cv_space_defer
  <2> DEFINE err == IF railcom_on THEN "TEMPORARY" ELSE "UNIMPLEMENTED_CMD"
  <2>1. /\ svc_queue' = svc_queue
        /\ IF railcom_on /\ ~g_busy
           THEN g_busy' = TRUE /\ rc_job' = current /\ UNCHANGED <<g_deferred, log>>
           ELSE /\ g_deferred' = Mem!Slot("IDLE", 0)
                /\ Mem!send_reply(current, Mem!Reply(err, 0, current))
                /\ UNCHANGED <<g_busy, rc_job>>
    BY <1>7 DEF Mem!cv_space_defer
  <2>2. err \in Mem!Errors
    BY DEF Mem!Errors
  <2> HIDE DEF err
  <2>3. QED  BY <1>4, <1>5, <2>1, <2>2
<1>8. QED  BY <1>6, <1>7

\* lcc_memconfig_flush_deferred.
LEMMA FlushDeferredStep ==
    ASSUME MemInv, Mem!lcc_memconfig_flush_deferred
    PROVE  MemInv'
<1> DEFINE id == g_deferred.id
           n == IF g_deferred.error = "none" THEN 1 ELSE 0
           rep == Mem!Reply(g_deferred.error, n, g_deferred.from)
<1>t. MemTypes /\ Held /\ Open
  BY DEF MemInv
<1>1. /\ lcc = "idle" /\ lcc' = "idle" /\ g_deferred.state = "DONE"
      /\ Mem!send_reply(id, rep) /\ g_deferred' = Mem!Slot("IDLE", 0)
      /\ UNCHANGED <<current, done, error, pom_cv_index, svc_queue, svc_job, rc_job>>
  BY DEF Mem!lcc_memconfig_flush_deferred, Mem!jobs, Mem!ResultReady, Mem!flush_frees
<1>2. /\ id \in 1..Len(log) /\ id \in Nat /\ g_deferred.from = id /\ g_deferred.error \in Mem!Errors
      /\ svc_queue = 0 /\ svc_job = 0 /\ rc_job = 0
  BY <1>t, <1>1, MemFacts DEF Held
<1>3. Unanswered(id) /\ ~IsTrainWrite(log[id].req)
  BY <1>t, <1>1 DEF Open
<1>4. rep \in Replies /\ rep.from = id
  <2>1. n \in Int
    OBVIOUS
  <2>2. QED  BY <1>2, <2>1, ReplyType
<1> HIDE DEF rep, id
<1>5. QED  BY <1>1, <1>2, <1>3, <1>4, ReplyStep

\* Service mode and RailCom.
LEMMA JobStep ==
    ASSUME MemInv,
           \/ Mem!svc_receive \/ Mem!railcom_free \/ Mem!set_railcom
           \/ \E err \in {"none", "DCC_NO_LOCO"} : Mem!progtrack_done(err) \/ Mem!pom_read_done(err)
    PROVE  MemInv'
<1>t. MemTypes /\ Held /\ Open
  BY DEF MemInv
<1>1. LogKept /\ lcc' = lcc
  BY DEF LogKept, Mem!svc_receive, Mem!railcom_free, Mem!set_railcom, Mem!progtrack_done,
         Mem!pom_read_done
<1>2. CASE Mem!svc_receive \/ Mem!railcom_free \/ Mem!set_railcom
  <2>1. /\ g_deferred' = g_deferred /\ rc_job' = rc_job
        /\ \/ UNCHANGED <<svc_queue, svc_job>>
           \/ svc_job = 0 /\ svc_queue # 0 /\ svc_job' = svc_queue /\ svc_queue' = 0
    BY <1>2 DEF Mem!svc_receive, Mem!railcom_free, Mem!set_railcom, Mem!jobs
  <2>2. MemTypes'
    BY <1>t, <1>1, <2>1 DEF MemTypes, LogKept
  <2>3. Held'
    BY <1>t, <1>1, <2>1 DEF Held, LogKept
  <2>4. Open'
    BY <1>t, <1>1, <2>1, KeptLog DEF Open, LogKept
  <2>5. QED  BY <1>1, <2>2, <2>3, <2>4, KeptLog DEF MemInv
<1>3. ASSUME NEW err \in {"none", "DCC_NO_LOCO"}, Mem!progtrack_done(err) \/ Mem!pom_read_done(err)
      PROVE  MemInv'
  <2> DEFINE job == g_deferred.id
  <2>1. g_deferred.state = "PENDING" /\ lcc # "defer" /\ svc_queue = 0
    BY <1>3, <1>t DEF Held, Mem!progtrack_done, Mem!pom_read_done
  <2>2. /\ g_deferred' = [g_deferred EXCEPT !.state = "DONE", !.error = err, !.from = job]
        /\ svc_queue' = 0 /\ svc_job' = 0 /\ rc_job' = 0
    BY <1>3, <1>t, <2>1 DEF Held, Mem!progtrack_done, Mem!pom_read_done, Mem!lcc_memconfig_complete
  <2>3. err \in Mem!Errors
    BY <1>3 DEF Mem!Errors
  <2>4. /\ g_deferred' \in [state : {"IDLE", "PENDING", "DONE"}, id : 0..Len(log), error : Mem!Errors,
                            from : 0..Len(log)]
        /\ g_deferred'.state = "DONE" /\ g_deferred'.id = job /\ g_deferred'.from = job
    BY <1>t, <2>2, <2>3 DEF MemTypes
  <2>5. MemTypes'
    BY <1>t, <1>1, <2>1, <2>2, <2>4 DEF MemTypes, LogKept
  <2>6. Held'
    BY <1>t, <1>1, <2>1, <2>2, <2>4 DEF Held, LogKept
  <2>7. Open'
    BY <1>t, <1>1, <2>1, <2>4, KeptLog DEF Open, LogKept
  <2>8. QED  BY <1>1, <2>5, <2>6, <2>7, KeptLog DEF MemInv
<1>4. QED  BY <1>2, <1>3

LEMMA MemInit ==
    ASSUME Mem!Init
    PROVE  MemInv
<1>1. log = <<>> /\ Len(log) = 0 /\ log \in Seq(Entries)
  BY DEF Mem!Init
<1>2. /\ g_deferred.state = "IDLE"
      /\ g_deferred \in [state : {"IDLE", "PENDING", "DONE"}, id : 0..Len(log), error : Mem!Errors,
                         from : 0..Len(log)]
  BY <1>1, EmptySlot DEF Mem!Init
<1>3. /\ lcc = "idle" /\ current = 0 /\ done = 0 /\ error \in Mem!Errors /\ pom_cv_index = 0
      /\ svc_queue = 0 /\ svc_job = 0 /\ rc_job = 0
  BY DEF Mem!Init, Mem!Errors
<1>m. MaxRequests \in Nat /\ Mem!UINT16_MAX \in Nat
  BY MemRequestsAssumption DEF Mem!MemConfigAssumption, Mem!UINT16_MAX
<1>4. MemTypes
  BY <1>1, <1>2, <1>3, <1>m DEF MemTypes
<1>5. Held /\ Open /\ Loop
  BY <1>2, <1>3 DEF Held, Open, Loop
<1>6. \A k \in 1..Len(log) : Answered(k) /\ Exact(k)
  BY <1>1
<1>7. QED  BY <1>4, <1>5, <1>6 DEF MemInv

LEMMA MemStep ==
    ASSUME MemInv, Mem!Next \/ UNCHANGED mem_vars
    PROVE  MemInv'
<1>1. CASE \E q \in MemRequests : Mem!lcc_datagram_dispatch(q)
  BY <1>1, DispatchStep
<1>2. CASE Mem!write_next
  BY <1>2, WriteNextStep
<1>3. CASE Mem!write_end
  BY <1>3, WriteEndStep
<1>4. CASE Mem!progtrack_defer \/ Mem!cv_space_defer
  BY <1>4, DeferStep
<1>5. CASE Mem!lcc_memconfig_flush_deferred
  BY <1>5, FlushDeferredStep
<1>6. CASE \/ Mem!svc_receive \/ Mem!railcom_free \/ Mem!set_railcom
           \/ \E err \in {"none", "DCC_NO_LOCO"} : Mem!progtrack_done(err) \/ Mem!pom_read_done(err)
  BY <1>6, JobStep
<1>7. CASE UNCHANGED mem_vars
  <2>1. LogKept /\ UNCHANGED <<g_deferred, lcc, svc_queue, svc_job, rc_job>>
    BY <1>7 DEF LogKept, mem_vars
  <2>2. MemTypes'
    BY <2>1 DEF MemInv, MemTypes, LogKept
  <2>3. Held'
    BY <2>1 DEF MemInv, Held, LogKept
  <2>4. Open'
    BY <2>1, KeptLog DEF MemInv, Open, LogKept
  <2>5. QED  BY <2>1, <2>2, <2>3, <2>4, KeptLog DEF MemInv
<1>8. QED  BY <1>1, <1>2, <1>3, <1>4, <1>5, <1>6, <1>7
           DEF Mem!Next, Mem!lcc_task, Mem!svc_task, Mem!rc_task

LEMMA MemAlways == AllSpec => []MemInv
<1>1. AllInit => MemInv
  BY MemInit DEF AllInit
<1>2. MemInv /\ [AllNext]_all_vars => MemInv'
  <2> SUFFICES ASSUME MemInv, [AllNext]_all_vars PROVE MemInv'
    OBVIOUS
  <2>1. Mem!Next \/ UNCHANGED mem_vars
    BY DEF AllNext, all_vars
  <2>2. QED  BY <2>1, MemStep
<1>3. QED  BY <1>1, <1>2, PTL DEF AllSpec

LEMMA Spelled ==
    ASSUME NEW sq \in Seq(Nat), NEW a, \A j \in 1..Len(sq) : sq[j] = a + j
    PROVE  sq = [j \in 1..Len(sq) |-> a + j]
<1>1. sq \in [1..Len(sq) -> Nat]
  OBVIOUS
<1> DEFINE f == [j \in 1..Len(sq) |-> a + j]
<1>2. DOMAIN f = 1..Len(sq) /\ \A j \in 1..Len(sq) : sq[j] = f[j]
  OBVIOUS
<1>3. QED  BY <1>1, <1>2

(* However datagrams, the service mode task and the RailCom task interleave, *)
(* lcc_memconfig_flush_deferred and the write loop answer every request at   *)
(* most once and with its own operation's result, the one deferred slot is   *)
(* pending exactly while its operation is under way, and a write to CVs      *)
(* reaches those it names, in order and once, the two-byte CVs included;     *)
(* its reply reports an error exactly when some byte was not written.  For   *)
(* any requests, whatever their spaces, addresses and lengths.               *)
THEOREM RequestsServed == AllSpec => []RequestsAreServed
<1>1. MemInv => RequestsAreServed
  <2> SUFFICES ASSUME MemInv PROVE RequestsAreServed
    OBVIOUS
  <2>l. log \in Seq(Entries) /\ Len(log) \in Nat /\ DOMAIN log = 1..Len(log)
    BY DEF MemInv, MemTypes
  <2>f. /\ (lcc # "idle" => current # 0) /\ (g_deferred.state # "IDLE" => g_deferred.id # 0)
    BY DEF MemInv, MemTypes
  <2>1. Mem!SlotMatchesJob
    <3>1. CASE g_deferred.state # "PENDING"
      BY <3>1 DEF MemInv, Held, Mem!SlotMatchesJob
    <3>2. CASE g_deferred.state = "PENDING"
      BY <3>2, <2>f DEF MemInv, Held, Mem!SlotMatchesJob
    <3>3. QED  BY <3>1, <3>2
  <2>2. Mem!OneReplyEach
    <3> SUFFICES ASSUME NEW k \in 1..Len(log)
                 PROVE  /\ Len(log[k].replies) <= 1
                        /\ log[k].ack # "REPLY_PENDING" => log[k].replies = <<>>
                        /\ \A r \in Mem!ToSet(log[k].replies) : r.from = k
      BY <2>l DEF Mem!OneReplyEach
    <3>1. Answered(k)
      BY DEF MemInv
    <3>2. log[k].replies \in Seq(Replies)
      BY <2>l, EntryFields
    <3>3. Mem!ToSet(log[k].replies) = {log[k].replies[j] : j \in DOMAIN log[k].replies}
      BY DEF Mem!ToSet
    <3>4. ASSUME NEW r \in Mem!ToSet(log[k].replies)
          PROVE  r.from = k
      <4>1. PICK j \in DOMAIN log[k].replies : r = log[k].replies[j]
        BY <3>3
      <4>2. j = 1 /\ log[k].replies # <<>>
        BY <3>1, <3>2, <4>1 DEF Answered
      <4>3. QED  BY <3>1, <4>1, <4>2 DEF Answered
    <3>5. QED  BY <3>1, <3>4 DEF Answered
  <2>3. Mem!WritesAreExact
    <3> SUFFICES ASSUME NEW k \in 1..Len(log), IsTrainWrite(log[k].req),
                        log[k].req.addr < Mem!CV_DIRECT_COUNT
                 PROVE  /\ log[k].cvs = [j \in 1..Len(log[k].cvs) |-> log[k].req.addr + j]
                        /\ Len(log[k].cvs) <= Len(log[k].req.data)
                        /\ log[k].replies # <<>> =>
                              (log[k].replies[1].error = "none"
                                  <=> Len(log[k].cvs) = Len(log[k].req.data))
      BY <2>l DEF Mem!WritesAreExact, IsTrainWrite
    <3>1. Exact(k)
      BY DEF MemInv
    <3>2. log[k].cvs \in Seq(Nat)
      BY <2>l, EntryFields
    <3>3. /\ \A j \in 1..Len(log[k].cvs) : log[k].cvs[j] = log[k].req.addr + j
          /\ Len(log[k].cvs) <= Len(log[k].req.data)
          /\ log[k].replies # <<>> =>
                (log[k].replies[1].error = "none" <=> Len(log[k].cvs) = Len(log[k].req.data))
      BY <3>1 DEF Exact
    <3>4. log[k].cvs = [j \in 1..Len(log[k].cvs) |-> log[k].req.addr + j]
      BY ONLY <3>2, <3>3, Spelled
    <3>5. QED  BY <3>3, <3>4
  <2>4. QED  BY <2>1, <2>2, <2>3 DEF RequestsAreServed
<1>2. QED  BY <1>1, MemAlways, PTL

\* The types of both components, and that the latched CV index keeps to 16 bits.
THEOREM TypeCorrect == AllSpec => []AllTypeOK
<1>1. MemInv => Mem!TypeOK
  <2> SUFFICES ASSUME MemInv PROVE Mem!TypeOK
    OBVIOUS
  <2>1. \A k \in DOMAIN log : log[k].req \in MemRequests
    <3>1. log \in Seq(Entries) /\ DOMAIN log = 1..Len(log)
      BY DEF MemInv, MemTypes
    <3>2. QED  BY <3>1, EntryFields
  <2>2. QED  BY <2>1, MemFacts DEF Mem!TypeOK
<1>2. ImageInv => TypeOK
  <2> SUFFICES ASSUME ImageInv PROVE TypeOK
    OBVIOUS
  <2>1. ImageTypes /\ "lcc" \in Tasks
    BY DEF ImageInv, Tasks
  <2>2. pc["lcc"] \in LccPcs
    BY <2>1 DEF ImageTypes
  <2>3. QED  BY ONLY <2>1, <2>2, Zenon DEF ImageTypes, TypeOK, Limits, LccPcs, FlushPcs
<1>3. QED  BY <1>1, <1>2, ImageAlways, MemAlways, PTL DEF AllTypeOK
=============================================================================
