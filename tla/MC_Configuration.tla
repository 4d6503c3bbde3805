-------------------------- MODULE MC_Configuration --------------------------
(***************************************************************************)
(* Configuration over the bus: the memory configuration requests           *)
(* (MemConfig) and the image that those for the configuration space change *)
(* (NvConfig, extended).  A behaviour is one of the component in part; the *)
(* other stays in an initial state.                                        *)
(***************************************************************************)
EXTENDS MC_NvConfig, Sequences

CONSTANTS MemRequests, MaxRequests, CDI_SIZE

VARIABLES part, g_deferred, lcc, current, done, error, pom_cv_index,
          svc_queue, svc_job, g_busy, rc_job, railcom_on, log

mem_vars == <<g_deferred, lcc, current, done, error, pom_cv_index,
              svc_queue, svc_job, g_busy, rc_job, railcom_on, log>>
all_vars == <<part, vars, mem_vars>>

Mem == INSTANCE MemConfig WITH Requests <- MemRequests

ASSUME MemRequestsAssumption == Mem!MemConfigAssumption

(* Requests at the edges of the CV spaces: a read and writes on the          *)
(* programming track, POM reads, writes that cross the two-byte CVs or the   *)
(* end of the direct CVs, the index registers, and requests to refuse.       *)
ReadOf(node, space, addr, count) ==
    [cmd |-> "read", node |-> node, space |-> space, addr |-> addr, count |-> count,
     data |-> <<>>]
WriteOf(node, space, addr, data) ==
    [cmd |-> "write", node |-> node, space |-> space, addr |-> addr, count |-> 0,
     data |-> data]
Other(cmd) == [ReadOf("cs", "cv", 0, 0) EXCEPT !.cmd = cmd]

\* 0x7F000000: the index register, then value, verify value, verify result.
Index == 2130706432

EdgeRequests == {
    ReadOf("cs", "cv", 0, 1), ReadOf("cs", "cv", 1024, 1),
    WriteOf("cs", "cv", 0, <<1>>), WriteOf("cs", "cv", 0, <<1, 2>>),
    ReadOf("train", "cv", 0, 1), ReadOf("train", "cv", 1024, 1),
    ReadOf("train", "cv", Index + 4, 1),
    ReadOf("train", "cv", Index + 1, 64),
    ReadOf("train", "cv", Index + 6, 1),
    ReadOf("train", "cv", Index + 7, 1),
    WriteOf("train", "cv", 15, <<1, 2, 3, 4>>), WriteOf("train", "cv", 18, <<1>>),
    WriteOf("train", "cv", 1023, <<1, 2>>),
    WriteOf("train", "cv", Index, <<0, 1, 0, 3, 9>>),
    WriteOf("train", "cv", Index + 3, <<0>>),
    WriteOf("train", "cv", Index + 5, <<1, 2, 3>>),
    WriteOf("train", "cv", Index + 7, <<1>>),
    ReadOf("train", "cdi", 8, 64), WriteOf("cs", "cdi", 0, <<1>>),
    ReadOf("cs", "unknown", 0, 1),
    Other("options"), Other("update_complete"), Other("lock"),
    [ReadOf("cs", "unknown", 0, 0) EXCEPT !.cmd = "space_info"] }

AllInit ==
    /\ part \in {"image", "requests"}
    /\ Init /\ Mem!Init
    /\ part = "requests" => flash = Old(9, 12, 0)

AllNext ==
    /\ UNCHANGED part
    /\ \/ part = "image"    /\ Next     /\ UNCHANGED mem_vars
       \/ part = "requests" /\ Mem!Next /\ UNCHANGED vars

\* The fairness of each component, while it is the one that runs.
AllSpec ==
    /\ AllInit /\ [][AllNext]_all_vars
    /\ WF_vars(part = "image" /\ lcc_task)
    /\ WF_vars(part = "image" /\ fire)
    /\ \A t \in Tasks : WF_vars(part = "image" /\ flush(t))
    /\ WF_mem_vars(part = "requests" /\ Mem!lcc_task)
    /\ WF_mem_vars(part = "requests" /\ Mem!svc_task)
    /\ WF_mem_vars(part = "requests" /\ Mem!rc_task)

-----------------------------------------------------------------------------

\* Every variable has its type; the latched CV number keeps to 16 bits.
AllTypeOK == TypeOK /\ Mem!TypeOK

(* The deferred slot belongs to the operation that is running for it;       *)
(* lcc_memconfig_flush_deferred answers a request once, with its own        *)
(* result; and a write changes the CVs it names and no others.              *)
RequestsAreServed == Mem!SlotMatchesJob /\ Mem!OneReplyEach /\ Mem!WritesAreExact

(* After any loss of power the station boots with a usable image, which was *)
(* migrated once, and the hardware has the settings the image says.         *)
ImageIsUsable == BootIsUsable /\ MigratesOnce /\ HardwareFollows

(* Every request that was accepted is answered, and an image that differs   *)
(* from the flash is saved.                                                 *)
RequestsComplete ==
    /\ Mem!AcceptedIsAnswered
    /\ part = "image" => UnsavedIsSaved
=============================================================================
