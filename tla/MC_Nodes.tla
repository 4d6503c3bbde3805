------------------------------ MODULE MC_Nodes ------------------------------
(***************************************************************************)
(* The station's LCC nodes: how they get their aliases (LccAlias,          *)
(* extended), how throttles find trains (TrainSearch) and drive them       *)
(* (Traction), and the event side (Events).  A behaviour is one of the     *)
(* component in part; the others stay in their initial state.              *)
(***************************************************************************)
EXTENDS LccAlias

CONSTANTS
    Searches, VerifyIds, LCC_TRAIN_POOL_SIZE, MaxRequests,
    Trains, Far, Throttles, Aliases, Speeds, Fns, LCC_MAX_CONSIST_SLAVES,
    Mixes,
    LCC_MAX_EVENT_REGISTRATIONS, LCC_MAX_EVENT_RANGES, EventTrains, Addrs, Aspects,
    MaxReports

VARIABLES
    part,
    pool, answers, owed, requests,
    mix, train, dcc, held, calls, command, hits, holder, believes, notice, ops,
    g_table, g_ranges, g_known, g_normal, power_on, stop_held, confirmed, replies,
    reported, handled, sent, aspect

search_vars == <<pool, answers, owed, requests>>
train_vars == <<mix, train, dcc, held, calls, command, hits, holder, believes, notice, ops>>
event_vars == <<g_table, g_ranges, g_known, g_normal, power_on, stop_held, confirmed,
                replies, reported, handled, sent, aspect>>
all_vars == <<part, vars, search_vars, train_vars, event_vars>>

Search == INSTANCE TrainSearch

Drive == INSTANCE Traction WITH Remote <- {Far}

Event == INSTANCE Events WITH Trains <- EventTrains, held <- stop_held, calls <- handled

ASSUME NodesAssumption ==
    Search!SearchAssumption /\ Drive!TractionAssumption /\ Event!EventsAssumption

(* The aliases a node tries, one after the other; as many as the frames of  *)
(* other nodes can make it try.                                             *)
CandidatesOf(n) ==
    LET c[k \in 0..MaxRemote] == IF k = 0 THEN lcc_alias_seed(Ids[n]) ELSE lcc_alias_next(c[k - 1])
    IN  c

IsCandidates(n, c) ==
    /\ c \in [0..MaxRemote -> Chunk \ {0}] /\ c[0] = lcc_alias_seed(Ids[n])
    /\ \A k \in 1..MaxRemote : c[k] = lcc_alias_next(c[k - 1])

\* The shift register does not come round to a candidate again: it has 91 of them.
ASSUME CandidatesAssumption ==
    \A n \in Nodes :
        /\ IsCandidates(n, CandidatesOf(n))
        /\ \A j, k \in 0..MaxRemote : CandidatesOf(n)[j] = CandidatesOf(n)[k] => j = k

(* The command station 05.02.01.02.02.00 and the train node                *)
(* 06.01.00.00.C0.03 of the long DCC address 3; other nodes may defend the *)
(* first candidates of both.                                               *)
TwoNodes == <<<<80, 513, 32, 512>>, <<96, 256, 12, 3>>>>

FirstCandidates ==
    UNION {{lcc_alias_seed(Ids[n]), lcc_alias_next(lcc_alias_seed(Ids[n]))} : n \in Nodes}

(* Searches: prefixes of each other, a leading zero, a reserved digit, no  *)
(* digit at all, more than 16 bits.                                        *)
Query(ds, flags) == [digits |-> [i \in 1..6 - Len(ds) |-> 15] \o ds, flags |-> flags]

SomeSearches == {
    Query(<<3>>, {"DCC", "ALLOCATE", "EXACT"}), Query(<<3>>, {"DCC"}), Query(<<3>>, {}),
    Query(<<3, 0, 0>>, {"DCC", "ALLOCATE"}), Query(<<0, 3>>, {"ALLOCATE", "EXACT"}),
    Query(<<11>>, {"ALLOCATE"}), Query(<<>>, {"ALLOCATE", "DCC"}),
    Query(<<3>>, {"LONG_ADDR", "ALLOCATE"}), Query(<<9, 9, 9, 9, 9, 9>>, {"ALLOCATE"}) }

\* Node ids of short addresses and, with the selector 0xC000, of a long one.
SomeIds == {0, 3, 49152 + 300, 300}

(* Three mixes of requests: commands to trains in consists; longer          *)
(* sequences of changes to the consists; throttles that come, take trains  *)
(* from each other, and go.                                                *)
ThreeMixes == <<
    [ops |-> {"speed", "fn", "estop", "attach", "hold"},
     flags |-> {{}, {"REVERSE", "LINKF0"}, {"LINKFN"}}, max |-> 3],
    [ops |-> {"attach", "estop"}, flags |-> {{"REVERSE"}}, max |-> 4],
    [ops |-> {"assign"}, flags |-> {}, max |-> 5] >>

AllInit ==
    /\ part \in {"alias", "search", "trains", "events"}
    /\ part # "trains" => mix = 1
    /\ Init /\ Search!Init /\ Drive!Init /\ Event!Init

AllNext ==
    /\ UNCHANGED part
    /\ \/ part = "alias"  /\ Next        /\ UNCHANGED <<search_vars, train_vars, event_vars>>
       \/ part = "search" /\ Search!Next /\ UNCHANGED <<vars, train_vars, event_vars>>
       \/ part = "trains" /\ Drive!Next  /\ UNCHANGED <<vars, search_vars, event_vars>>
       \/ part = "events" /\ Event!Next  /\ UNCHANGED <<vars, search_vars, train_vars>>

\* The fairness of each component, while it is the one that runs.
AllSpec ==
    /\ AllInit /\ [][AllNext]_all_vars
    /\ WF_vars(part = "alias" /\ tick)
    /\ WF_vars(part = "alias" /\ \E n \in Nodes : lcc_alias_tick(n))
    /\ WF_vars(part = "alias" /\ lcc_if_dispatch)
    /\ WF_search_vars(part = "search" /\ Search!lcc_train_search_flush_pending)
    /\ \A s \in 1..LCC_TRAIN_POOL_SIZE : WF_search_vars(part = "search" /\ Search!confirm(s))

-----------------------------------------------------------------------------

\* Every variable has its type, and tables keep within their size.
AllTypeOK == TypeOK /\ Search!TypeOK /\ Drive!TypeOK /\ Event!TypeOK

(* One local node reserves at a time, no alias is confirmed that a frame    *)
(* dispatched during its reservation defended, and a host that listens      *)
(* knows the aliases.                                                       *)
AliasesAreSound == ReservationsSerialized /\ ObjectionsRespected /\ HostKnowsAliases

(* train_allocator never makes two trains for one address, and a train is   *)
(* found under the search event made from its address.                      *)
SearchesFindTrains == Search!OneTrainPerAddress /\ Search!FoundByAddress

(* Consist slaves follow their lead train as their flags say; a command is  *)
(* obeyed once by each train, also where consists list each other; a table  *)
(* is a set without the train itself; a train node's speed, direction and   *)
(* functions are what the engine was told, and the E-Stop bit of a query's  *)
(* answer is true (for speeds that are numbers).                            *)
ConsistsObey ==
    /\ Drive!ConsistFollows /\ Drive!ObeysOnce /\ Drive!TableIsASet
    /\ Drive!EngineAgrees /\ Drive!EstopBitIsTrue

\* A throttle that lost a train was told, and the notice goes to nobody else.
ControllersAreTold == Drive!LosersAreTold /\ Drive!NoticeToLoser

(* An identify reply says what the reports so far left in effect; the       *)
(* ranges a node announces are those it consumes; and a report reaches one  *)
(* handler.                                                                 *)
EventsAreTrue == Event!RepliesAreTrue /\ Event!ClaimedIsConsumed /\ Event!ReportsAreActed

(* A registered node gets its alias, unless some node used up its retries,  *)
(* and a train without an alias answers its pending search once it has one. *)
NodesAnswer ==
    /\ part = "alias" => NodesGetAliases
    /\ Search!OwedIsAnswered
=============================================================================
