------------------------------ MODULE MCOffload ------------------------------
(* KV offloading, one scenario for each instance.                            *)
(*   lru     two clients whose chains share their first block, over fewer    *)
(*           CPU blocks, one failing store                                   *)
(*   arc     the same with ARC                                               *)
(*   ghosts  ARC, one client with a chain that overfills a ghost list        *)
(*   shared  the connector: two requests with a common, offloaded prefix     *)
(*           beside a third, prefix caching, one abort                       *)
(*   tight   the connector: three requests over few GPU blocks, so that      *)
(*           requests are preempted while their stores are under way         *)
(*   reset   the connector: a prefix cache reset that preempts all running   *)
(*           requests                                                        *)
EXTENDS Integers, Sequences

CONSTANTS Scenarios,
          TouchesUnready \* ARC's clients touch what they have just prepared to
                         \* store, as the connector does, and not only ready blocks

Unused == "unused"

VARIABLES
  scenario,
  ref_cnt, block_id, backend, announced, loading, storing, failures,
  blocks, kept,
  t1, t2, b1, b2, target_t1_size, raised,
  phase, Q, S, G, C, M, W, failed, aborts, resets

manager == <<ref_cnt, block_id, backend, announced, loading, storing, failures>>
lruOnly == <<blocks, kept>>
arcOnly == <<t1, t2, b1, b2, target_t1_size, raised>>
connector == <<phase, Q, S, G, C, M, W, failed, aborts, resets>>
vars == <<scenario, manager, lruOnly, arcOnly, connector>>

Lru == INSTANCE LRUOffloadingManager WITH
  num_blocks <- 3, Hashes <- {"a", "b", "c", "d", "e"}, Clients <- {1, 2},
  Chain <- << <<"a", "b", "c">>, <<"a", "d", "e">> >>, MaxFailures <- 1
Arc == INSTANCE ARCOffloadingManager WITH
  num_blocks <- 2, Hashes <- {"a", "b", "c"}, Clients <- {1, 2},
  Chain <- << <<"a", "b">>, <<"a", "c">> >>, MaxFailures <- 0
Ghosts == INSTANCE ARCOffloadingManager WITH
  num_blocks <- 1, Hashes <- {"a", "b", "c", "d"}, Clients <- {1},
  Chain <- << <<"a", "b", "c", "d">> >>, MaxFailures <- 1

Shared == INSTANCE OffloadingConnector WITH
  Chain <- << <<"a", "b", "c">>, <<"a", "b", "d", "e">>, <<"f", "g", "h">> >>,
  Hashes <- {"a", "b", "c", "d", "e", "f", "g", "h"},
  NumGpuBlocks <- 8, NumCpuBlocks <- 3, max_num_scheduled_tokens <- 2,
  long_prefill_token_threshold <- 2, enable_prefix_caching <- TRUE,
  Warm <- {"a", "b"}, MaxAborts <- 1, MaxResets <- 0
Tight == INSTANCE OffloadingConnector WITH
  Chain <- << <<"a", "b", "c">>, <<"d", "e", "f">>, <<"d", "e", "g">> >>,
  Hashes <- {"a", "b", "c", "d", "e", "f", "g"},
  NumGpuBlocks <- 5, NumCpuBlocks <- 5, max_num_scheduled_tokens <- 2,
  long_prefill_token_threshold <- 1, enable_prefix_caching <- FALSE,
  Warm <- {}, MaxAborts <- 0, MaxResets <- 0
Reset == INSTANCE OffloadingConnector WITH
  Chain <- << <<"a", "b", "c">>, <<"d", "e", "f">> >>,
  Hashes <- {"a", "b", "c", "d", "e", "f"},
  NumGpuBlocks <- 5, NumCpuBlocks <- 5, max_num_scheduled_tokens <- 2,
  long_prefill_token_threshold <- 1, enable_prefix_caching <- TRUE,
  Warm <- {}, MaxAborts <- 0, MaxResets <- 1

In(s) == scenario = s

NoManager ==
  /\ ref_cnt = Unused /\ block_id = Unused /\ backend = Unused /\ announced = Unused
  /\ loading = Unused /\ storing = Unused /\ failures = Unused
NoLru == blocks = Unused /\ kept = Unused
NoArc ==
  /\ t1 = Unused /\ t2 = Unused /\ b1 = Unused /\ b2 = Unused
  /\ target_t1_size = Unused /\ raised = Unused
NoConnector ==
  /\ phase = Unused /\ Q = Unused /\ S = Unused /\ G = Unused /\ C = Unused
  /\ M = Unused /\ W = Unused /\ failed = Unused /\ aborts = Unused /\ resets = Unused

Init ==
  /\ scenario \in Scenarios
  /\ \/ In("lru") /\ Lru!Init /\ NoArc /\ NoConnector
     \/ In("arc") /\ Arc!Init /\ NoLru /\ NoConnector
     \/ In("ghosts") /\ Ghosts!Init /\ NoLru /\ NoConnector
     \/ In("shared") /\ Shared!Init /\ NoManager /\ NoLru /\ NoArc
     \/ In("tight") /\ Tight!Init /\ NoManager /\ NoLru /\ NoArc
     \/ In("reset") /\ Reset!Init /\ NoManager /\ NoLru /\ NoArc

Next ==
  \/ In("lru") /\ Lru!Next /\ UNCHANGED <<scenario, arcOnly, connector>>
  \/ In("arc") /\ Arc!Next /\ UNCHANGED <<scenario, lruOnly, connector>>
  \/ In("ghosts") /\ Ghosts!Next /\ UNCHANGED <<scenario, lruOnly, connector>>
  \/ In("shared") /\ Shared!Next /\ UNCHANGED <<scenario, manager, lruOnly, arcOnly>>
  \/ In("tight") /\ Tight!Next /\ UNCHANGED <<scenario, manager, lruOnly, arcOnly>>
  \/ In("reset") /\ Reset!Next /\ UNCHANGED <<scenario, manager, lruOnly, arcOnly>>

Spec == Init /\ [][Next]_vars

(* The engine steps while it has requests; the copies under way make         *)
(* progress.                                                                 *)
FairSpec ==
  /\ Spec
  /\ \/ []<>(In("shared") => phase = "idle" /\ ~Shared!HasRequests)
     \/ []<><<In("shared") /\ Shared!EngineStep>>_vars
  /\ \/ []<>(In("shared") => Shared!Undone(W.stores) = {})
     \/ []<><<In("shared") /\ Shared!TransferStore>>_vars
  /\ \/ []<>(In("shared") => Shared!Undone(W.loads) = {})
     \/ []<><<In("shared") /\ Shared!TransferLoad>>_vars

-----------------------------------------------------------------------------
(* The managers' tables are sound: every CPU block belongs to one cached     *)
(* block or is free once, also after a failed store and after a              *)
(* prepare_store that gave up; a hash is in one list of ARC at most; the LRU *)
(* manager's events tell their reader exactly the ready blocks.              *)
ManagersSound ==
  /\ In("lru") => Lru!TypeOK /\ Lru!SlotsSound /\ Lru!EventsTrue
  /\ In("arc") => Arc!TypeOK /\ Arc!SlotsSound /\ Arc!ListsDisjoint
  /\ In("ghosts") => Ghosts!TypeOK /\ Ghosts!SlotsSound /\ Ghosts!ListsDisjoint

(* Both managers implement OffloadStore, and preparing a store cuts the      *)
(* ghost lists of ARC to the cache's size.                                   *)
KeepsContract ==
  /\ (In("lru") => Lru!Store!Init) /\ (In("arc") => Arc!Store!Init)
  /\ [][(In("lru") => Lru!Store!Step) /\ (In("arc") => Arc!Store!Step)]_vars
  /\ [][In("ghosts") /\ storing[1] = {} /\ storing'[1] # {}
          => Len(b1') <= 1 /\ Len(b2') <= 1]_vars

(* A block that was just prepared to be stored is not touched twice: the     *)
(* ARC manager's touch returns and leaves the block in its cache.            *)
TouchKeepsStored == In("arc") => Arc!TouchKeepsStored

(* After every forward pass a request's blocks hold its own prefix, however  *)
(* they came to be there.                                                    *)
ReadsOwn == (In("shared") => Shared!ReadsOwn) /\ (In("tight") => Tight!ReadsOwn)

(* A block that can be looked up has been written with its own contents, and *)
(* a copy only touches GPU blocks its request still holds.                   *)
CopiesSafe ==
  /\ In("shared") => Shared!ReadyWritten /\ Shared!CopiesOwn
  /\ In("tight") => Tight!ReadyWritten /\ Tight!CopiesOwn

(* The manager's books and the connector's agree between steps, and a        *)
(* transfer that ends belongs to a request the scheduler still has.          *)
Accounted ==
  /\ In("shared") => Shared!TypeOK /\ Shared!Accounted /\ Shared!NoAssert
  /\ In("tight") => Tight!TypeOK /\ Tight!Accounted /\ Tight!NoAssert
  /\ In("reset") => Reset!TypeOK /\ Reset!Accounted

(* Every request ends, also one whose blocks are being loaded or stored.     *)
AllFinish ==
  \A r \in 1 .. 3 :
    In("shared") /\ Q[r].status # "none"
      ~> (In("shared") => Q[r].status \in {"finished", "gone"})
=============================================================================
