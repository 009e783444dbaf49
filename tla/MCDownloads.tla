---------------------------- MODULE MCDownloads ----------------------------
(*****************************************************************************)
(* Downloads for TLC: the life of a task between workers and the API, the    *)
(* transfer of its bytes over interruptions and servers of every kind, and   *)
(* the space that tasks reserve.  A behaviour is about one of them: `part'   *)
(* says which, and the others stay as they began.  MaxEvents disturbances    *)
(* are for a task with a checksum, one less for a task without.              *)
(*****************************************************************************)
EXTENDS DownloaderProofs, Integers, Sequences, FiniteSets, TLC

CONSTANT NONE

(* Processes, handlers and segments are alike.                               *)
Symmetry ==
  Permutations(Workers) \cup Permutations(Handlers) \cup Permutations(Segs)

(* Servers with and without ranges, a validator, If-Range and a length.       *)
Servers == [ranges : BOOLEAN, validator : BOOLEAN, ifRange : BOOLEAN, length : BOOLEAN]

VARIABLE part     \* the component this behaviour is about

VARIABLES
  t_server, t_source, t_parallel, t_row, t_part, t_run, t_done, t_carried,
  t_trouble

VARIABLES
  s_free, s_concurrency, s_reserved, s_t, s_faults

Bytes == INSTANCE Transfer WITH
  server <- t_server, source <- t_source, parallel <- t_parallel,
  row <- t_row, part <- t_part, run <- t_run, done <- t_done,
  carried <- t_carried, trouble <- t_trouble, free <- s_free,
  concurrency <- s_concurrency, reserved <- s_reserved, t <- s_t,
  faults <- s_faults, LenOf <- <<3, 3, 2, 4>>, Servers <- Servers,
  Chunk <- 2, Minimum <- 2, MaxSize <- 3, MaxTrouble <- 2, Tasks <- {1, 2},
  Sizes <- {2, 3}, Pool <- 5, MinFree <- 2, MaxFaults <- 1

tasksVars ==
  <<status, owner, lease, control, retries, expected, mismatch, plan,
    journal, partial, target, data, long, files, h, rec, proc, req, stalls,
    shared, events>>

transferVars ==
  <<t_server, t_source, t_parallel, t_row, t_part, t_run, t_done, t_carried,
    t_trouble>>

spaceVars ==
  <<s_free, s_concurrency, s_reserved, s_t, s_faults>>

mcVars ==
  <<part, tasksVars, transferVars, spaceVars>>

MCInit ==
  /\ part \in {"tasks", "transfer", "space"}
  /\ Init
  /\ part # "tasks" => ~expected
  /\ Bytes!TransferInit
  /\ part # "transfer" => ~t_parallel /\ t_server = CHOOSE s \in Servers : TRUE
  /\ Bytes!SpaceInit
  /\ part # "space" => \A i \in 1 .. 2 : s_t[i].known /\ s_t[i].size = 2

OnlyTask ==
  /\ part = "tasks" /\ (~expected => events < MaxEvents)
  /\ UNCHANGED <<part, transferVars, spaceVars>>

OnlyBytes ==
  /\ part = "transfer"
  /\ UNCHANGED <<part, tasksVars, spaceVars>>

OnlySpace ==
  /\ part = "space"
  /\ UNCHANGED <<part, tasksVars, transferVars>>

MCNext ==
  \/ OnlyTask /\ Next
  \/ OnlyBytes /\ Bytes!TransferNext
  \/ OnlySpace /\ Bytes!SpaceNext

MCSpec == MCInit /\ [][MCNext]_mcVars

(* The transfer alone.                                                        *)
BytesInit == part = "transfer" /\ MCInit

BytesSpec == BytesInit /\ [][MCNext]_mcVars

-----------------------------------------------------------------------------

\* See Transfer: bytes appended to a partial file belong to the same source.
ResumedIsWhole == Bytes!ResumedIsWhole

\* See Transfer: what a finished download hands on is one version of the source.
FinishedIsWhole == Bytes!FinishedIsWhole
=============================================================================
