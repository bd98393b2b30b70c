------------------------------- MODULE Setup --------------------------------
(***************************************************************************)
(* How the processes of a run choose their devices when the runtime is     *)
(* constructed: each finds out its place on its host, reads                *)
(* CELERITY_DEVICES, and picks a SYCL device (src/config.cc and            *)
(* src/device_queue.cc).                                                   *)
(***************************************************************************)
EXTENDS Integers, Sequences, FiniteSets, FiniteSetsExt

CONSTANT Machine   \* [hosts, env, platforms, user_device]: what the processes find

VARIABLES
    machine,
    stage,      \* process -> "start", "configured", "ready", or "thrown"
    config,     \* process -> [local_rank, node_count, device_cfg]
    device      \* process -> the device it uses: platform and index

setup_vars == <<machine, stage, config, device>>

Process == DOMAIN machine.hosts
None == <<>>    \* boost::none, an environment variable that is not set, no device yet

-----------------------------------------------------------------------------
\* MPI_Comm_split_type: the processes of a host, numbered in the order of their ranks.
OnHost(p) == {q \in Process : machine.hosts[q] = machine.hosts[p]}
LocalRank(p) == Cardinality({q \in OnHost(p) : q < p})

\* strtoul: out_of_range is a number too large; a token that is not a number is taken
\* for 0, without an error.
parse_uint(str) ==
    [first |-> ~str.out_of_range, second |-> IF str.numeric THEN str.value ELSE 0]

TooFew(values, local_rank) == local_rank > Len(values) - 2

device_config(values, local_rank) ==
    LET pid_parsed == parse_uint(values[1])
        did_parsed == parse_uint(values[local_rank + 2])
    IN  IF ~pid_parsed.first \/ ~did_parsed.first THEN None
        ELSE <<pid_parsed.second, did_parsed.second>>

\* config::config.  The split is collective, but from there each process goes on by itself.
read_config(p) ==
    /\ stage[p] = "start"
    /\ \/ /\ machine.env # None /\ TooFew(machine.env, LocalRank(p))
          /\ stage' = [stage EXCEPT ![p] = "thrown"]
          /\ UNCHANGED config
       \/ /\ machine.env = None \/ ~TooFew(machine.env, LocalRank(p))
          /\ stage' = [stage EXCEPT ![p] = "configured"]
          /\ config' = [config EXCEPT ![p] =
                [local_rank |-> LocalRank(p), node_count |-> Cardinality(OnHost(p)),
                 device_cfg |-> IF machine.env = None THEN None
                                ELSE device_config(machine.env, LocalRank(p))]]
    /\ UNCHANGED <<machine, device>>

-----------------------------------------------------------------------------
\* platform::get_devices(gpu), as indices into all devices of platform i.
Gpus(i) == SelectSeq([d \in 1 .. Len(machine.platforms[i]) |-> d],
                     LAMBDA d : machine.platforms[i][d] = "gpu")

\* The platforms with a device for each process of the host.
Suitable(node_count) == {i \in DOMAIN machine.platforms : Len(Gpus(i)) >= node_count}

\* Mutant: every process takes the first device.
AutomaticFirst(cfg) == <<Min(Suitable(cfg.node_count)), Gpus(Min(Suitable(cfg.node_count)))[1]>>

Automatic(cfg) == <<Min(Suitable(cfg.node_count)),
                    Gpus(Min(Suitable(cfg.node_count)))[cfg.local_rank + 1]>>

\* Selects the device, or None to throw; the program's own device counts as the first.
Selected(cfg) ==
    LET platform_id == cfg.device_cfg[1]
        device_id == cfg.device_cfg[2]
        any == {i \in DOMAIN machine.platforms : Gpus(i) # <<>>}
    IN  CASE machine.user_device -> <<1, 1>>
          [] ~machine.user_device /\ cfg.device_cfg # None ->
                IF /\ platform_id < Len(machine.platforms)
                   /\ device_id < Len(machine.platforms[platform_id + 1])
                THEN <<platform_id + 1, device_id + 1>> ELSE None
          [] OTHER ->
                IF Suitable(cfg.node_count) # {} THEN Automatic(cfg)
                ELSE IF any # {} THEN <<Min(any), Gpus(Min(any))[1]>> ELSE None

\* device_queue::init and pick_device.
pick_device(p) ==
    /\ stage[p] = "configured"
    /\ device' = [device EXCEPT ![p] = Selected(config[p])]
    /\ stage' = [stage EXCEPT ![p] = IF Selected(config[p]) = None THEN "thrown" ELSE "ready"]
    /\ UNCHANGED <<machine, config>>

SetupStart ==
    /\ stage = [p \in Process |-> "start"]
    /\ config = [p \in Process |-> None] /\ device = [p \in Process |-> None]

SetupInit == machine \in Machine /\ SetupStart

SetupDone == (\A p \in Process : stage[p] \in {"ready", "thrown"}) /\ UNCHANGED setup_vars

SetupNext == (\E p \in Process : read_config(p) \/ pick_device(p)) \/ SetupDone

-----------------------------------------------------------------------------
\* The entry of CELERITY_DEVICES that is meant for process p, after the platform.
EntryOf(p) == machine.env[LocalRank(p) + 2]
Valid(str) == str.numeric /\ ~str.out_of_range

\* Two processes of a host share a device only where they must: the program gave it
\* to them, CELERITY_DEVICES names it for both of them, or it is not set and no
\* platform has enough GPUs (pick_device: "a unique device for each node"; config.h:
\* "Each device is assigned to a different node on the same host").  However the
\* ranks are spread over the hosts, a process never takes the device that another
\* one is entitled to.  Nothing is claimed of a process whose entry is not valid:
\* config.cc warns that invalid values "will be ignored", but it takes a word for 0,
\* without a warning, and where a number is out of range the process chooses by
\* itself while others follow the list.
DevicesDistinct ==
    \A p, q \in {r \in Process : stage[r] = "ready"} :
        p # q /\ machine.hosts[p] = machine.hosts[q] /\ device[p] = device[q] =>
            \/ machine.user_device
            \/ machine.env = None /\ Suitable(Cardinality(OnHost(p))) = {}
            \/ /\ machine.env # None
               /\ \/ \E str \in {machine.env[1], EntryOf(p), EntryOf(q)} : ~Valid(str)
                  \/ EntryOf(p) = EntryOf(q)
=============================================================================
