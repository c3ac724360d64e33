------------------------------ MODULE WorkerNode ------------------------------
(***************************************************************************)
(* What a process says of itself in its WORKER_NODE rows: the environment  *)
(* of a container (utils/docker-utils.ts), the address of a machine        *)
(* (utils/net-utils.ts), and the entity made of them                       *)
(* (worker/disposable-worker-id-assigner.ts, worker/worker-node-type.ts).  *)
(*                                                                         *)
(* A machine is [env, nics]: the three variables of the environment, and   *)
(* the network interfaces, each a sequence of addresses                    *)
(* [hostAddress, scope, internal].                                         *)
(***************************************************************************)
EXTENDS DataSource, Naturals, FiniteSetsExt

-----------------------------------------------------------------------------
(* DockerUtils: read once, when the module is loaded *)

\* JPAAS_HTTP_PORT, or JPAAS_HOST_PORT_8080.
DockerPort(env) == IF env.port # Blank THEN env.port ELSE env.originalPort

HasEnvHost(env) == env.host # Blank
HasEnvPort(env) == DockerPort(env) # Blank

isDocker(env) == HasEnvHost(env) /\ HasEnvPort(env)

\* 'Missing host or port from env for Docker.'
EnvIsRejected(env) == HasEnvHost(env) # HasEnvPort(env)

-----------------------------------------------------------------------------
(* NetUtils *)

IsInternal(nic) == \A i \in DOMAIN nic : nic[i].internal

IsValidated(address) == address.scope \notin {"linkLocal", "loopback", "anyLocal"}

\* The addresses getLocalInetAddress() chooses from, an interface at a time.
LocalInetAddresses(nics, i) ==
  IF IsInternal(nics[i]) THEN <<>> ELSE SelectSeq(nics[i], IsValidated)

Addressed(nics) == {i \in DOMAIN nics : LocalInetAddresses(nics, i) # <<>>}

\* The first of the first interface that has one.
LocalAddress(nics) ==
  LocalInetAddresses(nics, Min(Addressed(nics)))[1].hostAddress

\* Both modules throw while they are loaded: the process does not start, a
\* container without an address of its own no more than a machine.
Starts(machine) == ~EnvIsRejected(machine.env) /\ Addressed(machine.nics) # {}

-----------------------------------------------------------------------------
WorkerNodeType == [CONTAINER |-> 1, ACTUAL |-> 2]

(* DisposableWorkerIdAssigner.buildWorkerNode() *)

\* "CONTAINER: HostName, Port; ACTUAL: IP, Timestamp + Random": the stamp is
\* the clock and the random number of this call.
buildWorkerNode(machine, stamp) ==
  IF isDocker(machine.env)
    THEN [type |-> WorkerNodeType.CONTAINER, hostName |-> machine.env.host,
          port |-> DockerPort(machine.env)]
    ELSE [type |-> WorkerNodeType.ACTUAL, hostName |-> LocalAddress(machine.nics),
          port |-> stamp]
=============================================================================
