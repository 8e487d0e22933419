--------------------------- MODULE MCSocketTracer ---------------------------
(***************************************************************************)
(* Instantiates SocketTracer for TLC: two threads t1, t2 of tgid 100 (they *)
(* share a descriptor table, so one can be handed a number the other just *)
(* closed) and one thread t3 of tgid 200.  ctrl_map enables HTTP for both  *)
(* roles.                                                                  *)
(***************************************************************************)
EXTENDS SocketTracer

CONSTANTS t1, t2, t3

MCTasks == {t1, t2, t3}

MCTgidOf == (t1 :> 100) @@ (t2 :> 100) @@ (t3 :> 200)

\* ctrl_map[HTTP] = Client | Server; the Unknown protocol slot is unused.
MCCtrlMap == [p \in Protocols |-> IF p = "HTTP" THEN 3 ELSE 0]

\* The syscalls of the scalar runs, and those of the vectored runs (with
\* close, so that a descriptor can be reused as a file).
ScalarSyscalls == {"accept", "connect", "close", "write", "recvfrom", "sendfile"}

\* The scalar calls with send and sendto, which share write's probes but
\* fail on a descriptor that is not a socket.
SocketWriteSyscalls == ScalarSyscalls \cup {"send", "sendto"}

VectoredSyscalls == {"sendmsg", "recvmsg", "sendmmsg", "recvmmsg", "writev", "readv", "close"}

\* The vectored calls together with accept and connect, for the run with a
\* target tgid: every process_* early return on an unmatched tgid is reached.
TargetSyscalls == VectoredSyscalls \cup {"accept", "connect"}

\* Two iovec arrays: an empty iovec ahead of a 20-byte response (inference
\* skips to the second), and a 24-byte request followed by 8 more bytes (a
\* 20-byte transfer is classified and clamps the first iovec; an 8-byte
\* one is too short to classify).
MCIovArrays ==
    { << [len |-> 0, head |-> "GET"], [len |-> 20, head |-> "HTTP"] >>,
      << [len |-> 24, head |-> "GET"], [len |-> 8, head |-> "HTTP"] >> }

\* The liveness instance: the two threads of tgid 100, the syscalls that
\* stage ConnectArgs or AcceptArgs, close, and one iovec array.
MCPairTasks == {t1, t2}

HandshakeSyscalls == {"accept", "connect", "sendmsg", "sendmmsg", "close"}

MCOneIovArray == { << [len |-> 24, head |-> "GET"], [len |-> 8, head |-> "HTTP"] >> }

\* The scalar data calls and close, without accept and connect: the only
\* return probes that can register a descriptor are the data ones.
ZombieSyscalls == ScalarSyscalls \ {"accept", "connect"}

\* t1 and t2 are interchangeable threads of the same process.
Symmetry == Permutations({t1, t2})
=============================================================================
