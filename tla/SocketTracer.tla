---------------------------- MODULE SocketTracer ----------------------------
(***************************************************************************)
(* The kernel probe program of the socket tracer                           *)
(* (socket-tracer-ebpf/src/main.rs) with the tasks whose syscalls it       *)
(* observes.                                                                *)
(*                                                                         *)
(* Each traced syscall is three steps of its task: the entry kprobe        *)
(* (stages the arguments in a per-task hash map keyed by pid_tgid), the    *)
(* kernel's own work (allocates or frees descriptors, picks the return     *)
(* value), and the return kretprobe (looks the staged arguments up, runs   *)
(* the process_* function, removes the staging record).  Steps of          *)
(* different tasks interleave freely: tasks run on different CPUs and      *)
(* the maps are shared.  Each probe invocation is one atomic step; the     *)
(* maps are only touched through single lookups, inserts and removes.      *)
(*                                                                         *)
(* Threads of one tgid share a descriptor table; the registry key is       *)
(* gen_tgid_fd(tgid, fd).  Addresses and ports are abstracted away; the    *)
(* address family is kept.  Payloads are abstracted to their leading       *)
(* token (Heads) and their byte count.                                     *)
(***************************************************************************)
EXTENDS Integers, Sequences, FiniteSets, TLC, TracerPolicy, DataChunks

LOCAL INSTANCE SequencesExt

CONSTANTS
    Tasks,           \* threads (pid_tgid values)
    TgidOf,          \* Tasks -> tgid
    Fds,             \* descriptor numbers the tasks use
    Heads,           \* leading tokens a payload may start with
    Sizes,           \* byte counts a buffer may have
    MemoryFaults,    \* whether a bpf_probe_read of user memory may fail
    MaxMapEntries,   \* MAX_MAP_ENTRIES, per hash map
    MaxSyscalls,     \* bound: syscalls the tasks issue in one behaviour
    CONN_STATS_DATA_THRESHOLD,
    PROTOCOL_VEC_LIMIT, \* iovecs protocol inference looks at
    IovArrays,       \* iovec arrays a vectored call may pass: sequences of [len, head]
    MsgLens,         \* what mmsghdr.msg_len holds when sendmmsg/recvmmsg is entered
    ProcessExits,    \* whether a process may exit and its tgid be reused
    Syscalls,        \* the probed syscalls the tasks issue in this model
    NULL

Tgids == {TgidOf[t] : t \in Tasks}
Keys  == Tgids \X Fds

ASSUME Fds \subseteq Nat /\ Sizes \subseteq Nat \ {0} /\ MemoryFaults \in BOOLEAN
ASSUME ProcessExits \in BOOLEAN
ASSUME MsgLens \subseteq Nat /\ PROTOCOL_VEC_LIMIT \in Nat \ {0}

VARIABLES
    kfd,             \* kernel descriptor tables: tgid -> fd -> "free"|"sock"|"file"
    pc,              \* the syscall each task is in, with its real arguments
    accept_args,     \* ACTIVE_ACCEPT_MAP:   task -> AcceptArgs
    conn_args,       \* ACTIVE_CONNECT_MAP:  task -> ConnectArgs
    close_args,      \* ACTIVE_CLOSE_MAP:    task -> CloseArgs
    write_args,      \* ACTIVE_WRITE_MAP:    task -> DataArgs
    read_args,       \* ACTIVE_READ_MAP:     task -> DataArgs
    sendfile_args,   \* ACTIVE_SENDFILE_MAP: task -> SendfileArgs
    conn_info_map,   \* CONN_INFO_MAP:       <<tgid, fd>> -> ConnInfo
    conn_disabled_map, \* CONN_DISABLED_MAP: <<tgid, fd>> -> tsid
    ctrl_events,     \* records output to sk_ctrl_events, in order
    data_events,     \* records output to sk_data_events, in order
    stats_events,    \* records output to conn_stat_events, in order
    clock,           \* bpf_ktime_get_ns, read when a ConnId is minted
    born,            \* tgid -> the clock reading when its current process started
    steps            \* syscalls issued so far (bounded by MaxSyscalls)

kernel  == <<kfd, born>>
staging == <<accept_args, conn_args, close_args, write_args, read_args, sendfile_args>>
events  == <<ctrl_events, data_events, stats_events>>
vars    == <<kernel, pc, staging, conn_info_map, conn_disabled_map, events, clock, steps>>

(***************************************************************************)
(* Hash maps.  An insert (flag 0, BPF_ANY) of a new key into a full map    *)
(* fails; an existing key is overwritten.                                  *)
(***************************************************************************)
MapInsert(m, k, v) ==
    IF k \in DOMAIN m \/ Cardinality(DOMAIN m) < MaxMapEntries
    THEN [ok |-> TRUE, map |-> (k :> v) @@ m]
    ELSE [ok |-> FALSE, map |-> m]

MapRemove(m, k) == [x \in DOMAIN m \ {k} |-> m[x]]

MapGet(m, k, default) == IF k \in DOMAIN m THEN m[k] ELSE default

Tgid(t) == TgidOf[t]

gen_tgid_fd(tgid, fd) == <<tgid, fd>>

\* gen_tsid reads bpf_ktime_get_ns: the next tick of the monotonic clock.
gen_tsid == clock + 1

\* init_conn_info: a ConnId minted now; everything else zero/Unknown.
\* (Uid.start_time_ticks is get_tgid_start_time().unwrap_or(0), a value
\* fixed per tgid, so the tgid stands for the Uid.)
init_conn_info(tgid, fd, tsid) ==
    [id |-> [tgid |-> tgid, fd |-> fd, tsid |-> tsid],
     role |-> "Unknown", sa_family |-> AF_UNKNOWN,
     protocol |-> "Unknown", protocol_total_count |-> 0,
     write_bytes |-> 0, read_bytes |-> 0, prev_reported_bytes |-> 0]

ControlEvent(type, ci, wb, rb) ==
    [event_type |-> type, id |-> ci.id, sa_family |-> ci.sa_family,
     role |-> ci.role, write_bytes |-> wb, read_bytes |-> rb]

populate_conn_stats_event(ci, flags) ==
    [id |-> ci.id, role |-> ci.role, write_bytes |-> ci.write_bytes,
     read_bytes |-> ci.read_bytes, event_flags |-> flags]

populate_socket_data_event(direction, ci) ==
    [id |-> ci.id, direction |-> direction, protocol |-> ci.protocol,
     role |-> ci.role,
     position |-> IF direction = "Egress" THEN ci.write_bytes ELSE ci.read_bytes,
     msg_size |-> 0, msg_buf_size |-> 0]

\* update_conn_stats on the caller's copy: count the bytes, and output a
\* ConnStatsEvent once CONN_STATS_DATA_THRESHOLD more bytes were seen.
update_conn_stats(ci, direction, bytes_count) ==
    LET counted == IF direction = "Egress"
                   THEN [ci EXCEPT !.write_bytes = @ + bytes_count]
                   ELSE [ci EXCEPT !.read_bytes = @ + bytes_count]
        total == counted.write_bytes + counted.read_bytes
    IN  IF total >= counted.prev_reported_bytes + CONN_STATS_DATA_THRESHOLD
        THEN [ci |-> [counted EXCEPT !.prev_reported_bytes = total],
              out |-> <<populate_conn_stats_event(counted, 0)>>]
        ELSE [ci |-> counted, out |-> <<>>]

ParseErr == -1   \* parse_sock_data / parse_sockaddr_data returned Err

\* The chunk loop iteration whose payload read fails, if any.
FaultPoints == IF MemoryFaults THEN {NoFault} \cup 0..(CHUNK_LIMIT - 1) ELSE {NoFault}

\* Faulty variant for mutation analysis: parse_sockaddr_data without its
\* `_ => Err(1)` arm, keeping whatever family the user wrote.
OpenFamilies_no_reject(sock, sockaddr) ==
    IF sock # NULL THEN {AF_INET, AF_INET6}
    ELSE IF sockaddr # NULL THEN {sockaddr} ELSE {AF_UNKNOWN}

\* The family submit_open_event ends up with, one element per way its
\* reads can go.  The accept path's sk comes from the sock_alloc kprobe,
\* which reads ctx.ret() at function entry and would hand over a struct
\* socket pointer even from a kretprobe: what __sk_common reads from it is
\* undefined, so every outcome is possible.  A sockaddr pointer is
\* followed into user memory; only AF_INET and AF_INET6 parse.
OpenFamilies(sock, sockaddr) ==
    IF sock # NULL THEN {ParseErr, AF_INET, AF_INET6}
    ELSE IF sockaddr # NULL
         THEN {IF sockaddr \in {AF_INET, AF_INET6} THEN sockaddr ELSE ParseErr}
              \cup (IF MemoryFaults THEN {ParseErr} ELSE {})
    ELSE {AF_UNKNOWN}

(***************************************************************************)
(* The process_* functions, as the outcome they leave: whether they        *)
(* returned Ok, the registry after them, and the records they output.      *)
(* The clock is only advanced when a ConnId read from it is stored.        *)
(***************************************************************************)
Outcome(ok, map, clk, ctrl, data, stats) ==
    [ok |-> ok, map |-> map, clock |-> clk, ctrl |-> ctrl, data |-> data, stats |-> stats]

NoChange(ok) == Outcome(ok, conn_info_map, clock, <<>>, <<>>, <<>>)

\* get_or_create_conn_info: a copy of the registry entry, or a fresh entry
\* inserted now (failing if the map is full).
get_or_create_conn_info(tgid, fd) ==
    LET k == gen_tgid_fd(tgid, fd)
        fresh == init_conn_info(tgid, fd, gen_tsid)
        r == MapInsert(conn_info_map, k, fresh)
    IN  IF k \in DOMAIN conn_info_map
        THEN [ok |-> TRUE, ci |-> conn_info_map[k], map |-> conn_info_map, clock |-> clock]
        ELSE [ok |-> r.ok, ci |-> fresh, map |-> r.map,
              clock |-> IF r.ok THEN clock + 1 ELSE clock]

\* submit_open_event: mint a ConnInfo with the given role, fill the family
\* from the parse, insert it, and output an Open event.
submit_open_event(tgid, fd, role, fam) ==
    LET ci == [init_conn_info(tgid, fd, gen_tsid) EXCEPT !.role = role, !.sa_family = fam]
        r == MapInsert(conn_info_map, gen_tgid_fd(tgid, fd), ci)
    IN  IF fam = ParseErr \/ ~r.ok THEN NoChange(FALSE)
        ELSE Outcome(TRUE, r.map, clock + 1,
                     IF should_trace_sockaddr_family(fam)
                     THEN <<ControlEvent("Open", ci, 0, 0)>> ELSE <<>>,
                     <<>>, <<>>)

process_syscall_accept(tgid, ret_fd, fam) ==
    IF match_trace_tgid(tgid) = "Unmatched" \/ ret_fd < 0 THEN NoChange(TRUE)
    ELSE submit_open_event(tgid, ret_fd, "Server", fam)

process_syscall_connect(tgid, fd, retval, fam) ==
    IF match_trace_tgid(tgid) = "Unmatched" \/ fd < 0 \/ retval < 0 THEN NoChange(TRUE)
    ELSE submit_open_event(tgid, fd, "Client", fam)

\* Faulty variant for mutation analysis: the entry is not removed.
process_syscall_close_keep(tgid, fd, retval) ==
    LET k == gen_tgid_fd(tgid, fd)
        ci == conn_info_map[k]
    IN  CASE fd < 0 \/ retval < 0 \/ match_trace_tgid(tgid) = "Unmatched"
                 -> NoChange(TRUE)
          [] k \notin DOMAIN conn_info_map -> NoChange(FALSE)
          [] OTHER -> Outcome(TRUE, conn_info_map, clock,
                        <<ControlEvent("Close", ci, ci.write_bytes, ci.read_bytes)>>, <<>>,
                        <<populate_conn_stats_event(ci, 2)>>)

\* process_syscall_close: flush a Close event and a terminal stats event
\* (event_flags bit 1) and drop the entry; Err if there is no entry.
process_syscall_close(tgid, fd, retval) ==
    LET k == gen_tgid_fd(tgid, fd)
        ci == conn_info_map[k]
        flush == should_trace_sockaddr_family(ci.sa_family)
                 \/ ci.write_bytes > 0 \/ ci.read_bytes > 0
    IN  CASE fd < 0 \/ retval < 0 \/ match_trace_tgid(tgid) = "Unmatched"
                 -> NoChange(TRUE)
          [] k \notin DOMAIN conn_info_map -> NoChange(FALSE)
          [] OTHER -> Outcome(TRUE, MapRemove(conn_info_map, k), clock,
                        IF flush THEN <<ControlEvent("Close", ci, ci.write_bytes, ci.read_bytes)>>
                                 ELSE <<>>,
                        <<>>,
                        IF flush THEN <<populate_conn_stats_event(ci, 2)>> ELSE <<>>)

MinOf(a, b) == IF a < b THEN a ELSE b

\* The inference step of process_data: the whole buffer, or the first
\* iovec among the first PROTOCOL_VEC_LIMIT whose min(bytes_count,
\* iov_len) is non-zero (then break); without one, ci is left alone.
Classified(vecs, ci, direction, buf, bytes_count) ==
    LET seen == {i \in 1..MinOf(PROTOCOL_VEC_LIMIT, Len(buf)) :
                    MinOf(bytes_count, buf[i].len) # 0}
    IN  CASE ~vecs -> update_traffic_class(ci, direction, buf, bytes_count)
          [] seen = {} -> ci
          [] OTHER -> LET i == Min(seen) IN
                      update_traffic_class(ci, direction, buf[i].head,
                                           MinOf(bytes_count, buf[i].len))

Submitted(vecs, event, buf, bytes_count, failAt) ==
    IF vecs THEN submit_data_event_iovecs(event, buf, bytes_count, failAt)
    ELSE submit_data_event(event, bytes_count, failAt)

\* Faulty variant for mutation analysis: no TargetTgid filter.
process_data_any_tgid(vecs, tgid, fd, direction, bytes_count, buf, failAt) ==
    LET g == get_or_create_conn_info(tgid, fd)
        ci == Classified(vecs, g.ci, direction, buf, bytes_count)
        send == should_send_data(tgid, MapGet(conn_disabled_map, gen_tgid_fd(tgid, fd), 0),
                                 FALSE, ci)
        sub == Submitted(vecs, populate_socket_data_event(direction, ci), buf,
                         bytes_count, failAt)
    IN  CASE (vecs /\ Len(buf) = 0) \/ fd < 0 \/ bytes_count <= 0 -> NoChange(TRUE)
          [] ~g.ok -> NoChange(FALSE)
          [] OTHER -> Outcome(sub.ok \/ ~send, g.map, g.clock, <<>>,
                              IF send THEN sub.out ELSE <<>>, <<>>)

\* process_data (process_syscall_data and process_syscall_data_vecs).
\* `buf` is the payload's leading token, or with vecs the iovec array (an
\* empty array stands for a null iov or iovlen <= 0).  The copy of the
\* entry is classified, used for the data events and counted by
\* update_conn_stats; nothing stores the copy back into CONN_INFO_MAP.
process_data(vecs, tgid, fd, direction, bytes_count, buf, failAt) ==
    LET match == match_trace_tgid(tgid)
        g == get_or_create_conn_info(tgid, fd)
        disabled == MapGet(conn_disabled_map, gen_tgid_fd(tgid, fd), 0)
        ci == Classified(vecs, g.ci, direction, buf, bytes_count)
        send == should_send_data(tgid, disabled, match = "Matched", ci)
        sub == Submitted(vecs, populate_socket_data_event(direction, ci), buf,
                         bytes_count, failAt)
        st == update_conn_stats(ci, direction, bytes_count)
    IN  CASE (vecs /\ Len(buf) = 0) \/ fd < 0 \/ bytes_count <= 0 \/ match = "Unmatched"
                 -> NoChange(TRUE)
          [] ~g.ok -> NoChange(FALSE)
          [] ~should_trace_conn(g.ci) -> Outcome(TRUE, g.map, g.clock, <<>>, <<>>, <<>>)
          [] send /\ ~sub.ok -> Outcome(FALSE, g.map, g.clock, <<>>, sub.out, <<>>)
          [] OTHER -> Outcome(TRUE, g.map, g.clock, <<>>,
                              IF send THEN sub.out ELSE <<>>, st.out)

\* process_syscall_sendfile: one event announcing bytes_count with no
\* payload, then egress accounting; no protocol inference.
process_syscall_sendfile(tgid, out_fd, bytes_count) ==
    LET match == match_trace_tgid(tgid)
        g == get_or_create_conn_info(tgid, out_fd)
        disabled == MapGet(conn_disabled_map, gen_tgid_fd(tgid, out_fd), 0)
        send == should_send_data(tgid, disabled, match = "Matched", g.ci)
        ev == [populate_socket_data_event("Egress", g.ci) EXCEPT
                  !.msg_size = AsU32(bytes_count), !.msg_buf_size = 0]
        st == update_conn_stats(g.ci, "Egress", bytes_count)
    IN  CASE out_fd < 0 \/ bytes_count <= 0 \/ match = "Unmatched" -> NoChange(TRUE)
          [] ~g.ok -> NoChange(FALSE)
          [] ~should_trace_conn(g.ci) -> Outcome(TRUE, g.map, g.clock, <<>>, <<>>, <<>>)
          [] OTHER -> Outcome(TRUE, g.map, g.clock, <<>>,
                              IF send THEN <<ev>> ELSE <<>>, st.out)

(***************************************************************************)
(* Tasks.  pc[t] holds the syscall the task is in and its real arguments;  *)
(* ret is NULL until the kernel has done the work.                         *)
(***************************************************************************)
\* iov is the iovec array of a vectored call; once the kernel has answered,
\* ret is its return value, onsock whether the descriptor was a socket and
\* xfer the bytes an mmsg call moved (its ret counts messages).
Call(op, fd, sa, head, len) ==
    [op |-> op, fd |-> fd, sa |-> sa, head |-> head, len |-> len, iov |-> <<>>,
     ret |-> NULL, onsock |-> FALSE, xfer |-> 0]

IovTotal(iov) == FoldLeft(LAMBDA acc, v : acc + v.len, 0, iov)

VecCall(op, fd, sa, iov) == [Call(op, fd, sa, NULL, IovTotal(iov)) EXCEPT !.iov = iov]

\* types::DataArgs: buf stands for the payload's head (write/send/sendto),
\* iov for the iovec array of the vectored calls.
DataArgs(fd, head, iov, msg_len, sock_event) ==
    [fd |-> fd, head |-> head, iov |-> iov, msg_len |-> msg_len, sock_event |-> sock_event]

\* types::ConnectArgs, AcceptArgs, CloseArgs and SendfileArgs: the staging
\* records of connect (and of a msghdr naming a peer), accept, close and
\* sendfile.  in_fd is staged but never read by process_syscall_sendfile.
ConnectArgs(fd, sockaddr) == [fd |-> fd, sockaddr |-> sockaddr]

AcceptArgs(sockaddr, sock) == [sockaddr |-> sockaddr, sock |-> sock]

CloseArgs(fd) == [fd |-> fd]

SendfileArgs(out_fd, in_fd, count) == [out_fd |-> out_fd, in_fd |-> in_fd, count |-> count]

IdleCall == Call("idle", NULL, NULL, NULL, 0)

Idle(t) == pc[t].op = "idle"
InKernel(t, op) == pc[t].op = op /\ pc[t].ret = NULL
Returning(t, op) == pc[t].op = op /\ pc[t].ret # NULL

FreeFds(tgid) == {fd \in Fds : kfd[tgid][fd] = "free"}
\* The kernel hands out the lowest free descriptor.
LowestFree(tgid) == CHOOSE fd \in FreeFds(tgid) : \A f \in FreeFds(tgid) : fd <= f

\* An entry probe fires as the task issues a syscall.
Issue(t, call) ==
    /\ Idle(t)
    /\ steps < MaxSyscalls
    /\ pc' = [pc EXCEPT ![t] = call]
    /\ steps' = steps + 1

SetRet(t, v) == pc' = [pc EXCEPT ![t].ret = v]

Done(t) == pc' = [pc EXCEPT ![t] = IdleCall]

\* A return probe applies an outcome.
Apply(o) ==
    /\ conn_info_map' = o.map
    /\ clock' = o.clock
    /\ ctrl_events' = ctrl_events \o o.ctrl
    /\ data_events' = data_events \o o.data
    /\ stats_events' = stats_events \o o.stats

\* The staging record stays behind when the process_* call failed with `?`.
RemoveIfOk(m, t, ok) == IF ok THEN MapRemove(m, t) ELSE m

\* The tail of a data return probe: process_syscall_data(_vecs)(...)? on
\* the record staged in map m, then the remove.
DataReturn(t, m, vecs, direction, bytes_count, buf) ==
    \E failAt \in FaultPoints :
        \E o \in {process_data(vecs, Tgid(t), m[t].fd, direction, bytes_count, buf, failAt)} :
            /\ Apply(o)
            /\ m' = RemoveIfOk(m, t, o.ok)

(***************************************************************************)
(* socket(2) and open(2): not probed; they only make descriptors.          *)
(***************************************************************************)
OpenDescriptor(t, kind) ==
    /\ Idle(t)
    /\ steps < MaxSyscalls
    /\ FreeFds(Tgid(t)) # {}
    /\ kfd' = [kfd EXCEPT ![Tgid(t)][LowestFree(Tgid(t))] = kind]
    /\ steps' = steps + 1
    /\ UNCHANGED <<born, pc, staging, conn_info_map, conn_disabled_map, events, clock>>

(***************************************************************************)
(* accept / accept4                                                        *)
(***************************************************************************)
\* try_entry_accept.  `sa` stands for the user's sockaddr buffer: NULL, or
\* the family the kernel will write into it (that of the listening socket).
entry_accept(t) ==
    /\ "accept" \in Syscalls
    /\ \E sa \in {NULL, AF_INET, AF_INET6, AF_UNIX} :
          /\ Issue(t, Call("accept", NULL, sa, NULL, 0))
          /\ accept_args' = MapInsert(accept_args, t, AcceptArgs(sa, NULL)).map
    /\ UNCHANGED <<kernel, conn_args, close_args, write_args, read_args, sendfile_args,
                   conn_info_map, conn_disabled_map, events, clock>>

\* try_ret_sock_alloc, a kprobe on sock_alloc, which accept calls before it
\* allocates the descriptor: the first pointer seen is kept.
ret_sock_alloc(t) ==
    /\ InKernel(t, "accept")
    /\ t \in DOMAIN accept_args
    /\ accept_args[t].sock = NULL
    /\ accept_args' = [accept_args EXCEPT ![t].sock = "sk"]
    /\ UNCHANGED <<kernel, pc, conn_args, close_args, write_args, read_args, sendfile_args,
                   conn_info_map, conn_disabled_map, events, clock, steps>>

sys_accept(t) ==
    /\ InKernel(t, "accept")
    /\ \/ /\ FreeFds(Tgid(t)) # {}
          /\ kfd' = [kfd EXCEPT ![Tgid(t)][LowestFree(Tgid(t))] = "sock"]
          /\ SetRet(t, LowestFree(Tgid(t)))
       \/ /\ SetRet(t, -1)
          /\ UNCHANGED kfd
    /\ UNCHANGED <<born, staging, conn_info_map, conn_disabled_map, events, clock, steps>>

\* Faulty variant for mutation analysis: the record is removed only after
\* process_syscall_accept(...)? succeeded, as in the other return probes.
ret_accept_keep_on_err(t) ==
    /\ Returning(t, "accept")
    /\ Done(t)
    /\ IF t \notin DOMAIN accept_args
       THEN UNCHANGED <<accept_args, conn_info_map, events, clock>>
       ELSE LET a == accept_args[t] IN
            \E fam \in OpenFamilies(a.sock, a.sockaddr) :
               \E o \in {process_syscall_accept(Tgid(t), pc[t].ret, fam)} :
                  /\ Apply(o)
                  /\ accept_args' = RemoveIfOk(accept_args, t, o.ok)
    /\ UNCHANGED <<kernel, conn_args, close_args, write_args, read_args, sendfile_args,
                   conn_disabled_map, steps>>

\* try_ret_accept: the staging record is removed whatever the result.
ret_accept(t) ==
    /\ Returning(t, "accept")
    /\ Done(t)
    /\ IF t \notin DOMAIN accept_args
       THEN UNCHANGED <<accept_args, conn_info_map, events, clock>>
       ELSE LET a == accept_args[t] IN
            /\ accept_args' = MapRemove(accept_args, t)
            /\ \E fam \in OpenFamilies(a.sock, a.sockaddr) :
                  \E o \in {process_syscall_accept(Tgid(t), pc[t].ret, fam)} : Apply(o)
    /\ UNCHANGED <<kernel, conn_args, close_args, write_args, read_args, sendfile_args,
                   conn_disabled_map, steps>>

(***************************************************************************)
(* connect                                                                 *)
(***************************************************************************)
entry_connect(t) ==
    /\ "connect" \in Syscalls
    /\ \E fd \in Fds, sa \in {AF_INET, AF_INET6, AF_UNIX} :
          /\ Issue(t, Call("connect", fd, sa, NULL, 0))
          /\ conn_args' = MapInsert(conn_args, t, ConnectArgs(fd, sa)).map
    /\ UNCHANGED <<kernel, accept_args, close_args, write_args, read_args, sendfile_args,
                   conn_info_map, conn_disabled_map, events, clock>>

\* A connect can fail on a socket too (refused, or EINPROGRESS when the
\* socket is non-blocking).
sys_connect(t) ==
    /\ InKernel(t, "connect")
    /\ \E r \in IF kfd[Tgid(t)][pc[t].fd] = "sock" THEN {0, -1} ELSE {-1} : SetRet(t, r)
    /\ UNCHANGED <<kernel, staging, conn_info_map, conn_disabled_map, events, clock, steps>>

ret_connect(t) ==
    /\ Returning(t, "connect")
    /\ Done(t)
    /\ IF t \notin DOMAIN conn_args
       THEN UNCHANGED <<conn_args, conn_info_map, events, clock>>
       ELSE LET a == conn_args[t] IN
            /\ conn_args' = MapRemove(conn_args, t)
            /\ \E fam \in OpenFamilies(NULL, a.sockaddr) :
                  \E o \in {process_syscall_connect(Tgid(t), a.fd, pc[t].ret, fam)} : Apply(o)
    /\ UNCHANGED <<kernel, accept_args, close_args, write_args, read_args, sendfile_args,
                   conn_disabled_map, steps>>

(***************************************************************************)
(* close                                                                   *)
(***************************************************************************)
entry_close(t) ==
    /\ "close" \in Syscalls
    /\ \E fd \in Fds :
          /\ Issue(t, Call("close", fd, NULL, NULL, 0))
          /\ close_args' = MapInsert(close_args, t, CloseArgs(fd)).map
    /\ UNCHANGED <<kernel, accept_args, conn_args, write_args, read_args, sendfile_args,
                   conn_info_map, conn_disabled_map, events, clock>>

\* The descriptor is released inside the syscall, before the return probe
\* runs: another thread of the tgid may be handed the same number.
sys_close(t) ==
    /\ InKernel(t, "close")
    /\ IF kfd[Tgid(t)][pc[t].fd] # "free"
       THEN /\ kfd' = [kfd EXCEPT ![Tgid(t)][pc[t].fd] = "free"]
            /\ SetRet(t, 0)
       ELSE /\ SetRet(t, -1)
            /\ UNCHANGED kfd
    /\ UNCHANGED <<born, staging, conn_info_map, conn_disabled_map, events, clock, steps>>

\* try_ret_close: process_syscall_close(...)? comes before the remove.
ret_close(t) ==
    /\ Returning(t, "close")
    /\ Done(t)
    /\ IF t \notin DOMAIN close_args
       THEN UNCHANGED <<close_args, conn_info_map, events, clock>>
       ELSE \E o \in {process_syscall_close(Tgid(t), close_args[t].fd, pc[t].ret)} :
            /\ Apply(o)
            /\ close_args' = RemoveIfOk(close_args, t, o.ok)
    /\ UNCHANGED <<kernel, accept_args, conn_args, write_args, read_args, sendfile_args,
                   conn_disabled_map, steps>>

(***************************************************************************)
(* write, send and sendto: the same staging and return handler             *)
(* (process_syscall_data, Egress), differing only in the DataArgs'         *)
(* source_function.  `head` is what the buffer starts with.                *)
(***************************************************************************)
EntryWrite(t, op) ==
    /\ op \in Syscalls
    /\ \E fd \in Fds, head \in Heads, len \in Sizes :
          /\ Issue(t, Call(op, fd, NULL, head, len))
          /\ write_args' = MapInsert(write_args, t, DataArgs(fd, head, <<>>, 0, FALSE)).map
    /\ UNCHANGED <<kernel, accept_args, conn_args, close_args, read_args, sendfile_args,
                   conn_info_map, conn_disabled_map, events, clock>>

entry_write(t) == EntryWrite(t, "write")

entry_send(t) == EntryWrite(t, "send")

entry_sendto(t) == EntryWrite(t, "sendto")

\* Bytes the kernel may report for a request of len bytes: all, a shorter
\* count (partial write or read), or an error.
Transferred(len) == {-1, len} \cup {n \in Sizes : n < len}

\* write(2) works on any open descriptor, socket or not.
sys_write(t) ==
    /\ InKernel(t, "write")
    /\ \E r \in IF kfd[Tgid(t)][pc[t].fd] # "free" THEN Transferred(pc[t].len) ELSE {-1} :
          pc' = [pc EXCEPT ![t].ret = r, ![t].onsock = (kfd[Tgid(t)][pc[t].fd] = "sock")]
    /\ UNCHANGED <<kernel, staging, conn_info_map, conn_disabled_map, events, clock, steps>>

\* try_ret_write, try_ret_send, try_ret_sendto: process_syscall_data(..)?
\* on the staged buffer; sock_event is not consulted.
WriteReturn(t, op) ==
    /\ Returning(t, op)
    /\ Done(t)
    /\ IF t \notin DOMAIN write_args
       THEN UNCHANGED <<write_args, conn_info_map, events, clock>>
       ELSE DataReturn(t, write_args, FALSE, "Egress", pc[t].ret, write_args[t].head)
    /\ UNCHANGED <<kernel, accept_args, conn_args, close_args, read_args, sendfile_args,
                   conn_disabled_map, steps>>

ret_write(t) == WriteReturn(t, "write")

ret_send(t) == WriteReturn(t, "send")

ret_sendto(t) == WriteReturn(t, "sendto")

(***************************************************************************)
(* recvfrom (process_syscall_data, Ingress).  The buffer's content is what *)
(* the kernel wrote into it, chosen when the syscall completes.            *)
(***************************************************************************)
entry_recvfrom(t) ==
    /\ "recvfrom" \in Syscalls
    /\ \E fd \in Fds, len \in Sizes :
          /\ Issue(t, Call("recvfrom", fd, NULL, NULL, len))
          /\ read_args' = MapInsert(read_args, t, DataArgs(fd, NULL, <<>>, 0, FALSE)).map
    /\ UNCHANGED <<kernel, accept_args, conn_args, close_args, write_args, sendfile_args,
                   conn_info_map, conn_disabled_map, events, clock>>

sys_recvfrom(t) ==
    /\ InKernel(t, "recvfrom")
    /\ \/ /\ kfd[Tgid(t)][pc[t].fd] = "sock"
          /\ \E r \in Transferred(pc[t].len) \ {-1}, head \in Heads :
                pc' = [pc EXCEPT ![t].ret = r, ![t].head = head]
       \/ SetRet(t, -1)
    /\ UNCHANGED <<kernel, staging, conn_info_map, conn_disabled_map, events, clock, steps>>

ret_recvfrom(t) ==
    /\ Returning(t, "recvfrom")
    /\ Done(t)
    /\ IF t \notin DOMAIN read_args
       THEN UNCHANGED <<read_args, conn_info_map, events, clock>>
       ELSE DataReturn(t, read_args, FALSE, "Ingress", pc[t].ret, pc[t].head)
    /\ UNCHANGED <<kernel, accept_args, conn_args, close_args, write_args, sendfile_args,
                   conn_disabled_map, steps>>

(***************************************************************************)
(* sendfile                                                                *)
(***************************************************************************)
\* The descriptor sendfile reads from: it is never processed, so the model
\* does not track it and one value stands for it.
InFd == "in_fd"

entry_sendfile(t) ==
    /\ "sendfile" \in Syscalls
    /\ \E fd \in Fds, count \in Sizes :
          /\ Issue(t, Call("sendfile", fd, NULL, NULL, count))
          /\ sendfile_args' = MapInsert(sendfile_args, t, SendfileArgs(fd, InFd, count)).map
    /\ UNCHANGED <<kernel, accept_args, conn_args, close_args, write_args, read_args,
                   conn_info_map, conn_disabled_map, events, clock>>

sys_sendfile(t) ==
    /\ InKernel(t, "sendfile")
    /\ \E r \in IF kfd[Tgid(t)][pc[t].fd] # "free" THEN Transferred(pc[t].len) ELSE {-1} :
          SetRet(t, r)
    /\ UNCHANGED <<kernel, staging, conn_info_map, conn_disabled_map, events, clock, steps>>

ret_sendfile(t) ==
    /\ Returning(t, "sendfile")
    /\ Done(t)
    /\ IF t \notin DOMAIN sendfile_args
       THEN UNCHANGED <<sendfile_args, conn_info_map, events, clock>>
       ELSE \E o \in {process_syscall_sendfile(Tgid(t), sendfile_args[t].out_fd, pc[t].ret)} :
            /\ Apply(o)
            /\ sendfile_args' = RemoveIfOk(sendfile_args, t, o.ok)
    /\ UNCHANGED <<kernel, accept_args, conn_args, close_args, write_args, read_args,
                   conn_disabled_map, steps>>

(***************************************************************************)
(* sendmsg and recvmsg.  A msghdr naming a peer (msg_name, `name`) also    *)
(* stages ConnectArgs; the return probe only removes them.  The iovecs of *)
(* an ingress call carry what the kernel will write into them.            *)
(***************************************************************************)
\* The ConnectArgs insert of an entry probe whose failure aborts it (`?`).
StageName(t, fd, name) ==
    IF name = NULL THEN [ok |-> TRUE, map |-> conn_args]
    ELSE MapInsert(conn_args, t, ConnectArgs(fd, name))

entry_sendmsg(t) ==
    /\ "sendmsg" \in Syscalls
    /\ \E fd \in Fds, name \in {NULL, AF_INET}, iov \in IovArrays :
          LET c == StageName(t, fd, name) IN
          /\ Issue(t, VecCall("sendmsg", fd, name, iov))
          /\ conn_args' = c.map
          /\ write_args' = IF c.ok
                           THEN MapInsert(write_args, t, DataArgs(fd, NULL, iov, 0, TRUE)).map
                           ELSE write_args
    /\ UNCHANGED <<kernel, accept_args, close_args, read_args, sendfile_args,
                   conn_info_map, conn_disabled_map, events, clock>>

entry_recvmsg(t) ==
    /\ "recvmsg" \in Syscalls
    /\ \E fd \in Fds, name \in {NULL, AF_INET}, iov \in IovArrays :
          LET c == StageName(t, fd, name) IN
          /\ Issue(t, VecCall("recvmsg", fd, name, iov))
          /\ conn_args' = c.map
          /\ read_args' = IF c.ok
                          THEN MapInsert(read_args, t, DataArgs(fd, NULL, iov, 0, FALSE)).map
                          ELSE read_args
    /\ UNCHANGED <<kernel, accept_args, close_args, write_args, sendfile_args,
                   conn_info_map, conn_disabled_map, events, clock>>

\* sendmsg, recvmsg, send and sendto fail with ENOTSOCK on anything but a
\* socket.
sys_msg(t, op) ==
    /\ InKernel(t, op)
    /\ \E r \in IF kfd[Tgid(t)][pc[t].fd] = "sock" THEN Transferred(pc[t].len) ELSE {-1} :
          SetRet(t, r)
    /\ UNCHANGED <<kernel, staging, conn_info_map, conn_disabled_map, events, clock, steps>>

ret_sendmsg(t) ==
    /\ Returning(t, "sendmsg")
    /\ Done(t)
    /\ conn_args' = MapRemove(conn_args, t)
    /\ IF t \notin DOMAIN write_args
       THEN UNCHANGED <<write_args, conn_info_map, events, clock>>
       ELSE DataReturn(t, write_args, TRUE, "Egress", pc[t].ret, write_args[t].iov)
    /\ UNCHANGED <<kernel, accept_args, close_args, read_args, sendfile_args,
                   conn_disabled_map, steps>>

ret_recvmsg(t) ==
    /\ Returning(t, "recvmsg")
    /\ Done(t)
    /\ conn_args' = MapRemove(conn_args, t)
    /\ IF t \notin DOMAIN read_args
       THEN UNCHANGED <<read_args, conn_info_map, events, clock>>
       ELSE DataReturn(t, read_args, TRUE, "Ingress", pc[t].ret, read_args[t].iov)
    /\ UNCHANGED <<kernel, accept_args, close_args, write_args, sendfile_args,
                   conn_disabled_map, steps>>

(***************************************************************************)
(* sendmmsg and recvmmsg, for one mmsghdr (vlen = 1).  The entry probe    *)
(* copies the header, msg_len included, before the kernel has filled it:  *)
(* msg_len is whatever the caller left there (MsgLens).  The kernel        *)
(* returns the number of messages (xfer is the bytes it moved).            *)
(***************************************************************************)
entry_sendmmsg(t) ==
    /\ "sendmmsg" \in Syscalls
    /\ \E fd \in Fds, name \in {NULL, AF_INET}, iov \in IovArrays, ml \in MsgLens :
          \* the ConnectArgs are staged when msg_name IS null
          LET c == IF name = NULL THEN MapInsert(conn_args, t, ConnectArgs(fd, name))
                   ELSE [ok |-> TRUE, map |-> conn_args] IN
          /\ Issue(t, VecCall("sendmmsg", fd, name, iov))
          /\ conn_args' = c.map
          /\ write_args' = IF c.ok
                           THEN MapInsert(write_args, t, DataArgs(fd, NULL, iov, ml, FALSE)).map
                           ELSE write_args
    /\ UNCHANGED <<kernel, accept_args, close_args, read_args, sendfile_args,
                   conn_info_map, conn_disabled_map, events, clock>>

entry_recvmmsg(t) ==
    /\ "recvmmsg" \in Syscalls
    /\ \E fd \in Fds, name \in {NULL, AF_INET}, iov \in IovArrays, ml \in MsgLens :
          LET c == StageName(t, fd, name) IN
          /\ Issue(t, VecCall("recvmmsg", fd, name, iov))
          /\ conn_args' = c.map
          /\ read_args' = IF c.ok
                          THEN MapInsert(read_args, t, DataArgs(fd, NULL, iov, ml, FALSE)).map
                          ELSE read_args
    /\ UNCHANGED <<kernel, accept_args, close_args, write_args, sendfile_args,
                   conn_info_map, conn_disabled_map, events, clock>>

sys_mmsg(t, op) ==
    /\ InKernel(t, op)
    /\ \/ /\ kfd[Tgid(t)][pc[t].fd] = "sock"
          /\ \E n \in Transferred(pc[t].len) \ {-1} :
                pc' = [pc EXCEPT ![t].ret = 1, ![t].xfer = n]
       \/ SetRet(t, -1)
    /\ UNCHANGED <<kernel, staging, conn_info_map, conn_disabled_map, events, clock, steps>>

\* `let num_msgs: u32 = ctx.ret()`: the -1 of a failed call reads as
\* 4294967295, so `num_msgs > 0` holds for every non-zero return.
NumMsgsPositive(ret) == ret # 0

\* The tail of ret_sendmmsg and ret_recvmmsg: bytes_count is the staged
\* msg_len; the record is processed only if num_msgs > 0.
MmsgReturn(t, m, direction) ==
    IF NumMsgsPositive(pc[t].ret)
    THEN DataReturn(t, m, TRUE, direction, m[t].msg_len, m[t].iov)
    ELSE /\ m' = MapRemove(m, t)
         /\ UNCHANGED <<conn_info_map, events, clock>>

ret_sendmmsg(t) ==
    /\ Returning(t, "sendmmsg")
    /\ Done(t)
    /\ conn_args' = MapRemove(conn_args, t)
    /\ IF t \notin DOMAIN write_args
       THEN UNCHANGED <<write_args, conn_info_map, events, clock>>
       ELSE MmsgReturn(t, write_args, "Egress")
    /\ UNCHANGED <<kernel, accept_args, close_args, read_args, sendfile_args,
                   conn_disabled_map, steps>>

ret_recvmmsg(t) ==
    /\ Returning(t, "recvmmsg")
    /\ Done(t)
    /\ conn_args' = MapRemove(conn_args, t)
    /\ IF t \notin DOMAIN read_args
       THEN UNCHANGED <<read_args, conn_info_map, events, clock>>
       ELSE MmsgReturn(t, read_args, "Ingress")
    /\ UNCHANGED <<kernel, accept_args, close_args, write_args, sendfile_args,
                   conn_disabled_map, steps>>

(***************************************************************************)
(* writev and readv work on any descriptor.  Their records are staged     *)
(* with sock_event false; on a socket the kernel passes through            *)
(* security_socket_sendmsg / security_socket_recvmsg, whose probes set the *)
(* flag on the task's pending record.  No other task touches that record,  *)
(* so the marker probe is part of the kernel step.                         *)
(***************************************************************************)
entry_writev(t) ==
    /\ "writev" \in Syscalls
    /\ \E fd \in Fds, iov \in IovArrays :
          /\ Issue(t, VecCall("writev", fd, NULL, iov))
          /\ write_args' = MapInsert(write_args, t, DataArgs(fd, NULL, iov, 0, FALSE)).map
    /\ UNCHANGED <<kernel, accept_args, conn_args, close_args, read_args, sendfile_args,
                   conn_info_map, conn_disabled_map, events, clock>>

entry_readv(t) ==
    /\ "readv" \in Syscalls
    /\ \E fd \in Fds, iov \in IovArrays :
          /\ Issue(t, VecCall("readv", fd, NULL, iov))
          /\ read_args' = MapInsert(read_args, t, DataArgs(fd, NULL, iov, 0, FALSE)).map
    /\ UNCHANGED <<kernel, accept_args, conn_args, close_args, write_args, sendfile_args,
                   conn_info_map, conn_disabled_map, events, clock>>

\* try_entry_security_socket_sendmsg / _recvmsg: get_ptr_mut(..)? on the
\* task's record, then sock_event = true.
MarkSockEvent(m, t) == IF t \in DOMAIN m THEN [m EXCEPT ![t].sock_event = TRUE] ELSE m

entry_security_socket_sendmsg(t) == write_args' = MarkSockEvent(write_args, t)

entry_security_socket_recvmsg(t) == read_args' = MarkSockEvent(read_args, t)

sys_writev(t) ==
    /\ InKernel(t, "writev")
    /\ kfd[Tgid(t)][pc[t].fd] # "free"
    /\ \E r \in Transferred(pc[t].len) :
          pc' = [pc EXCEPT ![t].ret = r, ![t].onsock = (kfd[Tgid(t)][pc[t].fd] = "sock")]
    /\ IF kfd[Tgid(t)][pc[t].fd] = "sock" THEN entry_security_socket_sendmsg(t)
       ELSE UNCHANGED write_args
    /\ UNCHANGED <<kernel, accept_args, conn_args, close_args, read_args, sendfile_args,
                   conn_info_map, conn_disabled_map, events, clock, steps>>

sys_readv(t) ==
    /\ InKernel(t, "readv")
    /\ kfd[Tgid(t)][pc[t].fd] # "free"
    /\ \E r \in Transferred(pc[t].len) :
          pc' = [pc EXCEPT ![t].ret = r, ![t].onsock = (kfd[Tgid(t)][pc[t].fd] = "sock")]
    /\ IF kfd[Tgid(t)][pc[t].fd] = "sock" THEN entry_security_socket_recvmsg(t)
       ELSE UNCHANGED read_args
    /\ UNCHANGED <<kernel, accept_args, conn_args, close_args, write_args, sendfile_args,
                   conn_info_map, conn_disabled_map, events, clock, steps>>

\* EBADF on a descriptor that is not open: no marker.
sys_vec_badf(t) ==
    /\ \E op \in {"writev", "readv"} : InKernel(t, op)
    /\ kfd[Tgid(t)][pc[t].fd] = "free"
    /\ SetRet(t, -1)
    /\ UNCHANGED <<kernel, staging, conn_info_map, conn_disabled_map, events, clock, steps>>

\* Faulty variant for mutation analysis: the sock_event test is dropped.
ret_writev_unmarked(t) ==
    /\ Returning(t, "writev")
    /\ Done(t)
    /\ IF t \notin DOMAIN write_args
       THEN UNCHANGED <<write_args, conn_info_map, events, clock>>
       ELSE DataReturn(t, write_args, TRUE, "Egress", pc[t].ret, write_args[t].iov)
    /\ UNCHANGED <<kernel, accept_args, conn_args, close_args, read_args, sendfile_args,
                   conn_disabled_map, steps>>

\* try_ret_writev: only a record marked by the socket hook is processed.
ret_writev(t) ==
    /\ Returning(t, "writev")
    /\ Done(t)
    /\ CASE t \notin DOMAIN write_args -> UNCHANGED <<write_args, conn_info_map, events, clock>>
         [] write_args[t].sock_event ->
                DataReturn(t, write_args, TRUE, "Egress", pc[t].ret, write_args[t].iov)
         [] OTHER -> /\ write_args' = MapRemove(write_args, t)
                     /\ UNCHANGED <<conn_info_map, events, clock>>
    /\ UNCHANGED <<kernel, accept_args, conn_args, close_args, read_args, sendfile_args,
                   conn_disabled_map, steps>>

ret_readv(t) ==
    /\ Returning(t, "readv")
    /\ Done(t)
    /\ CASE t \notin DOMAIN read_args -> UNCHANGED <<read_args, conn_info_map, events, clock>>
         [] read_args[t].sock_event ->
                DataReturn(t, read_args, TRUE, "Ingress", pc[t].ret, read_args[t].iov)
         [] OTHER -> /\ read_args' = MapRemove(read_args, t)
                     /\ UNCHANGED <<conn_info_map, events, clock>>
    /\ UNCHANGED <<kernel, accept_args, conn_args, close_args, write_args, sendfile_args,
                   conn_disabled_map, steps>>

(***************************************************************************)
(* The per-connection kill switch: a writer outside the probe program      *)
(* stores the tsid of a registered connection in CONN_DISABLED_MAP.        *)
(***************************************************************************)
disable_conn ==
    /\ \E k \in DOMAIN conn_info_map :
          /\ MapGet(conn_disabled_map, k, 0) < conn_info_map[k].id.tsid
          /\ conn_disabled_map' = MapInsert(conn_disabled_map, k, conn_info_map[k].id.tsid).map
    /\ UNCHANGED <<kernel, pc, staging, conn_info_map, events, clock, steps>>

(***************************************************************************)
(* A process exits (exit_group, or killed) and its tgid is handed to a     *)
(* new process.  The kernel releases every descriptor of the old process   *)
(* through its exit path, which none of the probes watches: no close probe *)
(* fires, so CONN_INFO_MAP keeps the old process's entries under           *)
(* gen_tgid_fd(tgid, fd).  Threads blocked in a syscall are woken and      *)
(* return first, so each task of the tgid is idle.  born is what           *)
(* get_tgid_start_time reads: the start of the tgid's current process.     *)
(***************************************************************************)
ProcessExit(g) ==
    /\ ProcessExits
    /\ steps < MaxSyscalls
    /\ \A t \in Tasks : Tgid(t) = g => Idle(t)
    /\ kfd' = [kfd EXCEPT ![g] = [fd \in Fds |-> "free"]]
    /\ born' = [born EXCEPT ![g] = clock]
    /\ steps' = steps + 1
    /\ UNCHANGED <<pc, staging, conn_info_map, conn_disabled_map, events, clock>>

(***************************************************************************)
(* The system                                                              *)
(***************************************************************************)
Init ==
    /\ kfd = [g \in Tgids |-> [fd \in Fds |-> "free"]]
    /\ pc = [t \in Tasks |-> IdleCall]
    /\ accept_args = <<>> /\ conn_args = <<>> /\ close_args = <<>>
    /\ write_args = <<>> /\ read_args = <<>> /\ sendfile_args = <<>>
    /\ conn_info_map = <<>> /\ conn_disabled_map = <<>>
    /\ ctrl_events = <<>> /\ data_events = <<>> /\ stats_events = <<>>
    /\ clock = 0
    /\ born = [g \in Tgids |-> 0]
    /\ steps = 0

\* What a task asks for: it may never issue another syscall.
UserStep(t) ==
    \/ OpenDescriptor(t, "sock") \/ OpenDescriptor(t, "file")
    \/ entry_accept(t) \/ entry_connect(t) \/ entry_close(t) \/ entry_write(t)
    \/ entry_send(t) \/ entry_sendto(t)
    \/ entry_recvfrom(t) \/ entry_sendfile(t) \/ entry_sendmsg(t) \/ entry_recvmsg(t)
    \/ entry_sendmmsg(t) \/ entry_recvmmsg(t) \/ entry_writev(t) \/ entry_readv(t)

\* The kernel completing a syscall the task is in (every modelled call
\* returns: a blocking accept or read is modelled by its eventual result).
KernelStep(t) ==
    \/ sys_accept(t) \/ sys_connect(t) \/ sys_close(t) \/ sys_write(t)
    \/ sys_recvfrom(t) \/ sys_sendfile(t)
    \/ sys_msg(t, "sendmsg") \/ sys_msg(t, "recvmsg")
    \/ sys_msg(t, "send") \/ sys_msg(t, "sendto")
    \/ sys_mmsg(t, "sendmmsg") \/ sys_mmsg(t, "recvmmsg")
    \/ sys_writev(t) \/ sys_readv(t) \/ sys_vec_badf(t)

\* The kretprobe run as the syscall returns to the task.
ReturnStep(t) ==
    \/ ret_accept(t) \/ ret_connect(t) \/ ret_close(t) \/ ret_write(t)
    \/ ret_send(t) \/ ret_sendto(t)
    \/ ret_recvfrom(t) \/ ret_sendfile(t) \/ ret_sendmsg(t) \/ ret_recvmsg(t)
    \/ ret_sendmmsg(t) \/ ret_recvmmsg(t) \/ ret_writev(t) \/ ret_readv(t)

\* sock_alloc is only reached by an accept that gets as far as it.
TaskStep(t) == UserStep(t) \/ ret_sock_alloc(t) \/ KernelStep(t) \/ ReturnStep(t)

\* Once the syscall budget is spent and every task has returned, the
\* behaviour is complete.
Terminating ==
    /\ steps = MaxSyscalls
    /\ \A t \in Tasks : Idle(t)
    /\ UNCHANGED vars

Next ==
    \/ \E t \in Tasks : TaskStep(t)
    \/ disable_conn
    \/ \E g \in Tgids : ProcessExit(g)
    \/ Terminating

Spec == Init /\ [][Next]_vars

\* A syscall a task has entered is completed by the kernel, and the
\* kretprobe runs when it returns.  Issuing syscalls, the sock_alloc
\* kprobe and the user-space kill switch are not assumed to happen.  A
\* task is never in the kernel and returning at once, so one weak
\* fairness condition per task covers both steps.
Fairness == \A t \in Tasks : WF_vars(KernelStep(t) \/ ReturnStep(t))

FairSpec == Spec /\ Fairness

(***************************************************************************)
(* Properties                                                              *)
(***************************************************************************)
Ops == {"idle", "accept", "connect", "close", "write", "send", "sendto", "recvfrom", "sendfile",
        "sendmsg", "recvmsg", "sendmmsg", "recvmmsg", "writev", "readv"}

ConnIds == [tgid: Tgids, fd: Fds, tsid: 1..MaxSyscalls]

ConnInfos ==
    [id: ConnIds, role: Roles, sa_family: {AF_UNKNOWN, AF_INET, AF_INET6},
     protocol: Protocols, protocol_total_count: Nat,
     write_bytes: Nat, read_bytes: Nat, prev_reported_bytes: Nat]

\* Every map stays within MAX_MAP_ENTRIES, staging maps are keyed by task
\* and the registry by <<tgid, fd>>; a tsid is a clock reading.
TypeOK ==
    /\ kfd \in [Tgids -> [Fds -> {"free", "sock", "file"}]]
    /\ \A t \in Tasks : pc[t].op \in Ops
    /\ \A i \in DOMAIN staging :
          DOMAIN staging[i] \subseteq Tasks /\ Cardinality(DOMAIN staging[i]) <= MaxMapEntries
    /\ DOMAIN conn_info_map \subseteq Keys
    /\ Cardinality(DOMAIN conn_info_map) <= MaxMapEntries
    /\ \A k \in DOMAIN conn_info_map : conn_info_map[k] \in ConnInfos
    /\ DOMAIN conn_disabled_map \subseteq Keys
    /\ clock \in 0..MaxSyscalls
    /\ born \in [Tgids -> 0..MaxSyscalls]
    /\ steps \in 0..MaxSyscalls

IsClose(e) == e.event_type = "Close"

(***************************************************************************)
(* The registry refines ConnRegistry: the ids in CONN_INFO_MAP are its     *)
(* registry, the clock its latest tsid, and the Open/Close events, reduced *)
(* to type and id, its control stream.  Every step of the probe program    *)
(* is a Register, a Retire or leaves all three alone.  It follows that a   *)
(* tsid is never minted twice, that a Close is only output for the id     *)
(* being removed in the same step, and that a closed id never reappears.   *)
(***************************************************************************)
Registry == INSTANCE ConnRegistry WITH
    Keys <- Keys,
    Ids <- ConnIds,
    registry <- [k \in DOMAIN conn_info_map |-> conn_info_map[k].id],
    minted <- clock,
    reported <- [i \in DOMAIN ctrl_events |->
                    [type |-> ctrl_events[i].event_type, id |-> ctrl_events[i].id]]

\* submit_open_event, get_or_create_conn_info and process_syscall_close
\* keep CONN_INFO_MAP and sk_ctrl_events to the abstract registry's
\* promises (ConnRegistry!Spec).
RegistryRefinement == Registry!Spec

NewDataEvents == {data_events'[i] : i \in (Len(data_events) + 1)..Len(data_events')}

\* With a TargetTgid set, tasks of any other tgid leave no trace: no
\* registry entry and no control, data or stats event (the Unmatched early
\* returns of every process_* function).
UnmatchedTgidSilent ==
    /\ \A k \in DOMAIN conn_info_map : match_trace_tgid(k[1]) # "Unmatched"
    /\ \A i \in DOMAIN ctrl_events : match_trace_tgid(ctrl_events[i].id.tgid) # "Unmatched"
    /\ \A i \in DOMAIN data_events : match_trace_tgid(data_events[i].id.tgid) # "Unmatched"
    /\ \A i \in DOMAIN stats_events : match_trace_tgid(stats_events[i].id.tgid) # "Unmatched"

\* The step is the return probe of task t.
ReturnOf(t) == pc[t].ret # NULL /\ pc'[t] = IdleCall

NewDataSeq == SubSeq(data_events', Len(data_events) + 1, Len(data_events'))

\* Bytes a completed call moved: an mmsg call's ret counts messages.
Moved(c) ==
    IF c.op \in {"sendmmsg", "recvmmsg"} THEN c.xfer
    ELSE IF c.ret > 0 THEN c.ret ELSE 0

\* The data events a return probe outputs announce (msg_size) no more
\* bytes than its syscall moved: a short write or read is clamped by the
\* chunk and iovec loops, a failed call announces nothing.  The mmsg
\* probes take bytes_count from the msg_len staged at entry and test
\* num_msgs as a u32.
DataWithinTransfer ==
    [][\A t \in Tasks :
          ReturnOf(t) =>
              FoldLeft(LAMBDA acc, e : acc + e.msg_size, 0, NewDataSeq) <= Moved(pc[t])
      ]_vars

\* Spec 4.1's marker rationale: a read or write on a descriptor that is not
\* a socket is not socket traffic.  The return probe of a write, writev or
\* readv the kernel did on a file outputs no data event and creates no
\* registry entry.
DataOnlyFromSockets ==
    [][\A t \in Tasks :
          ReturnOf(t) /\ pc[t].op \in {"write", "writev", "readv"} /\ ~pc[t].onsock =>
              /\ Len(data_events') = Len(data_events)
              /\ DOMAIN conn_info_map' \subseteq DOMAIN conn_info_map
      ]_vars

\* Handshake staging is released: every AcceptArgs or ConnectArgs record a
\* task stages is eventually removed.  try_ret_accept removes it whatever
\* the result; the connect, sendmsg, recvmsg and mmsg return probes remove
\* ConnectArgs before anything in them can fail.  An insert that failed
\* in the entry probe leaves nothing behind.
HandshakeStagingReleased ==
    \A t \in Tasks :
        (t \in DOMAIN accept_args \/ t \in DOMAIN conn_args)
            ~> (t \notin DOMAIN accept_args /\ t \notin DOMAIN conn_args)

(***************************************************************************)
(* Properties the code is expected to violate (see README, findings).      *)
(***************************************************************************)
BytesAnnounced(id, direction) ==
    FoldLeft(LAMBDA acc, e : acc + e.msg_size, 0,
             SelectSeq(data_events, LAMBDA e : e.id = id /\ e.direction = direction))

\* Spec 3 and scenario S1: the Close event reports the bytes the
\* connection carried, at least those its data events announced.
CloseReportsTransferredBytes ==
    \A i \in DOMAIN ctrl_events :
        IsClose(ctrl_events[i]) =>
            /\ ctrl_events[i].write_bytes >= BytesAnnounced(ctrl_events[i].id, "Egress")
            /\ ctrl_events[i].read_bytes >= BytesAnnounced(ctrl_events[i].id, "Ingress")

\* Spec 4.1: a return probe removes its staging record unconditionally, so
\* a task that is not inside a syscall has none.
StagingClearedOnReturn ==
    \A t \in Tasks : Idle(t) => \A i \in DOMAIN staging : t \notin DOMAIN staging[i]

\* A Close event is only output for a connection whose descriptor the
\* tgid has closed: ret_close must not retire a connection that another
\* thread has meanwhile opened on the same descriptor number.
CloseOnlyForClosedDescriptor ==
    [][\A i \in (Len(ctrl_events) + 1)..Len(ctrl_events') :
          IsClose(ctrl_events'[i]) =>
              kfd[ctrl_events'[i].id.tgid][ctrl_events'[i].id.fd] = "free"
      ]_vars

NewEvents ==
    {ctrl_events'[i] : i \in (Len(ctrl_events) + 1)..Len(ctrl_events')}
        \cup {stats_events'[i] : i \in (Len(stats_events) + 1)..Len(stats_events')}
        \cup NewDataEvents

\* Spec 3: a Uid tells the processes that held one tgid apart, and a ConnId
\* names a connection of one process.  An event a return probe outputs for
\* its own tgid names a connection minted during the current process of
\* that tgid (a tsid above the clock reading at which that process
\* started), never one left in CONN_INFO_MAP by the process before it.
EventsOfCurrentProcess ==
    [][\A t \in Tasks :
          ReturnOf(t) =>
              \A e \in NewEvents : e.id.tgid = Tgid(t) => e.id.tsid > born[Tgid(t)]
      ]_vars

\* A registry entry does not outlive its descriptor: once the descriptor
\* under a key is closed, the entry is eventually removed (by the close's
\* return probe), so CONN_INFO_MAP does not fill up with dead connections.
RegistryEntriesRetired ==
    \A k \in Keys :
        (k \in DOMAIN conn_info_map /\ kfd[k[1]][k[2]] = "free")
            ~> k \notin DOMAIN conn_info_map
=============================================================================
