---------------------------- MODULE TracerPolicy ----------------------------
(***************************************************************************)
(* The decision helpers of the socket-tracer probe program                 *)
(* (socket-tracer-ebpf/src/main.rs, "filter functions") and the HTTP       *)
(* first-bytes inference (protocols.rs).  They are pure: they read the     *)
(* per-CPU control arrays, which the loader fills before it attaches the   *)
(* probes, and a value copy of a ConnInfo record.                          *)
(***************************************************************************)
EXTENDS Integers, Bitwise

CONSTANTS
    CtrlMap,         \* ctrl_map: TrafficProtocol -> u64 role bitmask
    SelfTgidValue,   \* ctrl_values[SelfTGIDIndex], an i64 (0 if never set)
    TargetTgidValue  \* ctrl_values[TargetTGIDIndex], an i64 (0 if never set)

\* Address families (linux/socket.h values, re-exported by the common crate).
AF_UNKNOWN == 0
AF_UNIX    == 1
AF_INET    == 2
AF_INET6   == 10

Roles     == {"Unknown", "Client", "Server"}
Protocols == {"Unknown", "HTTP"}
Directions == {"Egress", "Ingress"}

\* EndpointRole as u64: the value that is and-ed with the ctrl_map mask.
RoleValue == [r \in Roles |-> CASE r = "Unknown" -> 0
                                [] r = "Client"  -> 1
                                [] r = "Server"  -> 2]

\* `x as u32` of an i64 keeps the low 32 bits.  The values given here lie
\* in TLC's integer range -2^31..2^31-1: a non-negative one is unchanged,
\* a negative one becomes a u32 of at least 2^31, above every tgid the
\* kernel hands out (pid_max <= 2^22); -1 stands for it.
AsU32(x) == IF x >= 0 THEN x ELSE -1

should_trace_sockaddr_family(sa_family) ==
    sa_family \in {AF_UNKNOWN, AF_INET, AF_INET6}

should_trace_conn(conn_info) ==
    should_trace_sockaddr_family(conn_info.sa_family)

\* CONTROL_MAP.get always succeeds for an in-range index of a per-CPU
\* array; an entry the loader never wrote reads as 0.
should_trace_protocol_data(conn_info) ==
    /\ conn_info.protocol # "Unknown"
    /\ (CtrlMap[conn_info.protocol] & RoleValue[conn_info.role]) # 0

is_self_tgid(tgid) == AsU32(SelfTgidValue) = tgid

\* The `None => Unspecified` arm cannot be taken: a per-CPU array lookup
\* at an index below max_entries always returns an element.
match_trace_tgid(tgid) ==
    IF TargetTgidValue <= 0 THEN "All"
    ELSE IF AsU32(TargetTgidValue) = tgid THEN "Matched"
    ELSE "Unmatched"

should_send_data(tgid, conn_disabled_tsid, force_trace_tgid, conn_info) ==
    /\ ~is_self_tgid(tgid)
    /\ conn_info.id.tsid > conn_disabled_tsid
    /\ force_trace_tgid \/ should_trace_protocol_data(conn_info)

(***************************************************************************)
(* Protocol inference.  A buffer is abstracted to its leading token        *)
(* ("GET", "HTTP", ...) and the byte count the probe passes in.            *)
(***************************************************************************)
HttpRequestHeads == {"GET", "HEAD", "POST", "PUT", "DELETE"}

infer_http_message(head, count) ==
    IF count < 16 THEN "Unknown"
    ELSE IF head = "HTTP" THEN "Response"
    ELSE IF head \in HttpRequestHeads THEN "Request"
    ELSE "Unknown"

infer_protocol(head, count) ==
    LET msg_type == infer_http_message(head, count)
    IN  [protocol |-> IF msg_type = "Unknown" THEN "Unknown" ELSE "HTTP",
         msg_type |-> msg_type]

\* Egress xor Response decides Client; the table in update_traffic_class.
InferredRole(direction, msg_type) ==
    IF (direction = "Egress") # (msg_type = "Response") THEN "Client" ELSE "Server"

\* update_traffic_class: counts the attempt, then adopts an inferred
\* protocol and, if the role is still Unknown, infers the role.
update_traffic_class(conn_info, direction, head, count) ==
    LET inferred == infer_protocol(head, count)
        counted  == [conn_info EXCEPT !.protocol_total_count = @ + 1]
    IN  IF inferred.protocol = "Unknown" THEN counted
        ELSE [counted EXCEPT
                !.protocol = inferred.protocol,
                !.role = IF @ = "Unknown" /\ inferred.msg_type # "Unknown"
                         THEN InferredRole(direction, inferred.msg_type)
                         ELSE @]
=============================================================================
