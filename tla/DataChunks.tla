----------------------------- MODULE DataChunks -----------------------------
(***************************************************************************)
(* How one data syscall's payload becomes SocketDataEvent records:         *)
(* perf_submit_buf, the CHUNK_LIMIT loop of submit_data_event and the      *)
(* LOOP_LIMIT iovec walk of submit_data_event_iovecs (main.rs).            *)
(*                                                                         *)
(* An event is a record with at least the fields position, msg_size and    *)
(* msg_buf_size; the fields populate_socket_data_event set earlier ride    *)
(* along unchanged.  Payload bytes are abstracted away: what is kept is    *)
(* how many are announced (msg_size) and copied (msg_buf_size).            *)
(*                                                                         *)
(* A read of user or kernel memory may fail (bpf_probe_read returns an     *)
(* error); `failAt` names the loop iteration whose read fails, NoFault     *)
(* none.  A failure aborts the whole probe with `?`: the events already    *)
(* output stay output.  Each operator returns                              *)
(*   [ok |-> BOOLEAN, event |-> scratch event after the call,              *)
(*    out |-> the sequence of records output to sk_data_events].           *)
(***************************************************************************)
EXTENDS Integers, Sequences

CONSTANTS
    MAX_MSG_SIZE,   \* payload bytes one SocketDataEvent holds
    CHUNK_LIMIT,    \* chunks submit_data_event emits at most
    LOOP_LIMIT      \* iovecs submit_data_event_iovecs walks at most

ASSUME MAX_MSG_SIZE \in Nat \ {0} /\ CHUNK_LIMIT \in Nat \ {0} /\ LOOP_LIMIT \in Nat \ {0}

NoFault == -1

Result(ok, event, out) == [ok |-> ok, event |-> event, out |-> out]

\* The number of bytes perf_submit_buf copies for a chunk of buf_size > 0:
\* all of it below MAX_MSG_SIZE, MAX_MSG_SIZE below 0x7fffffff, else none.
AmountCopied(buf_size) ==
    IF buf_size - 1 < MAX_MSG_SIZE THEN buf_size
    ELSE IF buf_size - 1 < 2147483647 THEN MAX_MSG_SIZE
    ELSE 0

\* bpf_probe_read_buf_with_size (utils.rs): bpf_probe_read of
\* min(size, dst.len()) bytes into dst; a non-zero return is the Err.
bpf_probe_read_buf_with_size(size, dst_len, readOk) ==
    [ok |-> readOk, read_size |-> IF size < dst_len THEN size ELSE dst_len]

\* perf_submit_buf: msg_size is written first, even for an empty chunk;
\* the payload is read into event.msg, MAX_MSG_SIZE bytes long.
perf_submit_buf(event, buf_size, readOk) ==
    LET sized  == [event EXCEPT !.msg_size = buf_size]
        copied == AmountCopied(buf_size)
        full   == [sized EXCEPT !.msg_buf_size = copied]
    IN  CASE buf_size = 0 \/ copied = 0 -> Result(TRUE, sized, <<>>)
          [] ~bpf_probe_read_buf_with_size(copied, MAX_MSG_SIZE, readOk).ok
                                        -> Result(FALSE, sized, <<>>)
          [] OTHER                      -> Result(TRUE, full, <<full>>)

\* Faulty variant for mutation analysis: the last iteration is not the
\* one that takes the rest.
ChunkSize_no_last(i, bytes_remaining) ==
    IF bytes_remaining > MAX_MSG_SIZE /\ i # CHUNK_LIMIT THEN MAX_MSG_SIZE ELSE bytes_remaining

\* The size of chunk i when bytes_remaining are left: the last iteration
\* takes whatever remains.
ChunkSize(i, bytes_remaining) ==
    IF bytes_remaining > MAX_MSG_SIZE /\ i # CHUNK_LIMIT - 1
    THEN MAX_MSG_SIZE
    ELSE bytes_remaining

RECURSIVE ChunkLoop(_, _, _, _, _, _)
ChunkLoop(i, bytes_submitted, buf_size, event, out, failAt) ==
    IF i = CHUNK_LIMIT THEN Result(TRUE, event, out)
    ELSE LET current_size == ChunkSize(i, buf_size - bytes_submitted)
             r == perf_submit_buf(event, current_size, i # failAt)
         IN  IF ~r.ok THEN Result(FALSE, r.event, out)
             ELSE ChunkLoop(i + 1, bytes_submitted + current_size, buf_size,
                            r.event, out \o r.out, failAt)

submit_data_event(event, buf_size, failAt) ==
    ChunkLoop(0, 0, buf_size, event, <<>>, failAt)

\* An iovec is [len |-> iov_len, head |-> leading token of its buffer].
\* Iteration i first reads the iovec from memory, then its payload; a
\* failure of either aborts.
\* Faulty variant for mutation analysis: iov_len not clamped to the bytes
\* the syscall returned.
IovecSize_unclamped(bytes_remaining, iov_len) == iov_len

IovecSize(bytes_remaining, iov_len) ==
    IF bytes_remaining < iov_len THEN bytes_remaining ELSE iov_len

RECURSIVE IovecLoop(_, _, _, _, _, _, _)
IovecLoop(i, bytes_sent, iovs, total_size, event, out, failAt) ==
    IF i >= LOOP_LIMIT \/ i >= Len(iovs) \/ bytes_sent >= total_size
    THEN Result(TRUE, event, out)
    ELSE IF i = failAt THEN Result(FALSE, event, out)
    ELSE LET iov_size == IovecSize(total_size - bytes_sent, iovs[i + 1].len)
             r == perf_submit_buf(event, iov_size, TRUE)
         IN  IovecLoop(i + 1, bytes_sent + iov_size, iovs, total_size,
                       [r.event EXCEPT !.position = @ + iov_size], out \o r.out, failAt)

submit_data_event_iovecs(event, iovs, total_size, failAt) ==
    IovecLoop(0, 0, iovs, total_size, event, <<>>, failAt)
=============================================================================
