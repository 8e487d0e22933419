---------------------------- MODULE MCDataChunks ----------------------------
(***************************************************************************)
(* Checks the chunking operators of DataChunks against reference          *)
(* definitions over every payload size up to MaxBytes and every iovec     *)
(* array of up to MaxIovecs entries.  Each state is one call of the data  *)
(* submission path: the inputs the return probe hands over, then its      *)
(* output.  The behaviour then stops (CHECK_DEADLOCK FALSE): a probe     *)
(* invocation does not loop.                                              *)
(***************************************************************************)
EXTENDS DataChunks, FiniteSets, SequencesExt

CONSTANTS
    MaxBytes,    \* largest bytes_count tried
    MaxIovecs,   \* longest iovec array tried
    MaxIovLen,   \* largest iov_len tried
    Positions    \* write_bytes/read_bytes the event starts at

VARIABLES call, done, result

vars == <<call, done, result>>

Event(p) == [position |-> p, msg_size |-> 0, msg_buf_size |-> 0]

PlainCalls ==
    [vecs: {FALSE}, size: 0..MaxBytes, start: Positions,
     failAt: {NoFault} \cup 0..(CHUNK_LIMIT - 1), iovs: {<<>>}]

IovecCalls ==
    [vecs: {TRUE}, size: 0..MaxBytes, start: Positions,
     failAt: {NoFault} \cup 0..(LOOP_LIMIT - 1),
     iovs: BoundedSeq({[len |-> n, head |-> "x"] : n \in 0..MaxIovLen}, MaxIovecs)]

Calls == PlainCalls \cup IovecCalls

Idle == [ok |-> TRUE, event |-> Event(0), out |-> <<>>]

Init ==
    /\ call \in Calls
    /\ done = FALSE
    /\ result = Idle

SubmitPlain ==
    /\ ~done /\ ~call.vecs
    /\ result' = submit_data_event(Event(call.start), call.size, call.failAt)
    /\ done' = TRUE
    /\ UNCHANGED call

SubmitIovecs ==
    /\ ~done /\ call.vecs
    /\ result' = submit_data_event_iovecs(Event(call.start), call.iovs,
                                          call.size, call.failAt)
    /\ done' = TRUE
    /\ UNCHANGED call

\* A behaviour is one probe invocation; it ends once the output is built.
Next == SubmitPlain \/ SubmitIovecs

Spec == Init /\ [][Next]_vars

(***************************************************************************)
(* Reference definitions, written from what spec.md section 4.5 says the  *)
(* chunking produces, independently of the loops.                         *)
(***************************************************************************)
CeilDiv(a, b) == (a + b - 1) \div b
MinOf(a, b) == IF a < b THEN a ELSE b

\* A plain payload of n bytes: k chunks, all but the last MAX_MSG_SIZE,
\* the last carrying the rest; each copies at most MAX_MSG_SIZE.
RefPlainSizes(n) ==
    LET k == MinOf(CHUNK_LIMIT, CeilDiv(n, MAX_MSG_SIZE))
    IN  [j \in 1..k |-> IF j < k THEN MAX_MSG_SIZE ELSE n - (k - 1) * MAX_MSG_SIZE]

\* The clamped size of each of the first LOOP_LIMIT iovecs.
RefIovecSizes(iovs, total) ==
    LET m == MinOf(LOOP_LIMIT, Len(iovs))
        Before(j) == FoldLeft(+, 0, [i \in 1..(j - 1) |-> iovs[i].len])
    IN  [j \in 1..m |-> MinOf(total, Before(j + 1)) - MinOf(total, Before(j))]

\* What each emitted record carries for a chunk of size s starting at p.
RefRecord(p, s) == [position |-> p, msg_size |-> s, msg_buf_size |-> MinOf(s, MAX_MSG_SIZE)]

RefIovecOut(iovs, total, start) ==
    LET sizes == RefIovecSizes(iovs, total)
        At(j) == start + FoldLeft(+, 0, [i \in 1..(j - 1) |-> sizes[i]])
        all == [j \in DOMAIN sizes |-> RefRecord(At(j), sizes[j])]
    IN  SelectSeq(all, LAMBDA e : e.msg_size > 0)

(***************************************************************************)
(* Properties                                                             *)
(***************************************************************************)

\* Round trip (spec 8.3, 8.4) for write/send/sendto/recvfrom: the chunks
\* submit_data_event outputs announce exactly the reference chunk sizes,
\* which sum to bytes_count, and copy min(size, MAX_MSG_SIZE) of each, so
\* only bytes beyond CHUNK_LIMIT * MAX_MSG_SIZE are lost; a read failure
\* leaves a prefix of that output.
PlainChunksMatchReference ==
    done /\ ~call.vecs =>
        LET sizes == [j \in DOMAIN result.out |-> result.out[j].msg_size]
            bufs  == [j \in DOMAIN result.out |-> result.out[j].msg_buf_size]
            ref   == RefPlainSizes(call.size)
        IN  /\ IF result.ok THEN sizes = ref ELSE IsPrefix(sizes, ref)
            /\ \A j \in DOMAIN bufs : bufs[j] = MinOf(sizes[j], MAX_MSG_SIZE)

\* The same for the vectored calls: one record per non-empty iovec among
\* the first LOOP_LIMIT, clamped to the bytes the syscall returned, at the
\* position of the bytes before it; a failed read leaves a prefix.
IovecChunksMatchReference ==
    done /\ call.vecs =>
        LET ref == RefIovecOut(call.iovs, call.size, call.start)
        IN  IF result.ok THEN result.out = ref
            ELSE IsPrefix(result.out, ref)

\* Spec 4.5 and scenario S3: every chunk of one payload is its own event
\* with inner.position advanced by the bytes emitted before it, so
\* consecutive records of a call are contiguous.  submit_data_event never
\* moves the position it was given.
PlainPositionsAdvance ==
    done /\ ~call.vecs =>
        \A j \in 1..(Len(result.out) - 1) :
            result.out[j + 1].position = result.out[j].position + result.out[j].msg_size
=============================================================================
