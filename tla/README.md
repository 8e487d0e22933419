# TLA+ models of the eBPF socket tracer

This directory holds TLA+ models of the socket tracer's kernel probe program
(`src/ebpf/socket-tracer/socket-tracer-ebpf/src/main.rs` and `protocols.rs`),
the TLC configurations that check them, and `PROJECT.json`. `PROJECT.json`
maps every modelled definition to its source lines. It also lists the runs,
the mutants that show each property depends on the code, the findings and
the hazards.

## The system

The tracer is a set of kprobe/kretprobe pairs around socket syscalls. They
share a set of BPF maps:

* **Probe dispatch and staging.** An entry probe copies the syscall's
  arguments into a per-task staging hash map keyed by `pid_tgid`. There are
  six of them: `accept_args`, `conn_args`, `write_args`, `read_args`,
  `close_args` and `sendfile_args`. The return probe looks the record up,
  runs a `process_*` function with the syscall's return value, and removes
  the record. Only `entry_accept`/`ret_accept` are compiled in today. The
  other pairs (connect, write/send/sendto, recvfrom, sendmsg, recvmsg, the
  mmsg variants, writev/readv, close, sendfile, the `sock_alloc` kprobe and
  the `security_socket_*` markers) are present as commented-out code.
  spec.md §9 says they are part of the design, so they are modelled from
  that code. In that code every `ret_*` handler except `ret_accept` and
  `ret_connect` carries a `#[kprobe]` attribute. The model treats them as return probes
  running after the kernel step, as their names, their use of `ctx.ret()`
  and spec §4.1 intend. Only `ret_sock_alloc` is modelled as the kprobe it
  says it is, because it runs inside `accept`.
* **Connection registry.** `CONN_INFO_MAP` maps `(tgid<<32)|fd` to a
  `ConnInfo`. That record holds the id (tgid, fd, tsid from
  `bpf_ktime_get_ns`), the role, the family, the protocol and the byte
  counters.
  * Entries are made in two ways. `submit_open_event` makes them after
    accept and connect. `get_or_create_conn_info` makes them lazily on
    data calls.
  * `process_syscall_close` removes them.
* **Policy.** The gates are:
  * `should_trace_sockaddr_family` and `should_trace_conn`.
  * The self-tgid and target-tgid filters, read from the per-CPU
    `ctrl_values` array.
  * The per-protocol role mask in `ctrl_map`.
  * The per-connection kill switch `CONN_DISABLED_MAP`, which holds a tsid
    threshold. It is written from user space.

  `should_send_data` combines these gates.
* **Protocol inference.** `infer_protocol` and `update_traffic_class` look
  at the first bytes of a payload to recognise HTTP. They then fix the
  connection's role.
* **Emission.** Records are output to three perf arrays: `sk_ctrl_events`
  (Open and Close), `sk_data_events` (payload chunks) and `conn_stat_events`.
  * `submit_data_event` splits a payload into at most `CHUNK_LIMIT`
    chunks of `MAX_MSG_SIZE`.
  * `submit_data_event_iovecs` walks at most `LOOP_LIMIT` iovecs.
  * `update_conn_stats` outputs a stats record every
    `CONN_STATS_DATA_THRESHOLD` bytes.
* **User space.** The loader (`socket-tracer/src/main.rs`, `sendmmsg.rs`)
  attaches probes and prints control events. The agent server is
  unrelated. Neither is modelled.

The hard behaviours come from concurrency and from the kernel.

* **Concurrent threads.** Probes of different threads run on different
  CPUs at the same time. Threads of one process share a descriptor table,
  and the kernel hands out the lowest free descriptor number.
* **Three separate steps.** Each syscall is an entry probe, then the
  kernel's own work, then a return probe. Other threads can act between
  any two of them.
* **Aborts part way.** Map inserts fail once `MAX_MAP_ENTRIES` keys are
  present. Reads of user memory can fault. Every failure aborts the probe
  with `?` part way through.

## Modules

| Module | Models | Source |
|---|---|---|
| `TracerPolicy` | filters, `should_send_data`, protocol inference, `update_traffic_class` (pure operators over constants `CtrlMap`, `SelfTgidValue`, `TargetTgidValue`) | main.rs 189-283, 655-670; protocols.rs |
| `DataChunks` | `perf_submit_buf`, the chunk loop of `submit_data_event`, the iovec walk of `submit_data_event_iovecs` (RECURSIVE operators returning the records output) | main.rs 454-545 |
| `MCDataChunks` | checks `DataChunks` against reference chunkings written from spec §4.5 | — |
| `SocketTracer` | the whole probe program with the tasks whose syscalls it observes; EXTENDS `TracerPolicy` and `DataChunks` | main.rs 106-917 and the probe pairs 921-1559 |
| `ConnRegistry` | the abstract registry: live ids under keys, fresh tsids, and Open/Close reports about the id registered or retired in that step | spec.md 3, 4.3 |
| `MCSocketTracer` | instantiates `SocketTracer` for TLC: three threads, two sharing a tgid (two threads for liveness) | — |

### How `SocketTracer` corresponds to the code

The state is as follows.

* The staging maps, `conn_info_map` and `conn_disabled_map` are functions
  from keys to records. A map insert fails on a new key when the map
  already holds `MaxMapEntries` keys (`MapInsert`).
* `ctrl_events`, `data_events` and `stats_events` are the records output
  to the three perf arrays, in order.
* `kfd` is the kernel's descriptor table of each tgid.
* `pc[t]` is the syscall thread `t` is in, with its real arguments and,
  once the kernel has answered, its return value.
* `clock` is the `bpf_ktime_get_ns` reading. It is advanced only when a
  tsid read from it is stored.

Each probe function is one atomic action. `entry_X(t)` stages the
arguments. `sys_X(t)` is the kernel doing the syscall (allocating or
freeing descriptors, choosing the result). `ret_X(t)` is the return probe:
* its guard is the staging lookup;
* it applies the whole `process_*` function as an outcome (ok or Err, the
  registry after it, the records it output);
* it removes the staging record exactly as the code does:
  * always, for accept and connect;
  * only when `process_*` returned Ok, for close, write, recvfrom and
    sendfile (`RemoveIfOk`).

The process functions are modelled as follows.

* **`process_data`**: classifies, gates, chunks and counts a value copy
  of the registry entry, as the code does, and stores nothing back. It
  leaves out two early returns: a failed read of an iovec during
  classification (`main.rs` 760-762), which cannot happen in the runs
  with vectored calls (`MemoryFaults` is FALSE), and the null-buffer
  check.
* **`ret_sock_alloc`**: the parse of a `sock` pointer may give any
  outcome. The probe is a kprobe reading `ctx.ret()`, which is undefined
  at function entry.
* **write, send and sendto** have identical probe bodies (only
  `source_function` differs): `EntryWrite`/`WriteReturn` are the shared
  body, and `entry_send`, `ret_send`, etc. instantiate it. The kernel
  steps differ: `write` works on any descriptor, `send` and `sendto` fail
  with ENOTSOCK on anything but a socket (`sys_msg`).
* **Sockaddr parsing**: A payload is its leading token plus its
  byte count, and addresses are reduced to their family. A sockaddr
  parses only for AF_INET/AF_INET6, and may fault when `MemoryFaults`
  holds.
* **`disable_conn`**: the user-space writer of `CONN_DISABLED_MAP` (not
  under src/). It stores the tsid of a registered connection.
* **`OpenDescriptor`**: the unprobed `socket`/`open` calls, which only
  allocate descriptors.
* **`ProcessExit(g)`**: a process exits and its tgid is given to a new
  process. The kernel releases the descriptors through its exit path,
  which no probe watches, so `CONN_INFO_MAP` is untouched. Threads blocked
  in a syscall are woken and return first, so every task of the tgid is
  idle. `born[g]` is the clock reading at the new process's start, what
  `get_tgid_start_time` would read. `ProcessExits` enables the action.
* **Vectored calls.** An iovec array is a sequence of `[len, head]`, taken
  from the constant `IovArrays`. `Classified` is the `match extra_args.vecs`
  of `process_data`: it runs inference on the first iovec, among the first
  `PROTOCOL_VEC_LIMIT`, whose `min(bytes_count, iov_len)` is non-zero.
  `Submitted` picks `submit_data_event` or `submit_data_event_iovecs`.
  `DataReturn` is the common tail of every data return probe: the whole
  `process_data` as one outcome, then the staging removal.
* **mmsg calls.** `entry_sendmmsg`/`entry_recvmmsg` copy `msg_len` from
  the first header at entry. Its value is a member of `MsgLens`, the value
  the caller left there. The kernel step records the return (1 or -1) and
  the bytes really moved (`xfer`). `NumMsgsPositive` is the u32 test
  `num_msgs > 0`, true for -1.
* **`security_socket_*` hooks.** They run inside the kernel's
  `sock_sendmsg`/`sock_recvmsg`, so they are part of `sys_writev` and
  `sys_readv` (`MarkSockEvent`) when the descriptor is a socket. Only
  `ret_writev` and `ret_readv` read the marker. The hooks of other calls
  change a record no probe consults, and are left out.
* **`onsock` and `xfer`** in `pc[t]` are the kernel's facts (was this a
  socket, how many bytes moved). Only properties read them.
* **Staging records.** `ConnectArgs`, `AcceptArgs`, `CloseArgs`,
  `SendfileArgs` and `DataArgs` are the records of `types.rs`, built by
  the entry actions. Pointers are abstracted to what the return probe
  reads through them. The sendfile source descriptor (`in_fd`) is staged
  but never read, so one value `InFd` stands for it.
* **`gen_tsid`** is the next tick of `clock`.
* **`Syscalls`** selects which entry probes a run enables, so that each
  run's state space holds the calls its question needs.

## Runs

| Run | Expect | What it shows |
|---|---|---|
| `chunks` (`MCDataChunks.cfg`) | pass | `PlainChunksMatchReference` and `IovecChunksMatchReference`: for every payload of 0..15 bytes and every array of up to 3 iovecs of 0..5 bytes, at two start positions and every fault point, the chunk sizes equal the reference (a prefix of it after a fault). `msg_buf_size = min(msg_size, MAX_MSG_SIZE)`. |
| `chunk_positions` | violation | `PlainPositionsAdvance`: the chunks of one payload all carry the same `position`. |
| `tracer` (`MCSocketTracer.cfg`) | pass | Scalar calls, send and sendto, with processes exiting. `RegistryRefinement`: `CONN_INFO_MAP` and the control stream implement `ConnRegistry` (no id comes back after it leaves, tsids are fresh, each Open/Close is about the id registered/retired in that step). `TypeOK` is the type invariant. |
| `tracer_target` | pass | Vectored, mmsg, accept and connect calls with TargetTgid = 100: tgid 200 leaves no trace (`UnmatchedTgidSilent`); no return probe announces more bytes than its call moved (`DataWithinTransfer`); writev/readv on a file output nothing and register nothing (`DataOnlyFromSockets`). |
| `handshake_live` (`MCSocketTracer_live.cfg`) | pass | `HandshakeStagingReleased`: under fairness every `AcceptArgs`/`ConnectArgs` record (accept, connect, sendmsg, sendmmsg) is eventually removed. |
| `close_bytes` | violation | `CloseReportsTransferredBytes`: a Close reports 0 bytes after its data events announced 20. |
| `staging_leak` | violation | `StagingClearedOnReturn`: closing a descriptor with no registry entry leaks `close_args`. |
| `fd_reuse` | violation | `CloseOnlyForClosedDescriptor`: t2 closes fd 3, t1's accept is handed fd 3 and registers it, and t2's return probe then flushes and removes t1's new connection. |
| `mmsg_bytes` | violation | `DataWithinTransfer`: a sendmmsg on a closed descriptor, with 20 left in `msg_len`, returns -1 and its return probe outputs a 20-byte data event. |
| `file_write` | violation | `DataOnlyFromSockets`: a write to a regular file registers a connection. |
| `zombie_entries` | violation | `RegistryEntriesRetired`: with accept and connect disabled, a sendfile return after a sibling's close re-creates the closed descriptor's entry, and nothing removes it. |
| `tgid_reuse` | violation | `EventsOfCurrentProcess`: a process exits with a registered connection, a new process gets its tgid, opens a socket on the same number and closes it; the close outputs a Close event for the old process's connection. |

Each property of a passing run has a mutant in `PROJECT.json`: a faulty
variant of the code (a `Faulty variant` operator defined just before the
definition it replaces) under which TLC finds the property violated.

### Refinement

`SocketTracer` instantiates `ConnRegistry` with `registry` the ids in
`conn_info_map`, `minted` the clock, and `reported` the control events as
`[type, id]`. Every step of the tracer is a `Register`, a `Retire` or a
stutter of the registry. `get_or_create_conn_info` and `submit_open_event`
register, and `process_syscall_close` retires (and reports Close only when
it retires). The zombie entries of finding 8 do not break the refinement:
they are registrations under a fresh tsid.

### Bounds

* **`MCDataChunks`.**
  * `MAX_MSG_SIZE = 4` and `CHUNK_LIMIT = 3`, so payloads up to 15 bytes
    cover the cases below one chunk, exactly at a boundary, and beyond
    `CHUNK_LIMIT * MAX_MSG_SIZE` (truncation).
  * `LOOP_LIMIT = 2` with up to 3 iovecs covers arrays longer than the
    walk. It also covers empty iovecs and a total below the iovec lengths.
* **`MCSocketTracer`.**
  * **Threads.** There are three threads. Two are of tgid 100, which is
    what the fd-reuse race needs. The third is of tgid 200, which is the
    self tgid in `tracer` and the unmatched tgid in `tracer_target`.
  * **Inputs.**
    * There are two descriptors.
    * The heads are `GET` and `HTTP`, giving requests and responses and
      so both roles.
    * Payload sizes are 8 (too short to classify) and 20 (above the
      16-byte threshold and above `MAX_MSG_SIZE = 16`, so two chunks
      with `CHUNK_LIMIT = 2`).
  * **Map capacity.** `MaxMapEntries = 2` with three threads makes the
    map-full paths reachable.
  * **Syscall budget.** `MaxSyscalls = 3` syscalls per behaviour is
    enough for each of these sequences:
    * open, write, close;
    * accept, write, close;
    * the close/accept race.

    It keeps `tracer` near 2.5 min (1.3M states) and `tracer_target`
    near 2 min (1.7M states). `tgid_reuse` needs 4: accept, exit, open,
    close.
  * **Process exits.** `ProcessExits` is TRUE in `tracer` (the refinement
    must hold across exits) and `tgid_reuse`, FALSE
    elsewhere.
  * **iovec arrays.** One array has an empty iovec ahead of a 20-byte
    response, so inference must skip it. The other has a 24-byte request
    ahead of 8 bytes, so a 20-byte transfer is clamped inside the first
    iovec.
  * **msg_len.** `MsgLens = {0}` (headers zeroed by the caller) in
    the passing runs; `{0, 20}` in `mmsg_bytes`.
  * **Liveness instance.** Two threads of tgid 100, one descriptor, the
    handshake calls and close. This keeps the fairness check near 2 min.
  * **Symmetry.** t1 and t2 are symmetric. The liveness runs use no
    symmetry.
  * **Memory faults.** `MemoryFaults` is FALSE in these runs. Faults are
    enumerated exhaustively by `MCDataChunks`.

### Fairness

`FairSpec` adds weak fairness, per thread, on its kernel and return steps
(`KernelStep(t) \/ ReturnStep(t)`). Every modelled syscall returns, and a
kretprobe runs on every return of its function, so a thread in a syscall
does not stay there. Entry probes and the unprobed opens are user
decisions and are not fair. `ret_sock_alloc` and `disable_conn` are not
fair either. The safety runs use `Spec`. A behaviour ends when the
syscall budget is spent and every thread has returned (`Terminating`).
That is the only state without successors, so deadlock checking stays on
in the tracer runs. `MCDataChunks` checks one probe invocation per
behaviour and disables deadlock checking for that reason.

## Findings

1. **Code bug (no write-back).** `process_data` and
   `process_syscall_sendfile` update a copy of the `ConnInfo` and never
   insert it back. Counters, protocol and role are therefore lost, and
   Close reports 0 bytes. This contradicts spec §3, §8.1, §9 and S1.
2. **Code bug (positions).** `submit_data_event` never advances
   `position` between chunks. This contradicts spec §4.5 and S3.
3. **Code bug (staging leak).** The return probes of close, write, send,
   sendto, recvfrom and sendfile call `process_*(..)?` before removing
   the staging record, so an error leaks it. Spec §4.1 says the removal
   is unconditional.
4. **Spec gap (fd reuse).** A close's return probe looks the descriptor
   up after the kernel has freed it. A sibling thread that was handed the
   same number in between loses its new connection.
5. **Spec/code divergence (AF_UNKNOWN Open), not checked by a run.**
   `submit_open_event` emits Open events for AF_UNKNOWN (accept without
   an address buffer), whereas spec §4.3 says they are suppressed. One
   accept shows it, so a unit test reaches it and no run is spent on it.

6. **Code bug (mmsg byte count).** `ret_sendmmsg`/`ret_recvmmsg` read
   the return value as u32, so -1 counts as a message sent. The byte count
   they process is the `msg_len` copied at entry, before the kernel filled
   it. A failed call can announce bytes and register a descriptor that is
   not open; with zeroed headers, mmsg traffic is never reported.
7. **Code bug (file writes).** `ret_write` (the return probe of write,
   send and sendto) never tests `sock_event`. types.rs:30 and spec §4.1 say
   the marker filters calls that are not to sockets. A write to a file
   registers a connection.
8. **Spec gap (zombie entries).** A data return probe that runs after a
   sibling thread's close re-creates the registry entry through
   `get_or_create_conn_info`. Nothing removes it, so dead entries
   accumulate toward `MAX_MAP_ENTRIES`.

9. **Spec gap (tgid reuse).** `CONN_INFO_MAP` is keyed by
   `gen_tgid_fd(tgid, fd)`, without the process start time. Descriptors
   released at process exit pass no probe, so the entries stay. A later
   process with the same tgid finds them: its Close (and data) events
   carry the dead process's ConnId. Spec §3 says a Uid tells processes of
   one tgid apart.

## Not modelled

* **`entry_sendmmsg`'s inverted `msg_name` test.** It is in the model. Its
  only effect is a `ConnectArgs` record that every mmsg return probe
  removes unprocessed. No property singles that out beyond map capacity.
* **Security hooks of calls other than writev/readv.** They mark a record
  no return probe reads.
* **Control arrays as constants.** Spec §9 has the loader fill every
  CPU's copy before attaching; nothing in this repository writes them
  later (the loader here writes none, so in that deployment they read 0
  and no data event passes the protocol gate). Truncation of control
  values beyond 2^31 is abstracted by `AsU32`.
* **`get_tgid_start_time`.** ConnIds carry no `start_time_ticks`: no
  probe compares ids by Uid, and the ns-to-ticks conversion only matters
  to a consumer. The process start it reads is `born`.
* **The loader and the agent.** The loader attaches probes and logs the
  control events it drains from the per-CPU perf buffers, ignoring
  `events.lost`. It keeps no state and writes no map; its attach list is
  what a run's `Syscalls` selects. The agent server is tokio plumbing
  that never touches the tracer.
* **Missed return probes.** `ret_accept` is a kretprobe. The kernel
  skips it for a task when more tasks are blocked in `accept4` than the
  probe has instances (maxactive). The model runs every return probe, and
  `HandshakeStagingReleased` holds under that assumption. A skipped return
  leaves `AcceptArgs` until the task's next accept overwrites it, and the
  accepted connection gets no Open event. The code has no path that could
  recover from this, so a run would only restate the kernel's behaviour.
  It is listed as a hazard.
* **Out of scope.** Addresses, ports, timestamps, logging and the
  user-space printers are formatting of data no property reads.
