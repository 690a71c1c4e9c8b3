# TLA+ models of the sonic-restapi ARP responder

This directory holds TLA+ models of the MSEE ARP responder in `src/arp_responder`
and `src/MSEE/arp_responder`, with the TLC configurations that check them.
The rest of the repository is a SQLite wrapper (`src/src/db_sql_ops.c`), which
is modelled in `DbSqlOps`, and thin C wrappers around swss-common, which are
not.

## The system

`arpresponder_msee_main.cc` starts one process with two threads. They are joined
by a `SOCK_DGRAM` socket pair.

* **The thrift thread** runs a `TSimpleServer`, which handles one call at a time.
  Each handler method calls the matching method of **`Cmd`** (`cmd.cc`), the
  client side of the control protocol. A `Cmd` method sends fixed-size
  `cmd_request` records and reads one `cmd_response` per request.
  `Cmd::request_mac` works in three stages:
  * it sends `REQUEST_MAC_ADD` for every tuple, then `REQUEST_MAC_COMPLETE` for
    every batch, then `REQUEST_MAC_DO`;
  * it then polls every index with `REQUEST_MAC_POLL`, sleeping 500 ms between
    passes;
  * it stops when no index is `MAC_NOT_READY` any more.
* **The engine thread** runs `ARPResponder::run` (`arpresponder_msee.cc`). It is an
  endless loop over `Poller::poll` (epoll, edge-triggered, 1 s timeout). For each
  ready descriptor it calls `process`, which calls either `process_ctrl` (one
  control request) or `process_intf` (one ARP frame). After each batch it calls
  `timeout_requests`. The engine owns these tables:
  * `fd_interfaces` and `interfaces`: the open raw packet sockets (`Interface`,
    `intf.cc`);
  * `proxy_arp`: `<<iface, stag, ctag>>` → the address to answer for;
  * `mac_request` and `mac_requests`: the request batches being assembled;
  * `waitlist`: `<<stag, ctag, ip>>` → `(index, time(0), fds)`, the ARP
    requests sent and not yet answered;
  * `ready`: index → status and result.
* **The hosts** on the QinQ segments send ARP requests, which the engine answers
  by proxy. They also send ARP replies to the requests `request_mac_do` sent.

## Modules

| module | models | source |
|---|---|---|
| `ArpResponder` | the engine: its tables, the eight control handlers, `process_intf`, `timeout_requests`, `run`/`process`; the `Poller`, `Interface`, `Arp` operations they call, as operators | `arpresponder_msee.cc`, `poller.cc`, `intf.cc`, `arp.cc`, `arp.h` |
| `ArpSystem` | the engine composed with the `Cmd` client, driven one call at a time as by `TSimpleServer`, and the hosts as an unfair environment | `cmd.cc`, `arpresponder_msee_main.cc` |
| `LookupTable` | the abstract promise of the ready table: a lookup is issued, then settles once, as found or not found, and stays settled until it is issued again | — (abstract) |
| `ExampleClient` | the session of the example client, run through `ArpSystem` | `arpresponder_msee_client.cc` |
| `ArpIngress` | one frame's way in: NIC VLAN offload, the socket filter, `Interface::recv`'s copy and tag splice, `is_valid`/`get_type`/`get_stag`/`get_ctag` | `intf.cc`, `intf.h`, `arp.h`, `arp.cc`, `arpresponder_msee.cc` |
| `SqlTable` | the abstract promise of the SQLite wrapper: a call that returns `STD_ERR_OK` had exactly its statement's effect, any other had none | — (abstract; the meaning of a statement is SQLite's) |
| `DbSqlOps` | every public function of the wrapper on one connection and one `(key, val)` table, with SQLite as the environment; refines `SqlTable` | `db_sql_ops.c`, `db_sql_ops.h` |
| `BmConfig` | start-up of the bare-metal responder: `read_config`'s `std::getline` loop as a RECURSIVE operator, and `main`'s calls of `add_interface` and `run` | `arpresponder_bm_main.cc` |
| `MC_ArpSystem`, `MC_ExampleClient`, `MC_ArpIngress`, `MC_DbSqlOps`, `MC_BmConfig` | the constants of the TLC runs | — |

### State and actions of `ArpResponder`

Each engine table is a variable: a C++ map becomes a TLA+ function and a vector
becomes a sequence. The module also has these variables:

* `registered` is the epoll set.
* `notified` is the epoll ready list.
* `sock[fd]` is the receive queue of a packet socket.
* `ctrl_in` and `ctrl_out` are the two directions of the socket pair.
* `sent` is every frame put on the wire. It is never emptied, so hosts can answer
  late or twice.
* `crashed` records that the process aborted.

Descriptors are taken from the free members of `Fds`, as `socket()` does. A
deleted interface's descriptor can therefore be handed out again.

The engine loop has four actions, and time one more:

* `Poll` is `epoll_wait` returning the ready list in any order.
* `ProcessCtrl` and `ProcessIntf` handle the next descriptor of the batch.
* `TimeoutRequests` is the sweep after the batch.
* `Tick` advances real time, but not past `EPOLL_TIMEOUT` ticks since the last
  sweep (`waited`): `epoll_wait` has returned by then, and the loop sweeps after
  every return.

Each control handler is a whole method, response included. `request_mac_do`
walks the flattened batches (`Flat`) and chooses a send outcome per pair
(`SendResults`: success, or `-1` on ENETDOWN). It then applies the loop's
effects on `waitlist`, `ready` and `sent`. A new waitlist key takes the index of
the first pair that creates it, as in the code.

`process_intf` has two outcomes:

* On a live descriptor it reads one frame (`recv`) and handles it (`handle_frame`).
  A request with no `proxy_arp` entry is dropped. A proxied request is answered
  with `ReplyFrame` (`make_reply_from_request`, source MAC from
  `populate_src_info`), and then, as in the code, the *same* frame, now a reply,
  goes through the reply branch (`resolve`). A reply resolves the waitlist entry
  of `<<stag, ctag, sender ip>>` when its descriptor is in the entry's set. An
  invalid frame is dropped.
* On a descriptor whose interface was deleted earlier in the same batch it sets
  `crashed`. In the code, `interfaces[fd]` is freed, `recvmsg(-1)` throws and the
  thread terminates.

Each interface has a MAC (`IfMac`) and each host has one, so a resolved lookup
records whose MAC it holds.

Time is modelled as follows. `time(0)` has one-second resolution, and real time
advances in `TicksPerSec` ticks per second. A waitlist entry stores:

* `age`: `time(0)` now minus the `time(0)` of the request, which is what the code
  compares;
* `real`: the real time elapsed, in ticks.

Both are capped one step past the point where nothing distinguishes them any
more (`AgeCap`, `RealCap`). Time stays unbounded while the state space stays
finite, so liveness can be checked.

The passing run uses two ticks per second. A lookup sent at the start of a
`time(0)` second expires 2 s later. If the sweep just before that found it not
yet expired, the next sweep comes at most one epoll wait later. That gives a
worst case of 3 s less one tick, against the spec's bound of 2 s plus one epoll
wait. With one tick per second `age` equals `real`, and the worst case (2
ticks) is a whole second inside the bound. An expiry one second late would then
still pass, so one tick per second is too coarse for this property.

`waited` counts the ticks since the last `timeout_requests`. `EPOLL_TIMEOUT`
(1000 ms in `poller.h`) is one second of ticks. After a crash the process's
waitlist is no longer aged, since nothing reads it.

### The client in `ArpSystem`

`cpc` is the client's place. It is `idle`, `call` while the requests of a call
are being sent (`cmds`), or `poll` during `request_mac`'s poll loop. In the poll
loop:

* `poll` holds the indices still unresolved;
* `round` holds the indices of the current pass not yet polled;
* `answers` holds what `request_mac` returns.

`MacCmds` is the request sequence `Cmd::request_mac` sends. The index of
`REQUEST_MAC_COMPLETE` is always 0, because `Cmd::request_mac_complete` sets only
`ip` after `bzero`.

### The refinement: `LookupTable`

`ArpSystem` defines `Lookup == INSTANCE LookupTable WITH status <- [i \in DOMAIN
ready |-> ready[i].status], up <- ~crashed`, and `LookupRefinement == Lookup!Spec`
is checked as a property. The mapping keeps only each ready entry's status.
`request_mac_do` is an `Issue` of the indices it writes, a reply or a timeout is a
`Settle`, and an abort is `Halt`. Every other engine step leaves the statuses
unchanged, so it is a stuttering step. The abstract fairness says that a pending
lookup settles while the process runs.

### The example client: `ExampleClient`

`ExampleClient` extends `ArpSystem` with `step`, the next call of `main`.
`Script` is the client's call sequence, and `ScriptStep` starts the next call once
the previous one has returned. `PrepareTuples` keeps the code's defect:
`tuple.tuples` is not cleared, so the second batch holds all four tuples. One host
(`IpX`) sits behind eth0 on (10, 20).

### The way in: `ArpIngress`

A frame is the sequence of 16-bit header words after the two MAC addresses:
outer TPID, outer TCI, inner TPID, inner TCI, ether type and opcode. The ARP
fields between the ether type and the opcode are left out. A frame also has a
byte length. The module runs one frame at a time through these stages:

* `Strip` is the NIC. With offload, it moves an outer tag whose TPID is in
  `StripTpids` into the packet metadata. The kernel reports that TPID only when
  `tpidKnown` holds. Offload and `tpidKnown` are chosen per frame, because they
  depend on the NIC and the kernel.
* `Filter` is `arp_code_bpf`: `vlan_avail`, then `0x8100` at byte 12 and `0x0806`
  at byte 16. A load past the end rejects the frame.
* `Recv` is `Interface::recv`. `recvmsg` copies at most the 50-byte `MSEEArp`
  buffer. With a VLAN aux record, the `memmove` shifts the copy by 4 bytes and
  writes `VLAN_TPID` and the TCI into the gap. `written` is one past the last byte
  written.
* `Classify` is `process_intf`'s `is_valid` check and its dispatch on `get_type`
  (`% 256`, the `uint8_t` result). It also records `get_stag` and `get_ctag`.
* `NextFrame` makes the socket receive the next frame.

### State and actions of `DbSqlOps`

No code in the repository calls the wrapper, and the spec puts it out of
scope. It is modelled here as the library it is: every public function is an
action, and an action includes every helper the function calls
(`db_sql_construct_sql_cmd`, `db_sql_execute_sql_command`,
`db_sql_execute_select_cmd`, `db_sql_finalize` and `db_sql_error_report`).
The variables are:

* `conn`: the handle, one of none, open, unopened (`sqlite3_open` failed),
  closed or crashed;
* `db`: the file, as `SqlTable` describes it (the table, the trigger and the
  rows in rowid order);
* `stmts`: the prepared statements not yet finalized;
* `rc`, `last`: what the last call returned, and which call it was with which
  statement;
* `out`, `output_len`: what the last call wrote to `output_str` and to
  `*output_len`. `NoVal` and 0 mean it wrote nothing.

SQLite is the environment:

* `sqlite3_prepare_v2` fails for a statement the schema does not allow.
* Any `sqlite3_step` may return `SQLITE_BUSY`. In a step loop this can happen
  after any number of rows (`StepLoop`).
* `sqlite3_finalize` returns the error of the last step.

SQL text is abstracted to the statement it denotes. `db_sql_get_attribute`
with a fifth matching row writes past its four `db_output` pointers. That is
undefined behaviour, so the action either crashes the process (`Restart`
follows) or carries on.

`Table == INSTANCE SqlTable WITH call <- last, ok <- (rc = STD_ERR_OK)` is the
refinement mapping. `MC_DbSql.cfg` checks `SqlTableRefinement`
(`Table!Spec`) and `TypeOK`: 20,361 states in under 30 s. The caller's inputs
are these:

* inserts of `(1, v1)` and `(2, v2)`;
* the conditions `key = 1` and none;
* raw statements `SELECT ... WHERE key = 1` and `CREATE`;
* at most 5 rows, one more than `DB_SQL_MAX_RECORDS`.

The project's list of runs is capped at 12 and is full, so this check is not
listed among them. It passes, and two mutants of `db_sql_execute_sql_command`
break it:

* returning `sqlite3_step`'s `SQLITE_DONE` instead of finalize's result
  breaks `SqlTableRefinement`;
* returning a step error before `sqlite3_finalize` breaks `TypeOK`'s bound on
  leaked statements.

### Start-up of the bare-metal responder: `BmConfig`

The variables are these:

* `file`: the contents of `/tmp/arpresponder.conf`;
* `opened`: whether the `ifstream` opened the file;
* `interfaces`: the vector `read_config` fills;
* `added`: the names passed to `add_interface`, in order;
* `pc`: where `main` is.

The actions are these:

* `read_config`: returns -1 (`"exit"`) when the file does not open, and
  otherwise sets `interfaces` from the loop;
* `add_interface`: handles one name of the `for` loop;
* `run`: calls `responder.run()`.

`getline` extracts up to the next newline and drops it. `read_config_loop` is
the `while (std::getline(...)) if (!line.empty()) push_back` loop.

`ConfiguredNamesAdded` compares the names registered when `run` starts with a
reference reading of the spec's "newline-delimited list of interface names".
`Lines` splits at every newline and keeps an unterminated last line.

`MC_BmConfig.cfg` checks every file of up to five characters over `e`, space,
CR and newline: 8,787 states in about a second. The newline is bound from the
MC module because a `.cfg` string has no escapes. A mutant that pushes empty
lines too breaks the property. The run list is full, so this check is not
listed either. The check shows that blank lines, a trailing newline and a
missing final newline are all handled as the spec says. It also shows that a
line of only spaces, or a line ending in CR (a file written on Windows), is
registered as an interface name unchanged: the code strips nothing.

## Runs

| run | module / cfg | expect | what it shows |
|---|---|---|---|
| safety_liveness | `MC_ArpSystem.cfg` | pass (342,384 states, ~100 s) | `TypeOK`; `PollerMatchesInterfaces` (the epoll set is exactly the control socket and the open interfaces); `NotReadyHasPendingLookup` (an index reported not ready has a waitlist entry that will settle it); `TimeoutNotLate` (while the process runs, no lookup has waited more than 2 s plus one epoll wait interval); `RequestMacReturns` (every call returns unless the engine aborted); `LookupRefinement` (the ready table implements `LookupTable`) |
| example_session | `MC_ExampleClient` / `MC_Example.cfg` | pass (291,982 states, ~1 min) | `SessionCompletes`: the example client's session runs to its last call whether or not the host answers |
| ingress | `MC_ArpIngress` / `MC_Ingress.cfg` | pass (232 states) | `TypeOK`; `QinQArpDelivered` (a QinQ ARP frame in `MSEEArp`'s layout reaches `process_intf` as what it is, under its own tags, when the NIC strips the outer tag and the kernel reports its TPID); `OnlyQinQArpDispatched` (no other encapsulation passes `is_valid`) |
| proxy_reply_ip | `MC_ProxyReply.cfg` | violation | a proxy reply claims the address that was asked for, not the configured one |
| reply_stranded | `MC_ReplyStranded.cfg` (queue of 2) | violation | a garbage frame and then the host's reply reach the socket before a wakeup; `process_intf` reads only the first, no later frame arrives, and `timeout_requests` gives the lookup up with its reply still queued |
| premature_not_found | `MC_PrematureNotFound.cfg` | violation | index 1 is reported not found while its lookup, filed under index 0, is still pending |
| stale_found | `MC_StaleFound.cfg` | violation | `request_mac` for `ipA` returns the `ipB` host's MAC left from an earlier call, when the `ipA` request could not be sent |
| abort_on_delete | `MC_Abort.cfg` | violation | a DEL_INTERFACE and a frame on that interface in one epoll batch abort the engine |
| self_reply | `MC_SelfReply.cfg` | violation | a host asks for the address the engine is resolving; the engine's own proxy reply resolves the lookup, to the engine's MAC |
| fd_reuse | `MC_FdReuse.cfg` (names `e1`, `e2`) | violation | `e1` is deleted and `e2` gets its descriptor; a reply on `e2` resolves a lookup sent only on `e1` (depth 48) |
| sibling_timeout | `MC_ExampleClient` / `MC_SiblingTimeout.cfg` | violation | in the example session, index 0 is FOUND for (10, 20) and then set to NOT_FOUND when another waitlist entry of index 0 times out, so `LookupRefinement` fails (depth 68) |
| splice_overflow | `MC_ArpIngress` / `MC_Splice.cfg` | violation | for a padded 60-byte frame the splice writes 54 bytes into the 50-byte packet buffer |

`PROJECT.json` lists each violation under `findings`, with the line it comes
from. Every property of a passing run has a mutant in `PROJECT.json`, and TLC
finds each one violated:

* `add_interface` without the name check breaks `TypeOK`;
* `del_interface` without `poller->del_fd` breaks `PollerMatchesInterfaces`;
* `request_mac_do` writing `ready` before its `continue`s breaks
  `NotReadyHasPendingLookup`;
* a poll loop that does not start a new pass breaks `RequestMacReturns`;
* a reply that does not erase its waitlist entry breaks `LookupRefinement`;
* the off-by-one expiry test `requested_time + REPLY_TIMEOUT >= time(0)` (a
  lookup expires one `time(0)` second later) breaks `TimeoutNotLate`;
* `request_mac_poll` returning early for an unknown index without a response
  breaks `SessionCompletes`;
* `recvmsg` returning the frame's length (as with `MSG_TRUNC`) breaks the
  ingress `TypeOK`, and so does the next item;
* a filter testing `0x88a8` at byte 12 (the tag as on the wire) breaks
  `QinQArpDelivered`;
* `is_valid` without its outer-TPID check breaks `OnlyQinQArpDispatched`.

**Constants.** The `MC_ArpSystem` runs use:

* the interface names `e1`, which resolves, and `bad`, which does not (fd_reuse
  adds a second valid name, `e2`);
* the descriptors `{4, 5}` and control descriptor 3;
* one segment (stag 10, ctag 20) with one host whose address is `ipB`;
* `add_ip` on the segment with `ipA`, plus an `add_ip` with stag 0, which is out
  of range;
* `request_mac` for `ipB` under index 0 or index 1. safety_liveness uses index
  0 only (`MC_OneIndexArgs`): `Cmd` never sends any other, and the
  premature_not_found run shows what index 1 comes to;
* two ticks per second in safety_liveness and one in the violation runs, where
  nothing depends on the last second.

The example runs use the client's own names, tags and addresses, with one
descriptor. The ingress run enumerates these frames, each 50 bytes (unpadded)
and 60 bytes (the Ethernet minimum):

* the two `MSEEArp` frames;
* a QinQ request with priority bits in the outer TCI;
* one with opcode 0x0101;
* 802.1Q in 802.1Q;
* QinQ IPv4;
* a single 802.1Q tag;
* no tag.

**Why the bounds are enough.**

* Two descriptors and one valid name let an interface be deleted and re-added on
  a different descriptor. Two valid names make the reused descriptor belong to
  another interface.
* One segment and one host are enough for every branch of `process_intf`.
* Two indices reach the index-0 defect. `Cmd` files every batch under index 0
  anyway, so the engine sees the same requests with either index. A second
  index changes only which entry the client polls, and premature_not_found
  checks that. safety_liveness therefore keeps one index, which also keeps it
  well inside its time limit. The example's two batches reach two
  waitlist entries under one index.
* One tick per second already reaches every age the code compares, because ages
  are capped at `REPLY_TIMEOUT + 1`, and `waited` has its full range 0..1.
* A queue bound of 1 keeps the passing runs small. `reply_stranded` uses 2, the
  least at which a frame can queue behind another.
* Each ingress frame differs from an `MSEEArp` frame in one header word or in its
  length, so each check of the filter and of `is_valid` decides some frame.

**Fairness.**

* The engine loop is `while (true)` and `epoll_wait` returns at least every
  second, so `EngineNext` is weakly fair.
* Time passes, so `Tick` is weakly fair.
* The thrift thread runs a call to its end, so the client's send, receive and
  poll steps are weakly fair.
* The example client's `main` makes its calls in sequence, so `ScriptStep` is
  weakly fair too.
* Hosts owe nothing. Asking, answering, announcing and garbage frames have no
  fairness, so `RequestMacReturns` and `SessionCompletes` hold even when no host
  ever replies: the timeout settles the lookup.

**Found by analysis, without a run.**

* **Early timeout.** `timeout_requests` compares whole seconds of `time(0)`.
  A lookup sent late in a second therefore expires after a little more than one
  real second, where the spec says no earlier than 2 seconds. With two ticks per
  second the passing run reaches expiries at `real = REPLY_TIMEOUT *
  TicksPerSec - 1`. No listed run states the lower bound, because the run list
  is full.
* **Opcode truncation.** `get_type` returns `ntohs(ar_op)` as `uint8_t`, so
  opcode 0x0101 is dispatched as a request (`get_type` is `% 256` in
  `ArpIngress`).
* **Priority bits.** `get_stag` and `get_ctag` return the whole TCI, so a request
  whose tag carries priority bits is looked up under a value above 4095. No
  `add_ip` can configure such a value.
* **Old kernels.** When the kernel does not report the stripped TPID,
  `VLAN_TPID` substitutes 0x8100 and `is_valid` rejects every QinQ frame. The
  responder therefore needs a NIC that strips 802.1ad tags and a kernel that
  reports `tp_vlan_tpid`.
* **The filter differs from the spec.** The spec says the filter accepts a frame
  with offload *or* with 0x8100 at byte 12 and 0x0806 at byte 16. The code
  requires offload *and* those two words. No frame that `is_valid` accepts tells
  the two apart.
* **`strncpy` in `Cmd`.** With `IFNAMSIZ`, `strncpy` leaves a 16-character name
  without its NUL. The request is zeroed first, so the string ends inside the
  request, and `if_nametoindex` rejects names of `IFNAMSIZ` characters or more.
  `add_interface` answers "invalid interface" and nothing else follows.

* **`db_sql_ops.c`**, all in `DbSqlOps`:
  * `db_sql_get_attribute` overflows its `db_output` array on the fifth
    matching row (`db_sql_ops.c:495`).
  * `db_sql_execute_sql_command` returns `DB_ERR_UNSUPP_OP_TYPE` without
    finalizing the statement it prepared (`:463`). Every later `db_sql_close`
    then returns `SQLITE_BUSY`.
  * `db_sql_raw_sql_execute` reports only the last row's length in
    `*output_len` and leaves it unset when there is no row (`:548`). Its
    `memcpy` has no bound.
  * `DB_ERR_UNSUPP_OP_TYPE` (4) is also `SQLITE_ABORT`, so a caller cannot tell
    the two apart.
  * `db_sql_close` passes the handle it has just closed to `sqlite3_errmsg`
    for its log line.

### Found by analysis, not by a run

* On `REQUEST_MAC_NOT_FOUND`, `Cmd::request_mac_poll` leaves `iface`, `stag`
  and `ctag` of the response unset. The thrift handler
  (`arpresponder_msee_main.cc:98-107`) copies them back to the caller
  uninitialised.
* The reply timeout uses `time(0)` (`arpresponder_msee.cc:235, 277`). That is
  the wall clock, so a step of the clock delays or advances every pending
  timeout. The models count time monotonically, as the code intends.
* `arpresponder_bm` registers whitespace-only lines and CR-terminated names as
  interfaces (`BmConfig` above).

## Not modelled

* **Bare-metal responder, beyond start-up.** The repository holds only
  `read_config` and `main` of `arpresponder_bm`, and `BmConfig` models both.
  The `ARPResponder` class its header declares (`add_interface`, `run`,
  `process`) has no implementation here. Its calls are therefore steps with no
  effect beyond their order, and `RawArp` has no caller to model.
* **ARP body.** Addresses and MACs inside the ARP body are fields of frame
  records in `ArpResponder`. `ArpIngress` keeps only the header words that the
  filter, `is_valid` and `get_type` read. `Arp::dump` is logging.
* **Thrift serialisation.** The handler's copy between thrift and `Cmd` structures
  is a field-by-field conversion and is not modelled.
* **libcswsscommon.** It only forwards calls to swss-common.
* **SQLite itself.** `DbSqlOps` treats SQLite as an environment that may fail
  at each call. The wrapper's SQL strings, `snprintf` and logging
  (`db_sql_opcode_to_string`) are abstracted to the statement they build.
* **`fmt.cc`, `log.h` and `eintr.h`.** These are formatting, syslog output and an
  EINTR retry loop.
* **Errors that throw.** Exceptions from `epoll_ctl`, `socket` and `bind` are
  not modelled. Only the throw in `process_intf` is, because a protocol sequence
  reaches it.
* **`recvmsg` and ENETDOWN.** A `recvmsg` that fails with ENETDOWN is not
  modelled on the ingress path. The engine model takes a send outcome of
  ENETDOWN per pair.

## Plan

1. **Ingress into the engine.** Compose `ArpIngress`'s verdicts with
   `ArpResponder`'s `handle_frame`, so that priority-tagged frames reach the
   proxy table.
2. **Larger instances.** Use two segments and two hosts in the passing run.
