# TLA+ models of the Laplace engine: networking, event ordering, binary format, command text, grid algorithms

This directory holds TLA+ models of the parts of Laplace (`src/source/laplace`)
where correctness depends on interleavings, unreliable delivery and ordering.
TLC checks them.

## The system

Laplace is a game engine with an authoritative server. Its parts, and how they
interact:

| Part | Source | Role |
|---|---|---|
| Host | `engine/e_host.cpp` | The server. It keeps one slot per client endpoint, admits the client's numbered commands through a per-slot sparse queue, handles connection-management commands, logs every other command with the next log position as its order, and broadcasts the log. |
| UDP node | `network/n_udp_node.cpp` | Datagram I/O. `receive_to` drains the socket into one buffer and remembers the last sender. |
| Remote | `engine/remote.h` (header only) | The client side: numbers commands, resends on `request_events`. |
| Cipher session | `network/crypto/*` | Per-slot key exchange (`public_key`) and stream encryption of chunks. |
| Factory | `engine/e_basic_factory.cpp` | Decodes commands by id, and reads and prints the debug text form of commands (`parse`, `print`, `parse_multi`, `print_multi`). |
| Session response | `engine/protocol/session_response.h` | A command carrying a port and a key; the only protocol header in the repository. Nothing under `src/` sends or handles it. |
| Event order | `engine/eventorder.h`, `eventorder.impl.h` | The tree position of an event (root = log position, children spawned from a counter). The solver sorts events by it. |
| Entity | `engine/basic_entity.h` | State rows with staged deltas, committed per tick. |
| Binary format | `format/f_binary.cpp` | Encoding of packs. |
| Grid evaluation | `engine/eval/ee_grid.cpp` | Line tracing, neighbours, nearest cell, convolution for path maps. |
| Quadwar | `apps/quadwar/*` | The game: session allow-list, root object, loading. |
| TCP joint, UI, graphics | `network/n_tcp_joint.cpp`, `ui/*`, `graphics/*` | Connection helper and rendering. |

One `host::tick` has three steps:

1. `receive_events` = `receive_chunks` (loop over `receive_to`) then `process_buffers` (allow-list, `add_event`).
2. `process_slots` = `perform_queue` on every slot, then `clean_slots`.
3. `send_events` = broadcast the log from `m_queue.index`, then `send_chunks` (one chunk per slot).

Clients send commands over UDP, and the network loses, duplicates and reorders
datagrams.

## Modules

### `Host.tla`: the host, the receive loop and the clients

State, corresponding to `host`:

- `slots` is `m_slots`. Each slot has an address, an actor, an inbound buffer, a queue baseline `qindex`, sparse queue `qevents`, outgoing `chunks`, the cipher's `ready` flag, the `encrypt` flag of `send_chunks`, and a ghost `done` (the indices it performed).
- `log` is `m_queue.events`.
- `sent` is `m_queue.index`.
- `state` is the server state.
- `nextActor` is the world's next reserved id.
- `phase` is the step of the tick the host is in.

The environment is:

- `net`: datagrams in flight, as a set. Receiving may keep a datagram, which models duplication. Reordering is free.
- `cmds`: what each client sent.
- `asked`: the indices the host asked each client to resend.

A frame is abstracted to its command kind, its index and a ghost `from` field
naming its real sender. Bytes and encodings are left out. A `public_key` frame
also says whether its key is usable. `BadKey` is the name of a `public_key`
whose key the `dh_rabbit` cipher rejects.

The model's clients send every command, `public_key` included, at their next
order index. The comment at `e_host.cpp:305-306` says `public_key`,
`request_events` and `client_ping` come without an index (-1), and `AddEvent`
has that branch: it performs the command at once. The branch is never driven
by the model's clients, and the remote that would send those commands is not
in the repository. Performing `public_key` in order rather than at once still
runs the same handler, `PublicKey`. A separate unordered client action
multiplied `host_queue`'s states by more than 6 and was left out.

Actions:

| Action | Code |
|---|---|
| `ReceiveChunk` | `receive_chunks`, with `ReceiveTo` = `udp_node::receive_to`. One call concatenates up to `RecvBatch` datagrams and reports the last sender. |
| `ProcessBuffers` | `process_buffers` (allow-list `IsAllowed`, `AddEvent`) |
| `ProcessSlots` | `process_slots` (`PerformQueue` on every slot, then `CleanSlots`) |
| `SendEvents` | `send_events`, with `send_chunks` sending at most `ChunkFrames` frames per slot. A chunk is encrypted when the slot's `encrypt` flag is set. A plain chunk sets the flag to `is_ready()`. Each chunk may be lost. |
| `Queue(k)` | `host::queue`, a command of the application |
| `ClientSend`, `ClientResend`, `Lose` | The clients (from the spec) and the network |

`PerformControl` is `perform_control` as a CASE over the command kinds, in the
code's order. Its `public_key` arm is `PublicKey`. It queues the host's key as
a reply, clears `encrypt`, then sets the remote key. `RemoteKeyReady` is
`basic_cipher::set_remote_key`: the cipher becomes ready exactly when the key
is usable. `PerformEvent` is `perform_event`: control first, otherwise the
command is stamped with the slot's actor and the log position, then appended.
`Listen` is `host::listen`, which logs the server clock and seed, and gives
the initial state.

For liveness, `Performed(c, k)` says that the slot of client `c` has passed
index `k`. `HeldAbove(c, k)` says that such a slot is still below `k`
but holds a command above it, which is a gap. `GapFilled` says that a gap
under a joined client is always filled. `GapFilledNewSlot` drops the word
"joined".

### `ClientLog.tla`: what the host promises a client

`ClientLog` is the abstract specification of the host: the client entries of
the log only grow, and each client's commands are taken at most once, in
increasing index order, and only after the client sent them. `Send(c)` appends
to what the client sent. `Take` appends any such entries to the log in one
step. `Host.tla` instantiates it as `CL` with the refinement mapping:

- `sent` is `cmds`, what each client sent;
- `clog` is `ClientEntries`, the log entries whose source is a client, as `[c, k]`;
- `Kinds` is every command a client may send.

`RefinesClientLog == CL!Spec` is checked as a property of the host. The promise is checked for a client that joins once and stays. `clean_slots` forgets a departed client's baseline, so a late duplicate after `client_leave` is performed again; `SingleJoin` and `host_rejoin` record that separately.

### `Root.tla`: the quadwar root's player list

`Root` models the slot half of `apps/quadwar/object/aqo_root.cpp` as pure
operators over a record of the root entity: the sorted slot list, and the
`state_version` and `root_slot_count` rows.

- `RootInit` is the prototype: no slots and both rows at 0.
- `DoSlotCreate` inserts the actor at its `LowerBound`. An actor that is already present is inserted again, as `lower_bound` + `emplace` does.
- `DoSlotRemove` erases one occurrence, and only if the element at the lower bound is that actor.
- Both operators bump the version and store the list's size.
- `SlotCreate` and `SlotRemove` are `root::slot_create` and `root::slot_remove`. They refuse `id_undefined`, and otherwise run the `do_` operator. That operator is atomic because `modify` holds the entity lock.

`Perform` and `RootOf` are the world performing the log in order. They are modelled from the spec, because the `slot_create` and `slot_remove` protocol classes are not in the repository. `Host` instantiates `Root` as `RT` and checks `RootTracksSlots`: after the log is performed, the root's list holds exactly the actors of the host's joined slots, each once.

### `Factory.tla`: the text form of commands

`ParseNative` and `PrintNative` translate `parse_native` and `print_native`.
`ParseCommand` and `PrintCommand` apply them to the native table, as
`basic_factory::parse` and `::print` do. `Split` and `ParseMulti` translate
`parse_multi`. `PrintMulti` translates `print_multi`.

The text is a sequence of lexemes:

- an identifier (what `" %a "` reads);
- a hexadecimal number of any size (what `" %X "` reads);
- a line feed;
- anything else.

Blanks only separate lexemes. The parser (`core/parser`) is not in the
repository. The abstraction treats a name such as `debug` as an identifier and
never as the hex digits it begins with. The state is the debug console's:

- `text` is the text being typed or printed;
- `cmds` are the byte sequences parsed from it, or loaded to be printed.

The actions are:

- `Type` (the user types a lexeme);
- `Load` (a sequence from the log is queued);
- `DoParseMulti`;
- `DoPrintMulti`.

`TruncKey`, `EncodeResponse`, `ScanResponse`, `GetPort`, `GetKey` and
`DecodeResponse` translate `protocol/session_response.h`:

- the constructor, which keeps at most `max_key_size` key bytes;
- `encode_to`;
- `scan`;
- `get_port` and `get_key`;
- `decode`.

They are the only protocol header in the repository. They are checked on
whatever commands the console holds.

`decode_native` is not modelled. It is a chain of `scan`/`make` calls whose
other protocol headers are not in the repository.

### `EventOrder.tla`: eventorder

`RootOrder`, `SpawnOrder` and `Less` translate the constructor, the spawning
constructor and `operator<`. The variable `events` is a tree of
events grown by two actions:

- `AddRoot`: the host logs an event with its log position.
- `Spawn`: an event spawns a child from its counter, as `qw_loading::perform` does.

### `BinaryFormat.tla`: the binary pack format

`Pack` and `Unpack` turn a value into the pack the format stores, with string
keys of composites replaced by their index in the key table. `Writedown` is
`binary::writedown`, with one branch per value kind and fixed-width
little-endian integers from `LE`. `ReadPack` and `ReadContainer` are the
decoder. As in `read_pack`, the boolean ids fall through to `value = family {}`, so a boolean reads back as the empty value. The state machine runs one value through three steps:
`DoEncode` → `DoDecode` → `DoUnpack`. Values are records over small scalars
(integers -1, 0 and 300, an unsigned 70000, short strings and byte strings).

### `Grid.tla`: the grid algorithms

`ee_grid.cpp` translates into these operators:

- `TraceLine`, `WalkX` and `WalkY` are `trace_line`, with the sight callback of `path_search_init` (`Visit`).
- `Neighbors4` and `Neighbors8` are the neighbour functions.
- `Stamped` and `Convolve` are `convolve`.
- `Nearest`, `RingPoints`, `DoPoint` and `Rings` are `nearest`, with the condition "walkable" (`maze.h`: 0 walkable, 1 wall).
- `Merge` and `MergeAt` are the two `merge` overloads: cell by cell, and a rectangle placed at an offset. `SpanSize` stands for their size checks, and `RowMajor` for their loop order. `merge_op` comes only from callers, and none is under `src/`, so it is `max` or `min` (`MergeOp`).

The state is one input chosen in `Init`: a map, a footprint and a position.
`DoConvolve`, `FindNearest` and `DoMerge` apply the algorithms to it, in that
order. `DoMerge` merges the map into a copy of the configuration space, then
places the footprint into it at an offset from `Offsets`. Offsets whose
writes would fall outside the destination are out-of-bounds writes the code
does not guard, so `InSpan` leaves them out.

### MC modules

`MCHost.tla`, `MCEventOrder.tla`, `MCBinaryFormat.tla`, `MCGrid.tla` and `MCFactory.tla` give the constants values:

- client model values `c1` and `c2`;
- the client scripts;
- the quadwar allow-list of `apps/quadwar/session.h`;
- the state constraints;
- the format's type ids, key table and input values;
- the grid's footprints, positions and merge offsets;
- three names of the command table, a name outside it, numbers on both sides of 0xff, and byte sequences that are too short, valid, or carry an id beyond the table.

## Runs

| Run | Cfg | Expect | What it shows |
|---|---|---|---|
| `host_queue` | `MCHost.cfg` | pass | `QueueConsistent` holds. The commands a slot performed are exactly its indices 0..qindex-1, once each and in order, and every queued command sits at its own offset. This holds under loss, duplication, reordering, concatenation and gap requests. `EncryptOnlyReady` holds: whatever sequence of usable and rejected `public_key`s a client sends, a slot never encrypts with a cipher that is not ready. A rekey clears `encrypt` before it replaces the key. `RootTracksSlots` holds: after the log is performed on the quadwar root, the root lists exactly the actors of the joined slots, through joins, leaves in prepare and leaves in action. `RunStateFromHost` also holds: a client that injects `server_pause` never changes the run state, because the quadwar allow-list drops it. Only `host::queue` changes it. |
| `host_gapfill` | `MCHostGapFill.cfg` | pass | `GapFilledOnFairNetwork` holds under the fairness below. A joined client's command that sits above a gap is eventually performed: the host asks again on every tick, and the client resends. `RefinesClientLog` also holds for the run's client, which joins once and never leaves: the host implements `ClientLog` for it. This is a stated precondition, not a general claim. A client that leaves and has a late duplicate arrive is performed again (the `host_rejoin` run), and that behaviour is not a `ClientLog` behaviour. |
| `host_misattribution` | `MCHostMisattribution.cfg` | violation | `AttributedToSender` fails. One `receive_to` reads c1's and c2's datagrams together, and c1's `client_enter` is performed as c2's. |
| `host_newslot` | `MCHostNewSlot.cfg` | violation | `GapFilledNewSlot` fails. The client's `client_enter` is lost and its `debug` arrives. `perform_queue` queues a `request_events` for index 0 on the new slot. `clean_slots` then prunes the slot, which has no actor, before `send_events`. The request is never sent, so the gap is never filled, however fair the network. |
| `host_rejoin` | `MCHostRejoin.cfg` | violation | `SingleJoin` fails. After `client_leave` the slot is pruned with its baseline. A duplicate `client_enter` then creates the same client again. |
| `eventorder_tree` | `MCEventOrder.cfg` | pass | `SpawnRefines` holds. Below max depth, an event sorts strictly before its subtree and before its later siblings. |
| `eventorder_asymmetry` | `MCEventOrderAsymmetric.cfg` | violation | `operator<` is not asymmetric: `<<1>>` and `<<0,0>>` are each less than the other. |
| `binary_roundtrip` | `MCBinaryFormat.cfg` | pass | `RoundTrip` holds. Scalars and vectors of scalars, nested once, decode to what was encoded. Booleans do not, and are in the mismatch run. |
| `binary_mismatch` | `MCBinaryFormatMismatched.cfg` | violation | `RoundTrip` fails for the families on which the writer and the reader disagree. TLC reports one of them; each has a finding in `PROJECT.json`. They are: <ul><li>a single boolean, which `read_pack` sets and then overwrites with `family {}` (it falls through to the empty id's branch), so it decodes as the empty value;</li><li>a vector of booleans, written with a uint64 byte count and read with a uint16 bit count;</li><li>a string-keyed composite, tagged `compact_composite`;</li><li>a uint-keyed composite, whose 8-byte keys the reader never skips;</li><li>the empty vector and composite, which decode as the empty value.</li></ul> |
| `grid_algorithms` | `MCGrid.cfg` | pass | On every 3x3 map, `trace_line` draws a digital line (within half a cell), `convolve` marks exactly the dilation of the walls by the footprint, and the neighbour functions link only touching, available cells, never wrapping a row. `MergeIsPlacement`: the two `merge` overloads, applied in turn, leave every cell as `merge_op` of the copy and the map, and then, inside the footprint's rectangle, `merge_op` with the footprint's cell at the same relative place. This is checked for every offset that fits. |
| `grid_nearest` | `MCGridNearest.cfg` | violation | With walls at (2,1) and (2,2), `nearest((2,2))` returns (1,1) at squared distance 2, not (1,2) at distance 1. The ring sides that lie on a clamped border are never scanned. |
| `factory_text` | `MCFactory.cfg` | pass | `RoundTrip` holds: `print_multi` then `parse_multi` gives one command per sequence, in order, each sequence the table can name unchanged and every other one empty. `TypedAsShown` holds: when the commands are those `parse_multi` read from the text, every command it did not reject prints back to exactly the line it came from. A typed number above 0xff rejects the line rather than being stored as its low byte. `ResponseReencodes`: any command that scans as a `session_response` decodes to a port and key whose encoding gives back the command, cut after `max_key_size` key bytes. |

Each property of a passing run has a mutant in `PROJECT.json`, a plausible bug
that TLC must catch:

- `Reserve` without advancing the id;
- `PerformQueue` without advancing the baseline (this breaks the queue invariant and the refinement);
- `PerformQueue` without its `request_events` (this breaks gap-fill liveness);
- the allow-list accepting everything;
- spawn without the depth check;
- spawn without the counter increment;
- `WriteUint` written as a signed integer;
- `Clamp` without the upper bound;
- `trace_line` without the error-term reset;
- `convolve` clipping one column wide;
- `neighbors8` without the right-border check;
- `parse_native` without the 0xff check, storing the number's low byte as `static_cast<uint8_t>` would (this breaks `TypedAsShown`);
- `parse_multi` keeping the line feed in each line;
- `get_key` reading from `n_port` rather than `n_key`;
- the `public_key` handler without `encrypt = false`;
- the offset `merge` striding the destination by the source's width;
- `do_slot_remove` searching with `upper_bound` instead of `lower_bound` (this breaks `RootTracksSlots`). Releasing the actor before `client_leave` logs `slot_remove` breaks it too.

Two further disagreements were found while modelling, but are not kept as runs:

- `operator<` also differs from the compare rule of the spec (`<<0,0>>` is less than `<<1>>`), and the spec contradicts itself on whether shorter orders sort first or last.
- A spawn past max depth gives distinct events the same empty order.
- `ReplyInClear` (in `Host.tla`) fails under `MCHost.cfg`, even with a single key. The client's `client_enter` and `debug` are broadcast to its slot. Then its `public_key` arrives, and the reply is queued behind those two frames. `send_chunks` sends the first chunk plain, and that sets `encrypt` to `is_ready()`, which is now true. The reply leaves in the next chunk, encrypted, so the client cannot read the host's key. To reproduce it, add `INVARIANT ReplyInClear` to `MCHost.cfg`.
- `RootTracksSlots` fails when a client sends `slot_create` itself. To reproduce it, set `Inject = {"slot_create"}` in `MCHost.cfg`. The quadwar allow-list admits the command, and `perform_control` does not consume it. The host logs it stamped with the client's actor. `do_slot_create` keeps duplicates, so the root lists that player twice. A later `client_leave` removes only one copy. This is listed as a hazard.

`parse_multi` emits a command only at a line feed. A last line typed without
one is dropped silently. The spec says only "one command per line", so the
model keeps the code's reading. This is listed as a hazard.

## Bounds

- **Host, queue run.** One client runs the script enter, debug, leave, with:
  - `RecvBatch = 2`, so a receive can concatenate two datagrams;
  - `MaxReceives = 2` receives per tick;
  - chunks of 2 frames;
  - `request_events` of at most 2 indices;
  - at most 3 datagrams in flight;
  - a log of at most 7 entries;
  - injected `server_pause`, `public_key` (a usable key) and `BadKey` (a rejected key) at any index.

  This is enough for gaps, duplicates below and above the baseline, and a lost request with its re-request on the next tick. It also covers a key, a rekey with a rejected key after an encrypted chunk, and a reply queued behind a full chunk. The run has 985,156 states.
- **Host, gap-fill run.** One client runs enter, debug, debug, with one receive of one datagram per tick, and no state constraint. The state space is finite (778 states) because `net` is a set and the script is short. A gap opens under the second `debug` when the first is lost, so the request, its loss and the resend all occur. Two clients exhaust the memory of a liveness check. The refinement alone passes with two clients (10,604 states), but this run is kept at one.
- **New-slot run.** It uses the same bounds. Losing `client_enter` is enough.
- **Misattribution run.** It needs two clients and `RecvBatch = 2`.
- **Rejoin run.** It needs the leave and a kept duplicate.
- **EventOrder pass run.** `MaxDepth = 3` (16 in the code), roots 0 and 1, and up to 6 events with 2 children each. Trees reach the max depth and collapse within the bound. The depth is scaled down: the code's behaviour at depth 16 is the same as at 3.

- **Binary format.** Integers around the one-byte and two-byte limits, strings and byte strings of length 0 to 2, and vectors of length up to 3, one of them nested. This covers every branch of `writedown` for these kinds, as well as the empty container.
- **Grid.** A 3x3 map, with all 512 wall layouts, 5 footprints, and 10 positions (one of them beyond the right border). Every cell is either on a border or a corner, or is the centre, so each border branch of the three algorithms is taken. `merge` runs at offsets (0,0), (1,1), (2,0) and (0,2), with `max` and `min`. The offset (2,0) makes a two-wide footprint wrap into the next row, which the code accepts. (0,2) overruns the map with a tall footprint, so `InSpan` drops it. The map never changes, so `TraceIsLine` and `NeighborsAdjacent` are checked in the first step only. The run has 250,880 states.

- **Factory.** The table is `public_key`, `debug` and `session_response`. Texts have up to 4 lexemes, drawn from 8: a line feed, junk, two table names, one unknown name, and the numbers 0, 255 and 256. Up to 2 sequences are loaded, out of 5; one of them is a `session_response` with a key longer than `max_key_size`, which is scaled down to 1. This covers every error path of `parse_native`, the unterminated last line, empty lines, and a truncated key. It gives 156,388 states.

## Fairness

`FairSpec` in `Host.tla` adds:

- weak fairness on `ProcessBuffers`, `ProcessSlots` and `SendEvents`, because the application calls `host::tick` every frame and each step of a tick is always taken;
- strong fairness on receiving each datagram (`ReceiveOf(d)`), because `receive_to` drains the socket on every tick;
- strong fairness on a `SendEvents` that delivers a `request_events` (`DeliverRequest`), for a chunk sent on every tick;
- weak fairness on `ClientResend(c)`, because the remote answers each request.

The network may lose every resend before it is received. Fairness on the
receive alone therefore does not exclude a network that never delivers.
`NetworkFair` says that a datagram resent infinitely often is received
infinitely often. `GapFilledOnFairNetwork` takes it as an antecedent
(`NetworkFair => GapFilled`), rather than as a fairness condition the
code cannot guarantee.

## Deadlock

Host never stops: the host can always tick. EventOrder stops when the event
bound is reached. BinaryFormat and Grid stop when their single input is done, so their runs set `CHECK_DEADLOCK FALSE`. The tree
generator has no other way to stop. Factory never stops: `parse_multi` and
`print_multi` can always run again.

## Not modelled yet, and the plan

1. The cipher's own arithmetic. Host models what the cipher does to the protocol: its `ready` flag and the `encrypt` switch. `dh_rabbit`, the only cipher a slot uses, is not in the repository, so whether a key is usable is the client's choice in the model. The key exchange and the Rabbit stream are data, not control. A failed `encrypt` (which clears the slot's outgoing buffer) and a failed `decrypt` (which drops the datagram) depend on `dh_rabbit` and are not modelled. The model's encryption never fails.
2. Game commands performed after `client_leave` in the same queue run, which are logged with the undefined actor. For `slot_create` and `slot_remove`, `Root` models how the root refuses that id. For other commands, nothing in the repository says what the solver does with them.
3. `decode_native` of the factory: the `scan` functions it chains are in protocol headers that are not in the repository, except `session_response.h`, which is modelled.
4. Grid `path_exists` and `path_search_*`. They drive `astar.impl.h`, which is not under `src/`. Their `diagonal` and `euclidean` heuristics call `sqrt` and `sqrt2` of `integral.h`, which is not under `src/` either.
5. Entity rows. `basic_entity.h` only declares the class, and its implementation is nowhere in the repository, so there is no code to translate.
6. The rest of the quadwar root object:
   - the unit list, which only `unit_place` fills, and that class is not in the repository;
   - launch, and the `loading` and `status_changed` version bumps, which use `apply_delta` and `adjust` of entity rows that are only declared;
   - `qw_loading::perform`, whose children are not in the repository either.
7. The TCP joint's state machine (`n_tcp_joint.cpp`). Nothing in the repository uses it.

These are left out for good: graphics, UI, platform and math, which have no
state TLC could usefully explore.
