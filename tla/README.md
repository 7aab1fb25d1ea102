# TLA+ models of the OpenTitan provisioning SPM

This directory holds TLA+ models of the Secure Provisioning Module (SPM) HSM
back end (`src/unnamed/part_002`, file `hsm.go`) and of the proxy buffer's
`RegisterDevice` service (`src/src/proxy_buffer/services/proxybuffer.go`),
TLC configurations that check them, and TLAPS proofs.

## The system and its parts

| Part | Code (`src/unnamed/part_002`) | Module | Status |
|---|---|---|---|
| Session pool: `sessionQueue`, `insert`, `getHandle`, the `release` closure, `ExecuteCmd` | 27-71, 202-209 | `SessionQueue`, refining `SessionPool`; `ReleaseHandle` | modelled |
| Crypto operations: the six methods of `HSM` | 211-415, 468-521 | `SPM` | modelled |
| Key registry and construction: `openSessions`, `getKeyIDByLabel`, `NewHSM` | 114-200 | `NewHSM` (its ready state is `SPM`'s and `SessionQueue`'s Init) | modelled |
| Certificate assembler: the OID and hash switches, DER assembly | 417-521 | `SPM` | partly |
| Proxy buffer `RegisterDevice` | `proxybuffer.go` 21-61 | `ProxyBuffer` | modelled |
| proto and Bazel files (`part_001`, tail of `part_002`), deploy script and ATE test (`part_000`) | | none | not modelled: no service behaviour |

How they interact:
- `NewHSM` opens `NumSessions` logged-in PKCS#11 sessions and puts them into a
  buffered Go channel. It then fills the label → UID registry (`SymmetricKeys`,
  `PrivateKeys`). After that the registry is read-only.
- Each RPC runs on its own goroutine. Every operation starts with
  `session, release := h.sessions.getHandle(); defer release()`.
- The operation then looks up key labels in the registry and issues HSM calls
  on its session. Any of those calls may fail, and each failure returns early
  with its own status code.
- The session pool is the only shared mutable state. It provides both
  capacity control and mutual exclusion on sessions.

Behaviours that are hard to test and that the models explore:
- Goroutines interleaving receives and sends on the channel.
- `insert`, which checks capacity and sends in two separate steps, and whose
  error `release` ignores.
- The FIFO hand-off of a released session to a blocked receiver.
- The dozens of early returns, each of which must release its session.
- Key pairs left on the HSM when an operation fails partway.
- A `release` closure called twice.
- The agreement of the hash switch with the OID switch.

## Modules

### `SessionQueue`

Models the channel with the Go runtime's semantics:
- `buf` is the buffer, a FIFO of sessions.
- `recvq` is the FIFO of goroutines blocked in `<-q.s`.
- `pc` and `sess` give each goroutine's position and the session it holds.

Actions:
- `Receive` and `Block` are the two outcomes of `getHandle` (line 66).
- `Cmd` is the operation's HSM calls.
- `Insert` is the capacity check (line 50). Its error branch drops the
  session, as `release` does.
- `SendHandoff` and `SendBuffer` are the two outcomes of `q.s <- s` (line 53).

`Init` is the state after a successful `openSessions`: every session is queued
once. Sessions and goroutines are model values given as CONSTANTS.

### `SessionPool` and the refinement

`SessionPool` is what the pool promises (spec §4.1) without the channel:
`owner[w]` is the session goroutine `w` holds. `Acquire` takes any session
nobody holds, and `Release` gives it back. `SessionQueue` defines the refinement mapping `poolOwner`: a
goroutine owns its session while it runs its command or its `insert`. Then
`Pool == INSTANCE SessionPool WITH owner <- poolOwner`. `Receive` and
`SendHandoff` are `Acquire` steps. `Insert` is a `Release` step. `Block`,
`Cmd` and `SendBuffer` are stutters.

### `ReleaseHandle`

Extends `SessionQueue` with `handle[w]`, the session that the `release`
closure of `w`'s last `getHandle` captured (lines 65-71). `Receive` and
`SendHandoff` set it. `ReleaseAgain` is a second call of the closure: it
runs `q.insert(s)` once more on the captured session, with the same
capacity check and send steps. This is spec §8 property 2's question, and
nothing in the code forbids the call.

### `NewHSM`

Models `openSessions` and `NewHSM` (lines 114-200) on one goroutine.
- `cfg` is the configuration and what the HSM reports: slot, number of
  tokens, `NumSessions`, and the symmetric and private labels. `Init` takes
  any of the small configurations.
- `phase` is the step NewHSM is at, and `i` is the loop counter.
- `sess` holds each session's state (none/open/loggedin) and `queued` is
  `len(q.s)`.
- `symLeft`, `privLeft` and `reg` track the two registry loops.

Actions:
- `LoadTokens` covers lines 118-128. `Load` or `Tokens` fails, or the slot
  check fails.
- `OpenSession`, `Login` and `InsertSession` cover the loop, lines 131-146.
  A negative slot makes `toks[tokSlot]` panic.
- `GetHandle` is line 178. It is enabled only when the channel holds a
  session, so with `NumSessions = 0` NewHSM stops there.
- `Resolve` covers one label of the two loops, lines 181-197, with
  `getKeyIDByLabel`'s failures. On an error, the deferred `release` puts the
  session back.
- `Ready` is the return at line 199.

Every error return goes to `"error"` and leaves the sessions as they are,
because the code closes none of them.

### `ProxyBuffer`

Models `RegisterDevice` served to concurrent clients over gRPC.
- `rec[c]` is the record client `c` registers, and `valid` is the
  validator's verdict on it.
- `pending` holds the calls not yet handled, `got` is what each client
  received (gRPC code and response status), and `db` is the buffer.

Actions:
- `Send` is a client's call.
- `RegisterDevice` is the whole handler, one step: its only shared access
  is the single `InsertDevice` call. An invalid request is answered
  `InvalidArgument` (line 50). Otherwise the outcome of `InsertDevice`
  decides: `Internal` on an error (line 56), SUCCESS otherwise.
- `Transmit` is what gRPC delivers: with a non-nil error the response
  message is dropped and only the code arrives.

`db.InsertDevice` and the validators are not under `src/`. `InsertResults`
gives every outcome the handler has to be ready for: a storage error at any
time; a new device stored; a device still buffered with other data an error
(the handler's comment, line 54); the same record again a success or an
error, since nothing under `src/` decides which.

### `SPM`

Composes the operations with the pool through `SQ == INSTANCE SessionQueue`.

State:
- Per goroutine: the operation `op`, the parameters still to process `args`,
  the stage of `GenerateKeyPairAndCert`, the number of key pairs left on the
  HSM `kp`, whether the request has called the HSM `touched`, the returned
  status `resp`, and the hash/OID written by `EndorseCert` into `cert`.
- The registry contents `RegSym` and `RegPriv`. `Init` picks any subset of the
  labels the code looks up: the config may list fewer. They never change
  afterwards.

Actions:
- `Request` is `getHandle` plus the choice of operation and parameters.
- There is one action per operation. Each early return of the code is a
  disjunct of that action, returning the code's status:
  - `Internal` for `status.Errorf(codes.Internal, ...)`.
  - `Unknown` for a raw error or a `fmt.Errorf`, which gRPC reports as Unknown.
- Loops (`GenKeyPairStep`, `GenSymmetricKeyStep`) take one step per parameter.
- An operation's return is the pool's `Cmd` step (`Return`). The deferred
  `release` is `SQ!Release`.
- Bytes, hashes and derived keys are abstracted away. A parameter is a small
  record, and keys are labels.

## Runs

| Run | Config | Checks | Shows |
|---|---|---|---|
| queue_safety | `MCSessionQueue.cfg` (4 goroutines, 3 sessions) | `SessionsConserved` | each session is always queued once or held by exactly one goroutine (spec §8 property 1) |
| queue_liveness | `MCSessionQueueLive.cfg` (4 goroutines, 2 sessions) | `WaiterServed` | a blocked `getHandle` is eventually served |
| spm_safety | `MCSPM.cfg` (2 goroutines, 1 session, ≤1 param, every registry content) | `EndorsedCertConsistent` | an `EndorseCert` that succeeds, on any path and with any registry, writes the RFC 5758 OID of the hash it signed with |
| spm_liveness | `MCSPMLive.cfg` | `RequestCompletes` | every request that waits for or holds a session returns a status and releases |
| spm_algorithm_gate | `MCSPMAlgGate.cfg` | `AlgorithmGate` (violation expected) | see findings |
| spm_keypair_leak | `MCSPMKeyPairs.cfg` | `KeyPairsDestroyed` (violation expected) | see findings |
| double_release | `MCReleaseHandle.cfg` (2 goroutines, 2 sessions) | `CapacityNotInflated` (violation expected) | see findings |
| proxy_status_dropped | `MCProxyBuffer.cfg` (2 clients, 1 device, 2 data values, symmetry) | `FailureStatusReported` (violation expected) | see findings |
| newhsm_ready | `MCNewHSM.cfg` (slots -1..1, 1-2 tokens, 1-3 sessions, 2+1 labels) | `ReadyIsComplete` | a returned HSM has `NumSessions` logged-in sessions queued and every label resolved |
| newhsm_session_leak | `MCNewHSMLeak.cfg` | `FailureClosesSessions` (violation expected) | see findings |
| newhsm_negative_slot | `MCNewHSMSlot.cfg` | `NoPanic` (violation expected) | see findings |
| newhsm_zero_sessions | `MCNewHSMZero.cfg` | `NewHSMReturns` (violation expected) | see findings |

Why the bounds are enough:
- Pool runs: 4 goroutines on 3 sessions force blocking, hand-off and a
  capacity check racing with other releases.
- SPM runs: 2 goroutines on 1 session make one goroutine wait while the other
  runs through any path.
  - The operations share nothing but the pool and the read-only registry, so
    more goroutines add interleavings of independent steps only.
  - One parameter is enough to reach every branch of the loop bodies.
  - All 32 registry contents are enumerated in `Init`, so every missing-label
    branch fires.
- Double release: a second release needs one session on loan to another
  goroutine and room in the buffer, which 2 sessions and 2 goroutines give.
- Proxy buffer: 2 clients on one device with 2 data values reach both error
  paths and a conflict.
- NewHSM: up to 3 sessions, which is more than one loop turn. The slots
  include -1, and a slot can equal the token count. Label sets of 0-2 make
  each loop run empty, once and twice.

Each property of a passing run has a mutant in `PROJECT.json`: a plausible bug
in a mapped definition that TLC catches.
- `ReceivePeek`: a receive that does not remove the session.
- `BlockLifo`: LIFO waiters.
- `oidFromSignatureAlgorithmSwapped`: the SHA-384 and SHA-512 OIDs swapped.
- `GenSymmetricKeyStepStuck`: a loop that does not advance.
- `GetHandleEarly`: the open loop stopping one session early.

## Fairness

- `SessionQueue`: weak fairness on each goroutine's `Cmd` and `Release`.
- `SPM`: weak fairness on each goroutine's `Serve` steps.
- `NewHSM`: weak fairness on its one goroutine.
- `ProxyBuffer` and `ReleaseHandle`: no fairness; their runs check one
  safety property each.

Both rest on two facts:
- The Go scheduler eventually runs every runnable goroutine.
- `release` is deferred, so it runs on every return path.

The models also assume that each HSM call returns. New requests are not fair:
clients need not send any.

## Findings

1. **EndorseCert algorithm gate** (`part_002:472-485`).
   - Spec §8 property 8 and §7: an unsupported signature algorithm fails with
     an input error, without touching the HSM.
   - The code first calls `getKeyIDByLabel` and `FindPrivateKey` on the HSM.
     Only then does it map the algorithm, and it returns `codes.Internal`.
2. **Key pairs left on the HSM** (`part_002:329-346`).
   - Spec §3: generated key pairs are destroyed before the operation returns.
   - The code returns early on an `ExportKey`, `WrapAES` or
     `CreateCertificate` error without destroying the key pair.
   - It also ignores the error of `DestroyKeyPairObject`.

3. **Sessions left open when construction fails** (`part_002:134`, also
   139, 144, 185, 194).
   - Spec §4.1: when construction fails, the sessions already opened are
     closed.
   - `openSessions` returns on an error without closing the sessions it has
     opened or logged in, and so does `NewHSM` on a label error.
4. **Negative `SlotID` panics** (`part_002:126`).
   - The check is only `tokSlot >= len(toks)`.
   - A negative slot passes it, and `toks[tokSlot]` at line 132 panics
     instead of returning a configuration error (spec §7).
5. **`NumSessions = 0` hangs** (`part_002:178`).
   - The loop opens nothing.
   - `NewHSM`'s own `getHandle` then waits for ever on an empty channel.
   - Nothing validates `NumSessions`.

6. **A second `release` re-queues the session** (`part_002:67-69`).
   - Spec §8 property 2: calling `release` twice on the same handle is
     rejected or idempotent and never inflates the pool beyond `N`.
   - The closure calls `q.insert(s)` on every call, and `insert` checks only
     `len(q.s) >= numSessions`. With one session on loan to another
     goroutine, a second release queues the same session twice: queued plus
     loaned sessions become 3 with `N = 2`.
7. **Failure status never reaches the caller** (`proxybuffer.go:49, 55`).
   - `proxy_buffer.proto` defines BAD_REQUEST and BUFFER_FULL as the
     response's failure statuses, and the handler sets BAD_REQUEST.
   - It returns that response with a non-nil error, which gRPC discards:
     the caller gets `InvalidArgument` or `Internal` and no status. A
     database failure and a conflict both arrive as `Internal`.

## Proofs (`SessionQueueProofs`)

All proofs are checked by tlapm for any finite non-empty set of sessions and
any set of goroutines.

- `IInvariant`: `Spec => []IInv`.
  - `IInv` is `TypeOK` plus five parts:
    - `QueuedOnce`: the buffer has no repeats.
    - `HeldNotQueued`: a held session is not in the buffer.
    - `LoansExclusive`: no session is held by two goroutines.
    - `NoneLost`: every session is queued or held.
    - `BlockedQueued`: `recvq` is exactly the set of blocked goroutines, each
      once.
  - Why the strengthening is needed:
    - `TypeOK` alone is not inductive, because `SendBuffer` appends `sess[w]`.
    - Excluding the error branch of `Insert` needs the lemma `QueueRoom`: an
      injective buffer that misses a held session is shorter than
      `numSessions`. That is a cardinality argument via `FS_Injection`.
    - `SendHandoff` needs `BlockedQueued` and `TailInjective`.
- `TypeCorrect`: `Spec => []TypeOK`.
- `NeverRejected`: `Spec => []InsertNeverRejected`. The `insert` error that
  `release` drops can never happen.
- `Conservation`: `Spec => []SessionsConserved`. It follows from `IInv`
  through cardinalities of singletons and empty sets.

- `Refinement`: `Spec => Pool!Spec`. `SessionQueue` implements the
  abstract pool's safety part.
  - `InitRefines` shows that `poolOwner` is all `NoSession` initially.
  - `NextRefines` proves one step per action, from `IInv`. A `Receive` or
    `SendHandoff` takes a session that `IInv` shows nobody holds:
    `HeldNotQueued` for the buffer head, and `BlockedQueued` and
    `LoansExclusive` for a hand-off. `Insert` releases.

## Proofs (`NewHSMProofs`)

`ReadyComplete`: `Spec => []ReadyIsComplete`. It holds for every
configuration: any slots, token counts, `NumSessions` values and label sets.
It rests on `IInv` (defined in `NewHSM`, and checked by TLC on the
`newhsm_ready` instance before it was proved), which is `TypeOK` plus three
parts:
- `LoopState`: in the open loop, `queued = i` and sessions `1..i` are logged
  in. During the login and insert of session `i+1`, `i < NumSessions`.
- `HeldState`: after the loop every session is logged in. While the labels
  are resolved, `queued = NumSessions - 1`, because `getHandle` holds one
  session. Once ready, no labels are left.
- `LabelsAccounted`: `reg ∪ symLeft ∪ privLeft` is the configured label set.

`ReadyIsComplete` alone is not inductive. `Ready` needs the queue count
`HeldState` gives and the label accounting. `GetHandle` needs `queued = i`
from `LoopState`, and `i ≤ NumSessions` from `TypeOK`.

`sess` is indexed by `1..cfg.num`, the sessions the loop can open, so no
bound over all configurations is needed.

## Proofs (`SPMProofs`)

These hold for any sets of sessions, goroutines, labels and algorithms.
- The lemma `QueueRefined`: `Spec => SQ!Spec`. This is the release
  discipline: the SPM implements `SessionQueue`.
  - `Init` contains `SQ!Init`.
  - `ServePoolStep`: each step of each operation is the pool's `Cmd` (a
    return, on any path) or `Release`, or leaves the pool alone. It has one
    step per operation.
  - `Request` is `Receive` or `Block`.
- `SPMConservesSessions`: `Spec => []SQ!SessionsConserved`.
  `SessionQueueProofs!Conservation` is carried to the SPM through
  `QueueRefined`. This needs `SessionQueueAssumption`, which `SPMAssumption`
  now states: a finite, non-empty set of sessions. The SPM runs only after
  `NewHSM` returns, and with `NumSessions = 0` it never does (run
  `newhsm_zero_sessions`).
- `CertConsistent`: `Spec => []EndorsedCertConsistent`.
  - The lemma `TablesAgree` says that for each algorithm the hash switch
    accepts, the OID switch gives RFC 5758's OID for that hash.
  - The invariant adds only that `op`, `resp` and `cert` are functions on
    the goroutines.
  - Every step keeps it, by `OtherOpStep` for the other operations and
    `EndorseCertStep` for `EndorseCert`.

What stays with TLC only, and why:
- The liveness properties (`WaiterServed`, `RequestCompletes`): TLAPS does not handle fairness and ENABLED.
- The expected violations: each has a counterexample trace instead.

## Not modelled, and plan

- The proxy buffer's database and validators are not under `src/`. They
  appear only through the outcomes `InsertResults` allows; the atomicity
  and conflict handling of `InsertDevice` itself are not checked.
- Deliberately left out:
  - DER byte layout, hashing and HKDF: pure data, done by libraries.
  - The unknown-`KeyParams` panic.
  - Derived AES keys that are never destroyed.
  - The missing timeout on `getHandle`.
  - The proto files, Bazel files, deploy script and ATE test: they carry no
    service behaviour.

  These are listed as hazards in `PROJECT.json` where they are hazards.
