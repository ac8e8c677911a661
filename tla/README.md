# A TLA+ model of the verifiable RPC sidecar

The sidecar stands in front of a JSON-RPC node inside a confidential VM. It
forwards requests to the node and signs each answer with a key that a TDX quote
binds to the VM. `POST /confidential` also encrypts both directions.

## The system

| Part | Source | State | Operations | What must hold |
|---|---|---|---|---|
| Confidential exchange | `confidential.rs` | one future per call: position, outer body, nonce, result, log guard | read, open, decode, call the node, seal, sign, log; dropped when the client leaves | one truthful log line; no response key used twice; an answer belongs to its own request; a refusal never reaches the node |
| Upstream leg | `confidential/upstream.rs` | bytes read so far, the timer | send, check the head, read frames under a cap, time out | ends whatever the node does; relays the whole answer or none of it; the cap is exact |
| Inner request | `confidential/inner.rs` | none | check and decode Binary HTTP, count a batch | each plaintext gets the documented error; sections are bounded before decoding; the count is the node's |
| Envelope | `envelope.rs` | a response context, consumed by sealing | open, seal | a context seals once |
| Signing | `signing.rs` | keys, fixed at boot | sign with the clock | a signature is for one chain, exchange and time; nothing is signed without a clock |
| Passthrough | `proxy.rs` | one future per call, the connection pool | collect, send, collect, sign, rebuild the response | the signature covers what the client decodes; caps are exact; the node is called once |
| Attestation, info | `attestation.rs` | boot-time cache | quote for a nonce, cached info | a quote is fresh and carries its caller's nonce and the signing key |
| Boot and shutdown | `main.rs` | process phase, connections | parse, derive keys, bootstrap, listen, drain, exit | never serves without an identity; status 0 leaves no call behind |
| Router, configuration | `server.rs`, `config.rs` | none | dispatch, compress, parse flags | compression only after signing; no useless limits |

Handlers run concurrently and share the signer, the clock, the random generator,
the connection pool and the node. What makes this hard to test: a future may be
dropped at any await; a timeout races the node's answer; bytes already written
reach the node after the handler gave up; the clock may fail between two reads;
clients may post the same bytes twice; dstack answers in any order; a signal
arrives at any moment of boot or of a call.

## Modules

| Module | Models |
|---|---|
| `Origin` | how a base URL and a path form the upstream URI (`proxy.rs`) |
| `InnerRequest` | the checks on the decrypted request and the batch count (`inner.rs`) |
| `FieldSections` | the varint reader and the walk of `check_field_sections`, byte by byte (`inner.rs`) |
| `Confidential` | concurrent `/confidential` calls, with the node, the network and the clock as environment |
| `Passthrough` | concurrent calls to the other routes: `run_pipeline` and the compression layer |
| `NodeCall` | abstract: what a call, on either route, promises about the node |
| `Signing` | the pre-image, the clock, signatures of sidecars that share a key |
| `Inputs` | `parse_user_nonce` and `validate_chain_id` as operators on texts |
| `Attestation` | `/attestation` and `/info` against dstack |
| `Lifecycle` | the process: command line, boot, connections, signals, drain, exit status |
| `Sidecar` | `Lifecycle`, `Passthrough` and `Confidential` composed |
| `ConfidentialProofs`, `PassthroughProofs`, `AttestationProofs`, `SigningProofs`, `LifecycleProofs` | inductive invariants and safety theorems; for the two routes also that they implement `NodeCall` |
| `ParserProofs` | theorems about `Inputs` and `FieldSections` |
| `SidecarProofs` | that the composition implements its components, and what follows |
| `NumberProofs` | induction, recursive functions, powers and division, for the other proofs |
| `MC...` | small instances for TLC; `MCInputs` and `MCFieldSections` also hold the reference definitions, and `MCParsers` puts them into one run |

### How state and actions correspond to the code

In `Confidential` and `Passthrough`, `pc[c]` is the await at which the handler of
call `c` is suspended. What the code does between two awaits is one action, and a
client that leaves drops the future at an await (`ClientGone`). `sent` counts
requests handed to the connection and `delivered` those that reached the node.

- `Confidential`: `reading` is `read_outer`, `connecting` and `waiting` are
  `UpstreamClient::send`, `streaming` is the frame loop of `read_upstream`.
  `sealing` is the one point that is not an await, between the return of
  `run_inner` and `seal_inner`: a client cannot interrupt it, but the clock is
  read a second time and may have changed. `sealed` (every encryption performed),
  `resultAt` and `broke` are history variables.
- `Passthrough`: `collecting` is `collect_request`, `connecting` and `waiting` are
  `send_upstream`, `streaming` is `collect_upstream_response`. `Relay` is
  `sign_or_500`, `build_signed_response` and the `CompressionLayer`, which follow
  the last await directly. `cause` is a history variable.
- `Attestation`: the only await is `get_quote`. `ProduceQuote` is dstack's, and may
  come after the caller left. `produced`, `asked` and `askedAt` are history.
- `Lifecycle`: `phase` is where `main` is. `signals` is `default` until the
  shutdown future is first polled, since until then SIGINT and SIGTERM kill the
  process. Later the first signal starts the drain, and another one changes nothing:
  the handlers stay installed and nobody waits for them any more. `conns` follows `axum::serve` with graceful shutdown as `main.rs` uses
  it: a kept-alive connection takes calls until its own task sees the signal.
- `Sidecar`: a call's handler runs only while its connection is there and the
  process has not ended; the first step of the handler is the connection's
  `Request` and its last is `Reply` or `ClientCloses`. Each connection carries one
  call.

### Abstractions

- A request is a record of what the checks look at; `id` stands for the bytes, so
  two calls with the same record are a replay. Header names and values are
  classes; headers are sets, so order and repetition are lost. A response body is
  a text under a number of gzip layers.
- Cryptography is symbolic. The response key is derived from the KEM secret, the
  share and the nonce, so the pair of share and nonce names it. A digest has no
  collisions. A dstack key is its encoding, its length, and whether the derived
  X25519 key matches.
- Random nonces do not repeat. The clock does not run backwards while it is
  usable. Failures of encoding and sealing are nondeterministic.
- Frames are at most one byte over the cap; a larger frame takes the same branch.
- A pooled connection that hyper finds closed before writing is replaced without
  a visible step. hyper refuses a URI that is not in absolute form.
- Characters are classes (`HexDigits`, `White`, `Wide`, ...), and bytes in
  `FieldSections` and `Signing` have a radix that is a constant.
- The fallback of `build_confidential_response` is unreachable: the status is in
  200..599 and the headers are valid.

## Runs

| Run | Instance | Properties |
|---|---|---|
| `confidential_solo` | one call, 12 kinds of request, 64 node responses | `TypeOK`, `VerdictsJustified`, `BufferedWithinCaps`, `LogTellsOutcome` |
| `confidential_pair` | two calls, replayed bytes or a batch over the limit, with fairness | `NodeUntouched`, `KeyUsedOnce`, `AnswerBindsExchange`, `TimestampFollowsResult`, `CompletesOnceCollected`, `ImplementsNodeCall` |
| `passthrough` | two calls, every coding offered, used and declared, with fairness | `TypeOK`, `VerifiesAtClient`, `SignedIsPlaintext`, `LimitsExact`, `EndsIfNodeAnswers`, `ForwardsOnce` |
| `passthrough_coding` | a node that does not honour `Accept-Encoding` | `SignedIsPlaintext` is violated |
| `passthrough_url` | a base URL without a scheme | `NoSilent500s` is violated |
| `passthrough_chain` | a node that sends `vRPC-Pubkey` itself | `OnePubkey` is violated |
| `parsers` | every text of up to six characters over nine classes; messages of four sections with lengths in widths 1, 2 and 4, cut at every byte | `NonceAsWritten`, `ChainIdCanonical`, `SectionsBounded` |
| `nonce_form` | every text of up to six characters over five of these classes | `NonceDocumented` is violated |
| `attestation` | three callers up to symmetry, two spellings of one nonce | `TypeOK`, `QuoteIsOwn`, `ComposeConsistent` |
| `signing` | two chains that share a key, two-bit timestamps | `SignatureBinds` |
| `lifecycle` | 11 command lines, 16 keys, two reused connections, with fairness | `TypeOK`, `ServesWithIdentity`, `GracefulExit`, `BootEnds`, `DrainEnds` |
| `sidecar` | one passthrough and one confidential call in the process, with fairness | `NothingLost`, `DrainEnds` |

Each property is stated in words above its definition.

### Bounds

- `confidential_*`: caps of 2 bytes with bodies of 0 to 3, so a body can be under,
  at and over its cap in one frame or several; a batch limit of 2 with 0, 2 and 3
  elements; a path limit of 2 with a prefix of 1, so a path can pass `inner_path`
  and fail when joined; one nonce per call and one to spare in the solo run; a
  clock that counts to 1 or 2, enough for a timestamp to be older than a result.
- `passthrough`: a cap of 2 with bodies of 0, 2 and 3. Two calls suffice for the
  properties that relate calls, as each speaks of pairs. `sidecar` leaves
  `--max-body-bytes` unset and lets `usize` count to 1, so that the other branch of
  the cap is taken as well.
- `parsers`: nonces of one byte and chain ids of three: six characters hold a whole
  nonce behind two prefixes, or behind one with white space on either side. Bytes
  of messages have three bits; widths of 1, 2 and 4, without 8; and one control
  string in place of the four, which the walk treats alike. `SectionsHold` is about
  every width.
- `attestation`: nonces of one byte. Three callers, so that two with one nonce can
  overlap with another.
- `signing`: readings from -1 to 5 with a limit of 4; a body with the bytes of a
  chain id, so that a slot could be mistaken for another.
- `lifecycle`: each value a check may refuse on both sides of its border.
- `sidecar`: one call of each kind, as its properties speak of each call alone and
  of all of them having ended.

### Fairness

- `confidential_pair`: a ready future is polled and the timer fires. Nothing is
  assumed of the client, the node or the network, so `CompletesOnceCollected`
  rests on the timeout alone. It starts when the outer body has arrived, as the
  upload has no timeout in the code.
- `passthrough`: in addition connection attempts end, and a node that got the
  request answers it to the end. This is assumed, not ensured: the route has no
  timeout. What the property adds is that no cap, clock or URI error stalls a
  call on top of that.
- `lifecycle`: `main` and the tasks of connections are polled, and calls end. Nothing
  is assumed of dstack, which `main` awaits without a timeout: `BootEnds` has as its
  own condition that boot does not wait for dstack for ever. Clients need not close
  idle connections.
- `sidecar`: that calls end is no longer assumed but follows from the routes: the
  confidential call by its timeout, the passthrough call by the same assumption
  about the node as above. `DrainEnds` leaves out uploads that do not end.

Deadlock checking is off where the system stops: `lifecycle` and `sidecar` (the
process exits), `parsers` and `nonce_form` (the text has its full length). In
the other runs a clock or dstack's info can always change.

## Theorems

TLC checks the instances above; the following hold for every value of the
constants that satisfies the assumptions named in the modules (types, and null
values outside their sets).

**Confidential.** Every safety invariant of its runs. None is inductive alone.
`IInv` adds, for each call, what its phase implies (`Flow`), what its line says
once it ended (`Logged`), what was handed over and delivered (`NodeSide`), why a
result was chosen (`Judged`), what an answer is made of (`Bound`), and globally
that nonces of different calls differ and a call has encrypted nothing before it
ends (`Keys`). `Keys` is what makes key uniqueness survive replays: the uniqueness
of nonces alone says nothing about one call encrypting twice.

**Passthrough.** `VerifiesAtClient`, `LimitsExact`, `TypeOK`, and
`SignedIsPlaintext` under the hypothesis `NodeHonours`, without which run
`passthrough_coding` refutes it. `IInv` says what a handler has at each phase and
what the node was given (`Flow`), how a call ended and why (`Ended`), and what a
signed answer is made of (`Bound`). `Flow` is needed since the size of the request
is only known to be within the cap once it is collected, and a body only to be
the whole one when the handler leaves `streaming`; `Bound` remembers that after
the handler is gone.

**Refinement.** Both routes implement `NodeCall`. `sent` maps to `handed`, and a
call's stage is read from its phase and from its log line or `cause`. Visible steps
are the arrival, the hand-over and the endings. The invariant supplies that nothing
is sent before a refusal and something is before a relay.

**Attestation.** `TypeOK`, `QuoteIsOwn` and `ComposeConsistent`. The invariant adds
that no call starts before boot has fixed the cache (`Booted`), that a quote is
over what its call asked for and newer than the question (`Asked`), and that no
serial is given out twice (`Distinct`). Lemmas `NonceType` and `ReportData` show
that an accepted nonce fills its slot exactly.

**Signing.** Equal pre-images are over one chain, one request, one response and the
same time bytes, for all widths (`BindsSlots`), and over one reading of the clock
(`SignatureBinds`), for every radix of at least 2 and every number of digits. The
second step is that readings within the width have different digits. It is an
induction over the width: equal last digits are equal remainders by the radix, and
the other digits are those of the quotients, which fit one digit less.

**Lifecycle.** `TypeOK`, `ServesWithIdentity` and `GracefulExit`. The invariant
records which checks each phase of boot has behind it (`Checked`) and that a drain
follows a signal (`Drains`).

**Parsers.** `NonceAsWritten` and `ChainIdCanonical`, for texts, nonces and limits
of every length and any number of prefixes: a text is accepted as a nonce exactly if,
without the white space around it, it is the digits behind prefixes `0x` and then
`0X`. The only invariant is that a text is a sequence of characters;
the work is in lemmas about `trim` and about removing prefixes, which name the
first and the last character that is kept as a least and a greatest position.
`SectionsBounded`, for every number of control strings (at least one), every limit,
every length and every width that holds it, with `PrefixUnit` at most `ByteValues`.
Its invariant `Framing` says that a written message is the encodings and contents
of its sections one after another, with padding only after the last. `ReadsLength`
shows that `take_varint` reads back the length that was encoded, by induction over
the bytes. `Turn` and `Reaches` show that the walk arrives at the end of section
`k` exactly if the first `k` sections are whole and within their limits.
`AcceptsExactly` takes the last section the walk reaches and compares what is left
there with what `Acceptable` asks for.

**Sidecar.** `Composition`: each step of the process with its handlers is a step, or
a stutter, of `Lifecycle`, of `Passthrough` and of `Confidential`. So the theorems
above carry over, and `PassthroughHolds`, `ConfidentialHolds` and `LifecycleHolds`
state them of the composition. `NothingLost` belongs to no component. It takes the
invariant `Linked`, that a handler runs exactly while a call occupies its
connection, together with `GracefulExit`: at status 0 no connection is occupied, so
no handler is left at an await.

**How inductions are done.** The provers cannot instantiate the library's induction
principle with a formula. `NumberProofs` states it for sets (`Induct`: a set of
naturals with 0 and closed under successor is all of them), and each proof names
the set of numbers for which its claim holds. `Recursion` shows that a recursive
function has the values its definition says; `Shl1`, `Place`, `Weight`, the varint
reader and the section walk use it.

Model-checked only: liveness under fairness (`CompletesOnceCollected`,
`EndsIfNodeAnswers`, `BootEnds`, `DrainEnds`), which is out of the prover's reach.
Every safety property of a passing run is proved, `SignedIsPlaintext` under the
hypothesis named above.

## Where the code and its documentation differ

- `README.md:21` derives a plaintext signed body from forcing
  `Accept-Encoding: identity`. The passthrough routes do not check that the node
  complied: a coded body is signed as it is and relayed without its
  `Content-Encoding` (`passthrough_coding`). `/confidential` refuses such a
  response.
- `src/proxy.rs:49-51` says a malformed URL aborts boot and never makes requests
  fail with 500. `localhost:8545` parses, as an authority, and makes each request a
  500 (`passthrough_url`).
- `README.md:92` says the attested pubkey is identical to the `vRPC-Pubkey` value of
  every signed response. Headers of the node are copied and the sidecar's own
  appended, so behind another sidecar there are two values (`passthrough_chain`).
- `README.md:67` and `src/attestation.rs:199` describe a nonce with or without the
  `0x` prefix, and `README.md:59` a 400 for a malformed one. `trim_start_matches`
  removes a prefix as often as it is there, so `0x0x` and `0x0X` before the digits are
  accepted as well (`nonce_form`). The value is still that of the digits.
- `src/signing.rs:186-187` says that signing fails past the year 2554. `now_ms` fails
  only when the milliseconds exceed 64 bits, hundreds of millions of years later; 2554
  is where 64 bits of nanoseconds end. `Signing` follows the code. No run is about it.

## Not modelled

- clap: option names, environment variables, the syntax of numbers and addresses.
- axum's matching of paths to routes, TLS, and the connection pool of hyper.
- The internals of the Binary HTTP decoder and of serde_json beyond the section
  walk and the batch count.
- The cryptographic computations, and the wiping of secrets and buffers from
  memory.
- Log wording and hex formatting (`util.rs`).
- In the composition: several calls on one connection with their handlers (they are
  in `Lifecycle` without them), and `/attestation`.
