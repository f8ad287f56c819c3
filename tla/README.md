# TLA+ models of udp-transport-options

UDP options (RFC 9868) in userspace: a `Peer` sends datagrams whose options live in the surplus
area behind the UDP payload, splits what is too long into FRAG fragments, and on the other side
checks, parses and reassembles what a raw socket delivers. This directory holds TLA+
specifications of that code, the TLC configurations that check them on small instances, and
TLAPS proofs of the properties that matter most.

## The system

| Part | State | Operations | Hard behaviours | What must hold |
|---|---|---|---|---|
| Reassembly cache, `frag/reassembly.rs` | map from `FragKey` to `Partial` | `insert`, `insert_with_options…`, `discard`, `gc` | fragments out of order, repeated, conflicting, late; cache full; expiry without `gc` | a delivered tail is gap-free, made of accepted and fresh fragments; other keys untouched; bounded; nothing stays for ever |
| Splitter, `frag/split.rs` | loop of `chunk_ranges` | `split_datagram` | capacities that differ by two bytes, pads, 16-bit limits | the fragments tile the tail, fit, and are as few as possible |
| Identification generator, `frag/split.rs` | `next` | `next_id` | end of the 32-bit space, restart | no Identification twice |
| Sending peer, `api/mod.rs`, `socket/send.rs` | configuration, generator | `bind`, `send` | failure after the Identification is taken, socket error between two fragments, restart | all or nothing before the first write; success means everything was written |
| Receive pipeline, `recv/pipeline.rs` | none but the cache | `process_datagram` and its nested pass | order of the checks; failures inside a fragment; a reassembled datagram that is a fragment again | user data survives bad options; a drop leaves nothing behind |
| Receive policy, `api/mod.rs` | the policy | `decode_datagram` | requirements over two levels, fragments and datagram | a requirement is never satisfied by what failed or was not checked |
| Raw receiver, `socket/recv.rs` | `SO_RCVTIMEO` | `set_read_timeout`, `recv` | unending noise, rounding to zero, failing socket calls | the deadline bounds the call; the user's timeout survives it |
| Option codecs, `options/` | the builder's options, the iterator's position | `push`, `finish`, `next`, `encode`, `decode` | one-byte and extended lengths, alignment, FRAG's start patched from a measured length | what is built is read back; the iterator stays inside its bytes, whatever they are |
| Wire layer, `wire/`, `options/ocs.rs`, `socket/send.rs` | the checksum accumulator | `assemble_datagram`, the parsers, `locate_surplus`, OCS | both meanings of zero, odd lengths, IPv4 options, damage on the path | the disposition table; damage is not vouched for |
| Command-line tools, `bin/` | manifest, counters, exit status | one run | kill or refused write in the middle, failures among successes, unending noise | manifest and exit status never claim more than happened; a run with a timeout ends |

`Peer::send` calls the generator, the splitter and the raw sender in turn. `Peer::recv` calls the
raw receiver and `decode_datagram`, which calls the pipeline, which calls the cache, and itself
once more for a reassembled datagram. Everything runs in one thread per peer; the concurrency is
between two peers, the network, the clock and the kernel.

## Modules

| Module | Models | Correspondence |
|---|---|---|
| `Reassembly` | `frag/reassembly.rs` | `partials` is the cache's map; a partial has the fields of `Partial`. `Insert` is `insert_with_options_and_failures`, split into its four ways out; each begins with the `gc` the code begins with. `InsertResult`, `IsExactDuplicate`, `Overlaps`, `Conflicts`, `Accept` and `CompleteResult` are the methods of `Partial`, in the order of their early returns. `taken` is history: what each partial has accepted |
| `FragSplit` | `frag/split.rs` | `SplitDatagram` is the call up to the loop, `ChunkStep` a turn of the loop, `ChunkDone` the terminal range, the segment limit and the fragments |
| `PeerSend` | sending half of `api/mod.rs` | instantiates `FragSplit`; one action for each way `build_outgoing_datagrams` goes, one for each turn of the write loop, `SocketError` for a failing write, `Rebind` for a restart |
| `RawReceiver` | `socket/recv.rs` | one action for each socket call and each of its failures; `rcvtimeo` is the socket's option, `left` the time to the deadline |
| `OptionProcessing` | `parse_options`, `fragment_option_limit` | pure operators over a sequence of options; `TakeOption` is a turn of the loop, `Turns` the loop, `ScanStop` the loop of `fragment_option_limit` |
| `RecvPipeline` | `recv/pipeline.rs`, `decode_datagram` | instantiates `Reassembly`; `Process` is `process_datagram_inner` up to the cache, `ReceiveFragment` the call of the cache, `ProcessReassembled` the nested pass, `Judged` the policy |
| `DatagramService` | – | abstract: a datagram is delivered only if it was offered, whole and unmixed; it may be lost, late or repeated |
| `FragTransfer` | sender, network, receiver | extends `PeerSend`, instantiates `Reassembly`; `wire` is the network, any packet of which may arrive at any time, any number of times; refines `DatagramService` |
| `Bytes`, `OnesComplement` | big-endian fields, arithmetic of `wire/checksum.rs` | pure operators, shared by the modules below |
| `Checksum` | `Checksum` of `wire/checksum.rs` | `sum` is the accumulator; one action for each word, scalar or last odd byte added. `total` is history |
| `OptionType` | Rust's `Option` | the constant `None`, one for the modules that are proved about together |
| `OptionFormat` | `options/kind.rs`, `options/typed.rs` | pure operators: kinds, fixed lengths, `Encode` and `Decode` of the typed options |
| `OptionsIter` | `options/parse.rs` | the fields of the iterator; an action is a call of `next()`, one for each way it returns something; `Framing` is its checks of the Length fields. `items` is history |
| `OptionsBuilder` | `options/serialize.rs` | extends `OptionsIter`. `Push` and `PushTyped` fill `options`, `Finish` and `FinishFails` are `finish()`: `Canonical` is the sort, `MeasuredLen` and `Written` are the loops of `serialized_body_len` and of the encoding; the iterator then reads the body back, or bytes that no builder has made (`Receive`) |
| `WireFormat` | `wire/`, `options/ocs.rs`, `assemble_datagram`, `process_datagram_inner` to the options | pure operators on bytes: what the sender writes, what the receiver makes of it |
| `WireDatagram` | one datagram on its way | `Assemble`, then `WireFaults::apply` of `udpopt-send`, then the path (IPv4 options, trailing bytes, one damaged byte), then `Receive` |
| `UdpoptSend` | `bin/udpopt-send.rs` | one action for each step of `run()` and each way it fails, and `Killed`; `wire` and `rows` are what outlives the process |
| `UdpoptRecv` | `bin/udpopt-recv.rs` | extends `RawReceiver`; the loop of `run()` around it. What `process_datagram` returns is any of `Deliveries` |
| `ReassemblyProofs`, `RecvPipelineProofs`, `FragSplitProofs`, `FragTransferProofs`, `UdpoptRecvProofs`, `SenderProofs`, `DatagramProofs`, `WireProofs` | – | theorems; those about `PeerSend` are in `FragTransferProofs`, those about `RawReceiver` in `UdpoptRecvProofs`, those about `UdpoptSend`, `OptionsIter` and `OptionsBuilder` in `SenderProofs`, those about `Checksum` and `WireDatagram` in `WireProofs` |
| `MC…` | – | the instances TLC checks |

Operators whose comment begins with "Slip" are not part of a specification. Each is a plausible
mistake in the definition that follows it; substituted for that definition it violates a property,
which shows that the property depends on that piece of the code.

### Abstractions

* Bytes are opaque strings with a length (`Reassembly`), slices of a numbered datagram
  (`FragTransfer`), or what they turn out to hold (`RecvPipeline`).
* Vectors of options and reports are records and sets: the code asks them only for membership,
  and `parse_options` admits one option of a kind. Coalescing REQ and RES, where the last one
  wins, keeps the order of arrival.
* Time in the cache is the age of a partial, saturating at the timeout; `now` never goes back.
* A datagram in `RecvPipeline` is given by what the header, checksum, pad and OCS checks find and
  by the options the TLV iterator yields. `Inside` gives the same for a reassembled tail.
* `build_outgoing_datagrams` runs twice when it needs an Identification; it is pure, so the model
  runs it once. The validity of the options is a bit of the job, their size a number.
* A timeout too large for the clock, `None` and zero all mean no deadline, as in the code. The kernel
  rounds a timeout up to a tick of its clock, so a read may block up to a tick longer than the
  models say.
* Warnings and their sampling counters are left out.
* The modules on bytes keep every byte. A 32-bit field is the pair of its 16-bit halves, and what
  is computed by a library (CRC-32C) is any value.
* A command line in `UdpoptSend` is what the program makes of it: whether inputs parse, whether the
  build succeeds and with how many datagrams, whether faults can be applied. These are the same for
  every logical send of a run: the payload of each has the same length. A kill while a manifest row
  is written may leave part of a line, which the models do not count as a row. In `UdpoptRecv` the
  arguments are the count and the timeout.
* Branches no state reaches are not modelled: in `chunk_ranges` the capacity checks that
  `split_datagram` has made already, in `parse_options` a failing item behind an UNSAFE option
  (the loop has ended), in the pipeline fragment data outside the datagram and an error of the
  nested pass. Two such branches are modelled and shown never taken: `FragmentOffsetTooLarge`
  (`FragmentsFit`) and the abort of the walk in `complete` (lemma `WalkNeverAborts`).

## Runs

| Run | Configuration | Shows | Bounds, and why they are enough |
|---|---|---|---|
| `cache_layout` | `MCReassembly_layout` | `SegmentsConsistent`, `CompleteTilesTail`, `TailFromTakenFragments`, `NeverRetainsComplete`, `OptionsCoalesced` | tails of three bytes and all placements of strings of zero to two bytes: gaps before, between and behind, both kinds of overlap; and among them fragments with four option lists, all failure sets and OCS observations. One key: keys meet in `cache_timing` |
| `cache_timing` | `MCReassembly_timing` | `ContributorsFresh`, `AtomicAlwaysCompletes`, `OtherKeysUntouched`, `DataDuplicateIsNoOp`, `EventuallyReclaimed` | three keys, room for two, an effective timeout of two ticks: a set can be fresh, stale and renewed, and the cache full |
| `cache_duplicates` | `MCReassembly_duplicates` | `DuplicateIsNoOp` is violated, see *Findings* | |
| `split` | `MCFragSplit` | `SplitTiles`, `FragmentsFit`, `FewestFragments`, `OptionsAligned`, `SplitReturns` | payloads to nine bytes over capacities of 0 to 4 bytes, and the 16-bit limits with real sizes |
| `transfer` | `MCFragTransfer` | `FreshIds`, `RejectedSendsNothing`, `DeliversOnlySent`, `GenuineNeverAborts` | three calls with two Identifications, so that the generator runs out within one life; datagrams that fit, of two and three fragments, and that are refused at each of the checks; one restart, room for one partial |
| `transfer_timely` | `MCFragTransfer_timely` | `EventuallyReassembled` | two datagrams of two and three fragments, room for both, no restart |
| `pipeline` | `MCRecvPipeline` | `UserDataSurvives`, `DroppedLeavesNothing`, `CacheTrustsChecks`, `NestedOnlyRemoves`, `FailedFragmentFailsRequirement`, `RequiredOcsHolds`, `RequiredOptionExposed` | about fifty datagrams, one for each place where the code tells them apart, five policies, among them one that asks for an OCS and nothing else, two keys, room for one |
| `checksum` | `MCChecksum` | `SumIsOnesComplement` | words and bytes at the ends of their range, slices of both parities, enough of them to pass 0xffff several times |
| `option_codec` | `MCOptionsBuilder` | `RoundTrip`, `ItemsTile` | three options of every kind in every order, values of 252, 253 and other critical lengths, invalid kinds and lengths; for the iterator alone every string of up to five bytes over the values `next()` tells apart, and options at the boundaries of the two forms, complete or cut short |
| `wire` | `MCWireDatagram` | `DispositionMatrix`, `DamageNotTrusted`, `LayoutsAgree` | user data of both parities, bodies among which one has an OCS that comes out as zero, all faults, each byte damaged to several values, lengths included: among them is a UDP length whose damage no checksum notices |
| `udpopt_send` | `MCUdpoptSend` | `ManifestHonest`, `ExitMeansSent` | three sends of one or three datagrams; emit orders that reorder, repeat, omit or are impossible; Identifications and sequence numbers that run out |
| `udpopt_recv` | `MCUdpoptRecv` | `EveryMatchReported`, `ExitHonest`, `WaitBounded`, `TimeoutSurvives`, `RunEnds` | counts to two, three matching datagrams and every kind of noise, a queue of two; timeouts below and above `MIN_READ_TIMEOUT`, ticks finer than the unit of `SO_RCVTIMEO`, every socket call failing at will |

The runs in which a program ends or bytes are read to their end (`option_codec`, `wire`,
`udpopt_send`, `udpopt_recv`) are checked without deadlock. The other runs check deadlock.

### Fairness

* `Reassembly`: time passes (`Tick`) and the application keeps calling `gc`. FR-33 of
  `docs/requirements.md` says that callers may do so, and that without it, or another `insert`,
  nothing is reclaimed; so `EventuallyReclaimed` is about applications that do. Nothing is assumed
  of fragments.
* `FragSplit`: a thread in the middle of a call takes its next step.
* `UdpoptRecv`, and the `RawReceiver` in it: the thread runs when it can. The clock is strongly
  fair: under unending noise the time at which it could tick comes and goes, but each turn of the
  loop takes some time. Arrivals and failures are not assumed.
* `FragTransfer`, timely: the sender's thread runs, and of each datagram some fragment that the
  cache lacks arrives as long as there is one. The clock stands still, which says that all this
  happens before the timeout.

## Proofs

TLAPS proves these for every value of the constants that satisfies the named assumptions of the
modules. They say that sizes, bounds and counts are naturals, that fragments, requests and command
lines have their types, that addresses, user data, option bodies and faults are bytes and make
datagrams no longer than IPv4 allows, that `None` is none of the values it is told apart from, and
of a datagram in `RecvPipeline` (`DatagramsAssumption`) what the header checks, the TLV iterator and `Frag::decode`
guarantee. TLC evaluates each of them on its instances.

**`ReassemblyProofs`** The inductive invariant `IInv` has three parts. `DomainsOK`: the cache is a
function on a finite set of keys, within the pending bound. `PartialsOK`: each partial is typed,
`Consistent`, not complete, and explained by its history, which is at least as fresh as the partial.
`DeliveredOK`: the last outcome, if it was a completion, has the delivery properties. None of the
properties is inductive alone. `CompleteTilesTail` needs the disjoint segments of `Consistent` to
conclude from the cursor of `complete()` that every position is covered (`CompleteCovers`, over the
greatest segment that starts at or before a position). `TailFromTakenFragments` needs the history,
`ContributorsFresh` that no entry is older than its partial, `OptionsCoalesced` that the running
minima and unions are those of the history. For `DataDuplicateIsNoOp` the invariant also says that
every fragment of the history that is terminal or has data is still recognised by
`is_exact_duplicate`. The lemmas go from `Partial::insert` (`AcceptConsistent`, `InsertResultOK`)
over the cache (`StoreOK`, `InsertStep`) to `NextStep`.

| Theorem | States |
|---|---|
| `TypeCorrect`, `RetainedConsistent`, `CompletionNotMissed`, `RetentionBounded` | `[]TypeOK`, `[]SegmentsConsistent`, `[]NeverRetainsComplete`, `[]PendingBounded` |
| `DeliveryTiles`, `DeliveryFromTaken`, `DeliveryFresh`, `DeliveryCoalesces` | `[]CompleteTilesTail`, `[]TailFromTakenFragments`, `[]ContributorsFresh`, `[]OptionsCoalesced` |
| `KeysIndependent`, `DuplicatesSuppressed`, `AtomicDelivered` | `OtherKeysUntouched`, `DataDuplicateIsNoOp`, `AtomicAlwaysCompletes` |

**`RecvPipelineProofs`** First the option loop, for sequences of options of every length.
`LoopInvariant` says what holds after each turn: a FRAG is trusted only if it is the one
`fragment_option_limit` found, a failure behind it is a failure of the fragment, `unsafe` stands for
an option that was there, and each success reported is an option exposed. It is shown by the least
turn that would break it. From it `ProcessFacts` says what `process_datagram_inner` may return for
any datagram. `IInv` then has three parts: in the cache, the failures and the OCS verdict of each
partial cover those of its history (`CacheOK`); during a nested pass, the datagram that completed
the set has passed all checks and its set is out of the cache (`NestedOK`); and the five properties.
The theorems on invariants have the hypothesis `InsideOK`: what a reassembled tail holds is read by
the same checks, iterator and decoders as a datagram. It is a hypothesis and no `ASSUME` because it
speaks of every tail.

| Theorem | States |
|---|---|
| `UserDataDelivered`, `DroppedDiscards` | `[]UserDataSurvives`, `[]DroppedLeavesNothing` |
| `FailuresNotForgotten`, `OcsRequirementHolds`, `RequirementExposed` | `[]FailedFragmentFailsRequirement`, `[]RequiredOcsHolds`, `[]RequiredOptionExposed` |
| `CacheBehindChecks`, `NestedAddsNothing` | `CacheTrustsChecks`, `NestedOnlyRemoves` |
| `PipelineUsesCache` | `Spec => R!Spec`: the receive path uses the cache as `Reassembly` lets its callers, so the theorems about the cache hold in it when its fragments are typed |

**`FragSplitProofs`** `IInv` is `TypeOK`, the loop invariant and what a return guarantees. The loop
invariant says that the ranges tile the tail up to `start`, that `start + remaining` is its length,
and that `remaining` is what full ranges leave, or exactly the terminal capacity after a range cut
short. The last is what minimality needs.

| Theorem | States |
|---|---|
| `TypeCorrect`, `SplitIsTiling`, `SplitFits` | `[]TypeOK`, `[]SplitTiles`, `[]FragmentsFit` |
| `SplitIsMinimal`, `SplitAlignsOptions` | `[]FewestFragments`, `[]OptionsAligned` |

**`FragTransferProofs`** First the sending peer, with two independent invariants. `Inv`: the
generator is ahead of every Identification issued in this life of the peer, which makes `FreshIds`
inductive. `WInv`: what is queued belongs to the call under way, what is written to it or to an
earlier one, and a call that is still splitting has written nothing; so an error found before the
first write leaves no packet.

| Theorem | States |
|---|---|
| `IdentificationsFresh` | `[]FreshIds`, for every size of the counter |
| `RefusedWritesNothing` | `[]RejectedSendsNothing` |

Then the refinement of `DatagramService` by sender, network and cache together.
`TransferInv` follows a byte from `send()` to the delivery. `IdsOK`: over all lives of the sender
an Identification belongs to one call. `OfferedOK`: the number of a call tells
the datagram it offered. `SplitFor` and `SplitGood`: the splitter works on the datagram of the call
under way, in a state of `FragSplitProofs`, whose invariant is taken over by instantiation; so each
fragment it returns is a piece of that datagram at the offset it says (`FragmentsGenuine`).
`PacketsOK`: every packet queued or written is such a piece. `CacheOK`: what a partial holds was
carried by written packets with its key. A step that delivers is then a step of the service
(`ServiceStep`): the key belongs to one call, so all segments are slices of one datagram
(`OneDatagram`); the terminal fragment has its length and its RDOS; the walk of `complete()` covers
every position up to that length (`CompleteCovers` of `ReassemblyProofs`); so the slices together
are the datagram, whole and unmixed. Nothing is assumed of the network and of the limits of the
receiver. Two lives of the sender are assumed to share no Identification (`LivesApart`, part of
`TransferSpec` and so of the run); `TailMax`, which bounds the slices, is no smaller than what the
peer limits of `Configs` let through (`TailMaxAssumption`). The code does not ensure `LivesApart`:
a restarted peer starts from a random seed, or the caller's, and counts up from there, so its
Identifications may run into those of the life before. `docs/plan/steps/18-rfc9868-audit-remediation.md:23`
asks for low reuse of the seed, and leaves uniqueness to callers who choose Identifications.

| Theorem | States |
|---|---|
| `TransferInvariance` | `[]TransferInv` |
| `OnlySentDelivered` | `TransferSpec => DeliversOnlySent`, for every configuration, size and number of sends |

**`SenderProofs`** First `udpopt-send`. `IInv` describes a run between any two of its steps. `WireOK`:
every finished send is on the wire in the order asked for, and of the one under way a first part, the
rest of which is in `order`. `RowsOK`: the manifest has one row for each finished send, with the
sequence number and the Identification of its packets. `IdsOK`: the Identifications of the rows
increase. `ControlOK`: where the program stands, and that whatever was written has passed every
check. Killing the process changes none of these.

| Theorem | States |
|---|---|
| `ManifestRecordsWritten` | `[]ManifestHonest` |
| `SuccessMeansWritten` | `[]ExitMeansSent` |

Then the TLV iterator. `IterInv` is a type invariant and `ItemsTile`. A new option begins where the
last one ended (`AppendKeepsTiling`), and the checks of `Framing` keep it inside the bytes
(`FramingInside`).

| Theorem | States |
|---|---|
| `ParserTiles` | `[]ItemsTile`, for all bytes |

Then the serializer with the iterator behind it, for options of any number and length.

* `Recursion`: a recursion over the places of a sequence has a solution, shown by the least place up
  to which it would have none. It unfolds `MeasuredLen` and `Written` one option at a time; with it `WrittenAsMeasured` says that after each option the
  encoding loop has written as many bytes as `serialized_body_len` measured.
* `CanonicalOrders`: the stable sort is a bijection that puts lower ranks first and keeps the order
  of equal ones. `PatchedOption` and `SameMeasure`: patching FRAG changes its start only, and no
  length, so the measure taken before it still holds.
* `BodyLaidOut`: the options lie in the body at even places, each in the one of the two forms that
  its length asks for, with a NOP in every gap and EOL at the end (`Laid`). `TypedWireForm`: what a
  typed option encodes to decodes to itself.
* `FinishSerializes` sums this up: the body `finish()` returns is that of the options pushed
  (`SerializedAs`), laid out.
* `CodecInv`, the inductive invariant, says that the iterator has yielded exactly the first k options
  and stands behind the k-th, behind the NOP that follows it, or behind EOL. `FramingReads` says that
  `next()` at the beginning of an option of either form frames that option, so every step of the
  iterator (`ReadsEol`, `ReadsNop`, `ReadsOption`) keeps the invariant and none of them fails.

What these lemmas need of numbers and finite sets is their hypothesis `CountingLaws`, which `LawsHold`
proves from the library's theorems at the end of the module; until then these stay out of sight of
the provers. When the iterator has reached the end all options are yielded, and the bijection `RoundTrip` asks for is that of the sort after
that of the places.

| Theorem | States |
|---|---|
| `RoundTripHolds` | `CodecSpec => []RoundTrip` |
| `CodecTiles` | `CodecSpec => []ItemsTile` |

**`UdpoptRecvProofs`** First `RawReceiver` by itself, whose callers also go on after an error and
set the timeout anew. `TimeoutKept`: during a call the user's timeout is in `saved`. `DeadlineKept`:
a read is armed with the time left or with the floor and never with zero, and only the read in
which the deadline falls goes beyond it; the time it was armed with is `waited + left - over`, at
least one tick, so it ends less than the floor behind the deadline. Then the run around it.
`RunInv` adds what `recv()` is about to return (`ResultOK`), that the timeout of the run is the one
it works with (`CallTimeout`), when a run may stop (`StopOK`), that a failure sets the flag
(`ErrorsOK`), and `EveryMatchReported`, which is inductive with these: the matching datagrams that
arrived are, in this order, those printed, the one in hand and those queued, whose places are found
by counting the matching ones in each prefix of the queue.

| Theorem | States |
|---|---|
| `DeadlineHolds` | `[]WaitBounded`, for every timeout, unit and floor |
| `TimeoutRestored` | `[]TimeoutSurvives` |
| `RunUsesReceiver` | `RunSpec => Spec`: a run uses the receiver as its specification allows, so the two theorems above hold in it |
| `MatchesReported`, `SuccessHonest` | `[]EveryMatchReported`, `[]ExitHonest` |

**`WireProofs`**, on top of **`DatagramProofs`** The checksum accumulator, and the bytes of a
datagram from `assemble_datagram` to `process_datagram`, for contents of any length.

`SumInv` says that the accumulator stays within 16 bits plus a carry and is congruent to `total`
modulo 0xffff, and zero only if `total` is: the fold of `add_u16` keeps both. From this follows the
value `sum()` returns, and over the words of a byte string (by the least word at which it would
fail) that a sum is that of all its words, and that changing one word changes it.

What the datagrams need of the three checksums is `ChecksumLaws`, eight laws: what `fill`,
`compute` and `compute_checksum` store verifies, zero included, and a changed byte, a changed word
or a changed port does not. `WireProofs` proves the laws from the arithmetic (`LawsHold`).
`DatagramProofs` derives the rest from the laws, and from where each byte lies:

* `Carries` says which bytes a datagram consists of; `assemble_datagram` makes one that carries the
  user data and the surplus area (`Assembled`), and what `process_datagram_inner` makes of it is
  `Received`, a function of the two;
* `Sent` adds the faults of `udpopt-send` and the path: the pad, OCS and UDP checksum asked for, an
  IPv4 header of 20 or 24 bytes, trailing bytes. `SentInv`, the inductive invariant, says that what
  is on the path is `Sent` as long as it is not damaged; `DispositionMatrix` follows case by case;
* `DamagedInv` says that a datagram damaged outside its lengths is `Sent` but for one byte
  (`Hurt`). A byte of the IPv4
  header is noticed by its checksum, a byte of the UDP header or the user data by the
  UDP checksum, a byte of the area by the OCS.

`DamageNotTrusted` leaves out damage to the length of the IPv4 header or to the UDP length, which
`damaged` tells apart. With another length other bytes are summed, and whether the sum comes out
right depends on the content: the user data 255, 251 under a UDP length damaged from 10 to 8 is
delivered as no data.

| Theorem | States |
|---|---|
| `SumCorrect` | `[]SumIsOnesComplement` |
| `StoredVerifies` | a checksum stored by the sender, zero as 0xffff, makes the receiver's sum 0xffff |
| `ChangeDetected` | two words that both verify in the same place are equal, or are 0 and 0xffff |
| `LayoutsCorrect`, `DispositionCorrect` | `[]LayoutsAgree`, `[]DispositionMatrix` |
| `DamageSeen` | `[]DamageNotTrusted` |

Only model-checked:

* all liveness (`EventuallyReclaimed`, `SplitReturns`, `RunEnds`, `EventuallyReassembled`), which
  needs fairness and `ENABLED`, out of reach of this version of the prover;
* `GenuineNeverAborts`: that no fragment the sender made meets a limit of the receiver depends on how
  many fragments a set has, which the cache counts and the invariant above does not.

## Findings

`cache_duplicates`: FR-32 (`docs/requirements.md:100`) says that "byte-identical fragments with
identical per-fragment options are treated as no-op packet duplicates". A non-terminal fragment
without data is not stored (`frag/reassembly.rs:403`), so a second copy is not recognised and
counts against `max_segments`. `DataDuplicateIsNoOp` states what does hold: duplicates of terminal
fragments and of fragments with data are no-ops. The splitter never makes an empty non-terminal
fragment (`SplitTiles`), so `GenuineNeverAborts` is not affected.

Met while modelling, without a document that clearly says otherwise:

* an empty terminal fragment followed by one with data and the same end is accepted, in the other
  order the set is aborted (`frag/reassembly.rs:384-394`);
* a datagram already read is lost when the restore of the timeout fails
  (`socket/recv.rs:141-145`, accepted in a comment there);
* a required option that precedes an UNSAFE option satisfies the policy although data and options
  are withheld (`recv/pipeline.rs:323-334`);
* a restarted sender may repeat Identifications: `FragTransfer` assumes that its lives share none
  (`LivesApart`), where the code has a random seed or the caller's;
* `patch_frag_start` (`options/serialize.rs:155`) checks the FRAG start before it looks for a FRAG
  option, so `finish()` refuses bodies of 65528 to 65534 bytes without one with
  `FragmentStartTooLarge`. No datagram is affected: with its headers such a body exceeds the IPv4
  Total Length.

## Not modelled

* CRC-32C (`Apc::compute` and the check of APC): a library function; the models take its result.
* Argument syntax, the texts printed by the command-line tools, logging, and the platform stubs for
  systems other than Linux.
* `Peer::recv` as one module. Its two halves share nothing but the datagram handed over:
  `RawReceiver` is the first, `RecvPipeline` the second.
* Concurrent `recv` calls on one receiver, which the code declares unsupported.
* The Lean formalisation, fuzz targets, examples (among them `wire_probe`), scripts and tests.

## Plan

Built, in this order: cache, splitter, their proofs, sending peer, end-to-end composition with the
abstract service, raw receiver, option loop and pipeline; checksum and option codecs with proofs,
wire layer, command-line tools; proofs about sending peer, raw receiver, command-line tools, options
of the cache, receive pipeline, the refinement of `DatagramService`, the bytes on the wire and the
option codec.

Next: a transfer in which the fragments pass through the pipeline, so that the OCS and the options
of the fragments are part of the service.
