# Verification of md_prsr

TLA+ models of md_prsr, a C++ library that describes market data messages (Nasdaq ITCH 5.0
in MoldUDP64 blocks, Eurex EOBI 13.0 and 13.1, CME MDP 3.0 schemas 9 and 13) and of its tool
`tools/nasdaq_itch_v5.0`, which reads a file of ITCH messages and counts, dumps or converts
them. TLC checks the models on small instances; TLAPS proves the safety properties and the
refinements for every value of the constants. Paths below are those of the repository.

## Inventory

The program has one thread. What is hard about it is not concurrency but sequences: bytes
that arrive in arbitrary chunks, exceptions at any point of a scope with several destructors,
state that outlives a call, and lengths that come off the wire.

| part | state | operations | hard behaviour | what makes it correct |
|---|---|---|---|---|
| `fake_sequence.hpp` | `begin`, `end`, `seqn_` | cut blocks, call the processor | a block cut at any byte; `seqn_` lives across calls | every block once, in order, numbered |
| `read_directly` (reader.cpp 24-43) | buffer, `leftover` | read, cut, move the rest to the front | chunk boundaries, a block as large as the buffer | the buffer holds the stream from the first undelivered byte |
| `unpack_then_process` (45-89) | temporary file, mapping, `total` | unpack, grow, walk, clean up | growth, order of destruction, a killed process | nothing lost by growing, stores in the mapping, file removed or complained of |
| `process_raw` (91-105) | mapping | walk | truncated file | truncation is reported |
| `run<Processor>` (112-160) | `duration`, the sentry | choose a path, catch, `done` | exceptions between messages | `done` is called with the truth |
| processors (`message_counter`, `message_dump`, `hdf5_writer`, `parquet_writer`) | statistics, `count_`, sinks, output files | construct, one call per block, `done`, destroy | throwing half-way, also half-way through a constructor; a killed process | state and outputs agree with the messages delivered |
| `main.cpp`, `loggers.cpp` | options map, logger | parse, store, set up, run | two sources of options, four ways to set up the logger, exceptions | precedence, one logger, an answer |
| `sbe.hpp` | cursor of a codec | encode and decode groups | lengths from the wire, cut messages, overflow | no wrong message from a cut one, size enough |
| message tables (`messages.hpp` of five versions) | none | `tc::decode`, `tc::encode` | versions that share template ids | one version reads the other's messages |
| `optional.hpp`, `transcoder/timestamp.hpp` | none | scalar codecs | sentinels, 48 of 64 bits, two byte orders | a value arrives as it was sent |
| `describe.hpp` of five versions | none | reflection of the members | order kept by hand, apart from the structs | every member is read where it was written |
| `io.hpp`, `parquet.hpp`, `h5x` | none | text, type mapping | none | not modelled |

How they interact: `main` makes the options and calls `run(options)`, which makes one
processor and calls `run<Processor>`; that picks a reading path; the path calls
`fake_sequence`, which calls the processor for each block; the processor decodes the block
with the codecs. Everything comes back by return or by exception, the latter no further than
`run<Processor>` once a processor exists.

Hazards, with their lines and the properties that cover them, are listed in `PROJECT.json`.

## Modules

    MoldBlock                  the block: header, payload, byte offsets
      Framing                  ABSTRACT: what reading a file promises
      FakeSequence             the loop of fake_sequence, shared by the three paths
        ReadDirectly           => Framing
        UnpackThenProcess      => Framing
        ProcessRaw             => Framing
    MessageCounter             the statistics of message_counter, as operators
      RunProcessor             one processor from constructor to destructor, over whole blocks
      CountFile                ReadDirectly + run<> + message_counter => RunProcessor
    Main                       main.cpp, loggers.cpp, the choice of the processor
    WireMessage                encoder and decoder of one message with groups
    WireLayout                 how the tables write down a message
      ItchV5_0 EobiV13_0 EobiV13_1 CmeV9 CmeV13                      widths (messages.hpp)
      ItchV5_0Describe EobiV13_0Describe EobiV13_1Describe
      CmeV9Describe CmeV13Describe                                   names (describe.hpp)
    WireVersions               WireMessage with all tables
    ScalarCodecs               timestamp_t and optional

    FakeSequenceProofs         the window: lemmas for the three paths
      CountFileProofs          ReadDirectly, and CountFile around it
      UnpackThenProcessProofs  ProcessRawProofs
    RunProcessorProofs  MainProofs  WireMessageProofs  ScalarCodecsProofs

`MC*.tla` with `MC*.cfg` are the instances for TLC and `*Proofs.tla` hold the theorems.
A definition that only differs by a fault from the one below it (`NotMoved` before `Moved`) is
a mutant: with it in place the property named in `PROJECT.json` is violated. None is used by
a specification.

### From code to state and actions

*FakeSequence.* `mem` is the memory the pointers point into; `begin` and `end` are offsets;
`seqn` is `seqn_`; `delivered` records the calls of `proc` that returned. One iteration is
`Process`, `ProcessThrows` or `MessageCut` (which moves `begin` back, line 21); `HeaderCut` is
the end of the loop. A path sets `pc` to `"sequence"` and goes on at `"returned"`.

*ReadDirectly.* `mem` is `buffer`, `taken` is how much of the stream has been read, `leftover`
is `leftover`. `Read`, then the sequence, then `Compact` (memmove, 39-40) or `BufferTooSmall`
(37-38). `ReadThrows` is a damaged archive. The buffer size is the option, raised to 1500
(`MinBuffer`) as in lines 143-145.

*UnpackThenProcess.* `mem` is the mapping. `ReadFull` reads `buffer_size` bytes and resizes;
`ReadShort` and `EndOfStream` end the loop; `ReadOutside` is a read whose bytes do not fit the
mapping, after which nothing is said. `Unmap` and `DestroySentry` are the two destructors in
their order; the second finds that the file cannot be removed, or that there is none, and logs an
error (`complained`). `Killed` is a signal. `OpenThrows` may have created the file before it throws.

*ProcessRaw.* The mapping is the file; an empty file cannot be mapped.

*RunProcessor.* A file is the sequence of its complete blocks, which is what `Framing`
delivers; a block has the type of its message, or none, and may be `longer` than its message.
`Truncate` and `MakeSink` are the constructors of `hdf5_writer` and `parquet_writer`, one
output at a time, and may throw at each; `disk` is what there is of the output for a type,
left over from an earlier run, open, closed or broken. `CheckType` chooses the path;
`CountBlock`, `DumpBlock`, `WriteBlock` are the processors' calls, and end a debug build at
`assert(begin == end)` if the block is longer; `ReaderThrows`, `DecodeThrows`, `WriteThrows` are
the exceptions (a sink may throw before or after it has taken the row); `LeaveTry` destroys
`on_falure_` and passes the handlers; `DoneCounting` and `DoneElse` are `done`; `CloseSink` and
`CloseFails` the destructors, which also run for what a throwing constructor leaves (`pc` is
`"unwind"` then). `Killed` may happen at any time. `info` says whether the log lets records of
severity info through: `message_dump.cpp:11` counts inside the record.

*CountFile.* The tool as it runs by default on an archive, from bytes to report: `ReadDirectly`
with its buffer, the decoder's choice of a type by the first byte of a block and the length
(external), `message_counter`, and the control of `run<Processor>` as `stage`. The
specification is mapped to `RunProcessor` by cutting the stream into its complete blocks
(`BlocksOf`).

*Main.* `vm` maps every option to where its value comes from, as `store` never replaces a given
value; `logger` is the list of set-ups, each with the origin of `verbose` at that time. Both
ways a logger can be set up (from unrecognised options or by default) are one `SetUp`.

*WireMessage.* A message is a layout: template id, size of the fixed part and for each group
the size of its header, the number of values of `numInGroup` and the size of an item. It is
written by this library (`own`, with `blockLength` 0, sbe.hpp 70) or by an exchange, into a room
that may be too small, is cut or not, and is decoded by some version (`reader`). `covered`
records whether every header so far had a `blockLength` at least the item's size and a product
that fits an int; with the tables of the repository it does, for none of their groups counts in more
than 8 bits. Bytes that are no header for the decoder may say anything in `Garbage`. The
fixed part's length check and the dispatch by id belong to the external transcoder library and
are modelled from how this code uses it.

*Tables.* A message is the list of its fields' widths in the order of the struct, padding
marked, composites by name, constants (`static constexpr`) left out. `type_id` are the ids.
EOBI's repeating groups are single components, as in the code; `repeated` says which they are,
and `FromEurex` in `WireVersions` makes of each message the one with any number of entries that
the exchange sends. The `*Describe` modules list for every message, and for every group, the
names of the members as `describe.hpp` gives them to the transcoder. Names and widths were
taken from two files each and are joined in `WireVersions`, where `FieldsOf` says which member
is where. Two EOBI versions or two CME versions share ids and names, so a member described in
the wrong place shows as one that the other version reads from other bytes.

*ScalarCodecs.* A number in memory is a sequence of bytes in the order of the host. `Encode` and
`Decode` alternate, every time on another host, so a value is also decoded and sent on. An
optional has its null value as a parameter (every one there is), a timestamp eight bytes of which
`EncodeTimestamp` sends the last six in big endian order.

## Runs

| run | what it shows | bounds |
|---|---|---|
| `read_directly` | every stream, buffer and cut delivers what `Framing` promises; the buffer is called too small only if it is; the loop ends | two byte values, so `message_size` is 0..3 and blocks 2..5 bytes; streams up to 8 bytes; buffers 2..6, smaller than, equal to and larger than a block |
| `unpack_then_process` | the same by unpacking first; growing keeps the bytes; the temporary file goes, or the log says that it is still there, except for a killed process; the exact limit of the mapping | streams up to 8 bytes, `buffer_size` 6 and 9: no, one, two reads, exact ends, and one too long |
| `unpack_outside` (violation) | such a stream is stored behind the mapping | the same |
| `process_raw` | the same for a mapped file; its type invariant is not run but proved (`TypeCorrect`) | streams up to 9 bytes |
| `run_processor` | statistics, rows, counts and durations agree with the messages, with an exception at every step; no output of an earlier run is taken for one of this, and none stays open | two types and an undecodable block, files up to 3 blocks as long as their messages or up to 2 that may be longer, all processors, debug and release builds |
| `count_file` | the composition of reader, framing, counter and `run<>` does what `RunProcessor` says, ends with a report, and reports what the bytes of the file hold | every stream up to 8 bytes of three values, messages of one and two bytes, blocks with no, a short, an exact and a longer message, buffers 3 and 6 |
| `main` | precedence, one logger, help, an answer | every command line and every configuration file over three options (without default, with, interpreted) and all names of processors |
| `main_advertised` (violation) | the usage lists `snapshot`, which is unknown | the same |
| `wire_message` | codecs stay inside, cut messages are refused, sizes are enough, whole messages decode | two versions of a small protocol that differ in root, item or header, one message of the same sizes in both and one that the older does not have; 0..3 items where `numInGroup` has 2 or 3 values; every cut and room up to 9 bytes; `IntMax` 20 and a `blockLength` of 11, so products overflow |
| `wire_own_cut` (violation) | a cut message of this library is read behind its end | the same |
| `wire_versions` | every message of every protocol, read by its own and the other version, gives every member its value; of EOBI's repeating groups the first entry | empty groups and groups of two, 0..3 entries in EOBI's groups, real widths, names and ids |
| `scalar_codecs` | timestamps and optionals arrive, also over several hosts | bytes of three values: all 6561 timestamps of eight bytes; all numbers of three bytes with every null value; every pair of hosts |

Blocks interact with chunks only by where they begin and end, so blocks of up to five bytes
against buffers of two to six meet every alignment; the proofs remove the bounds.

Deadlock is not checked: every one of these programs ends, and a state at the end has no step.

*Fairness.* One thread runs each function and nothing in it waits, so weak fairness of the
whole next-state relation (of `Run` in UnpackThenProcess, where `Killed` may but need not
happen) is what the scheduler gives. In RunProcessor it is `Step`, everything but `Killed`. It is
used by `Termination`, `AlwaysDone`, `AlwaysReports` and `Answered`; `WireMessage` and
`ScalarCodecs` need none as no liveness is stated of them.

## Findings

1. `reader.cpp:168-171` is commented out while `main.cpp:22` lists `snapshot`.
2. `sbe.hpp:70`: the encoder does not set `blockLength`, so the length check of `sbe.hpp:47`
   passes for every cut message this library wrote. `InsideWhenCovered` states what the check
   is worth: it covers the items when `blockLength` is at least their size.
3. `reader.cpp:72`: the mapping grows by `buffer_size/4` while the next read may store
   `buffer_size` bytes. `OutsideOnlyForLongStream` states exactly when that bites:
   for streams longer than 1.25 times `buffer_size` (that is 3.75 times the archive).

## Proofs

The theorems hold for every value of the constants that meets the named assumptions: any set of
streams of bytes, any byte base, any sizes of buffers and archives, any command lines and
configuration files, any set of message types, any protocol. What is assumed
of the constants is what the code or its types give:

* streams are sequences of bytes, `MinBuffer` (1500 in the code) is at least a block's header, an
  archive has at least the two bytes of its magic;
* types of messages are bytes, no type's size is 0, and what cannot be decoded is no type;
* group headers are not empty and `numInGroup` has at least one value; no two messages of a
  version have the same id (`IdsAssumption`, which TLC evaluates for all five tables); a
  message is no longer than an `int` can say (`MaxSize <= IntMax`; its length is a 16 bit
  number), or the product `blockLength * numInGroup` of a whole message could overflow;
* of the tables, what TLC evaluates for all five of them: a template that two versions share has
  the same name in both, and the same sizes if it is not one of the four in `Regrown`
  (`SharedAssumption`), and what Eurex repeats is the last fields of a message of the reader
  that has one entry, with a name for every width (`RepeatedAssumption`). An error in the tables
  that breaks one of these stops `wire_versions` there.

No set of types need be finite: a sum over them (`ReportIsTrue`) is over the domain of
`messages_`, which is, because a block adds at most one type to it.

**Reading paths** (`FakeSequenceProofs`, the first part of `CountFileProofs`,
`UnpackThenProcessProofs`, `ProcessRawProofs`). `FakeSequenceProofs` has the lemmas about the window: bytes at an offset,
that a header read in the buffer is the header in the stream, that `Process` moves to the next
block and a cut leaves everything in place. `TypeOK` and the named invariants are not inductive
by themselves. The strengthening `IInv` adds, at each control point, the relation between
offsets, `taken` and the stream (at `"returned"`, that no complete block is left in the window;
that `seqn` is one more than the number of deliveries; in `UnpackThenProcess` the exact length of
the mapping after the first and after later reads, and that the sentry has a file to remove once
it has been opened). From it follow `BufferMirrorsStream`,
`TooSmallOnlyForOversizedBlock`, `MappingMirrorsStream`, `OutsideOnlyForLongStream`,
`TruncationReported`, `TempFileAccounted`, and step by step the refinement of `Framing`: each
`Process` is a `Deliver`, the end is a `Stop`, every way of giving up is a `Fail`, all else
stutters. `InsideWhenShort` is the positive side of finding 3: under its hypothesis no store
leaves the mapping.

**Processors** (`RunProcessorProofs`). `IInv` joins the properties with what keeps them true:
where each processor's own count stands (`Counts`), that nobody sets `duration` before the
processing has returned (`Durations`), and that the outputs of an earlier run are gone when
reading starts, one output at a time and in one order for HDF5 (`Sinks`). Two arguments are
about data: that the numbers a type was seen at get one new largest element per block
(`CounterAgrees`, by `LargerAdded`), and that the counts of the types add up to the total that
`done` reports (`SumOfCardinalities`). `DurationCorrect` is an action property: a step out of
the `try` block is the only one that may set the duration.

**From bytes to report** (the second and third part of `CountFileProofs`). `RunRefinement` says
that `ReadDirectly`, `fake_sequence`, the counter and `run<Processor>` together do what `RunProcessor` says over whole
blocks. The mapping cuts the stream into its blocks by a recursive function (`BlocksFrom`). The
invariant that carries the refinement is `BlocksAreNext`: the blocks that are left are those that
start at the first unseen byte, and in the list of all they come right behind those that were
delivered. That the recursive function exists and has values of the right type is proved first
(`BlocksExist`, `BlocksFromType`), by induction on the distance from the end of the stream.

With it the theorems about processors become theorems about the tool. The third part instantiates
`RunProcessorProofs` under the same mapping, proves of the files and the processor what its
module assumes (`RunAssumptions`), and that this instance has the behaviours of the one that is
refined. `FileReportCorrect` is what a user of the tool relies on: wherever the buffer cuts the
file, done() reports how often each type occurs among the blocks of the file and at which numbers
first and last, and if reading came to its end no block is missing from it (`AllDelivered`: at
the end the buffer holds the stream up to its last byte and no complete block).

**main** (`MainProofs`). `IInv` says of every control point where each option's value comes from
(`Stores`: nothing, the command line, or the merge of both sources with the defaults), whether
the logger has been set up and with which `verbose` (`Loggers`), and that nothing is started
without the required options (`Starts`). `Precedence`, `LoggerSetUpOnce` and
`HelpDoesNothingElse` follow.

**Codec** (`WireMessageProofs`). `InsideCorrect` needs that, while items are decoded under a
header that covers them, those still to come fit what is left. The other three need to know what
is where: `Exact` says that at each control point either codec stands where the sum of the sizes
so far puts it (`WireAt`), that the counts it has found are the ones sent, and that a whole
message is not given up. The lemmas `RunningSum*` say what the fold of the sizes is for one more
group. A decoder needs no more than the sizes (`SameSizes`), so `CutIsNotDecoded` and
`WholeMessageDecodes` are about both versions of a protocol: a message that has the same sizes in
both is decoded by both to the same counts, with any number of items, and a cut one by neither.

Of the tables, two theorems follow. `OtherVersionCorrect`: a decoder finds the same message, all
its groups and items, in what the other version has written, with any number of items;
`SharedAssumption` gives the sizes and `Exact` the rest. `FirstEntryCorrect`: however many entries
Eurex repeats, its decoder with one entry gives the first to its members, each where it was
written, skips the others, and throws exactly if there is none. The sizes of a message's fields
are sums by a fold; for the proof they are counted, as the sets of the bytes that the fields take
(`BytesOf`, `SizeIsBytes`), so that a longer list of fields is a larger set (`LongerIsLarger`)
and a prefix of a list has its members at the same places (`FieldsKept`, `FirstEntryKept`).

**Scalar codecs** (`ScalarCodecsProofs`). `Digits` and `Value` are inverse to each other:
`ValueOfDigits` (the last `n` digits of a number say its remainder by the `n`th power of the
base) and `DigitsOfValue`. So a conversion between hosts keeps the bytes (`MemoryOfConverted`)
and reading a host's number in any order gives what these bytes say (`ConvertedNumber`). What is
sent of a timestamp is therefore `Digits(origin, 6)` at every hop, and of an optional the little
endian bytes of the number that stands for the first program's value; this is `IInv`.
`TimestampCorrect` and `OptionalCorrect` hold for every base, so for bytes of 256 values, every
size and null value, and any number of programs on hosts of either order.

**Induction.** The library's induction theorems take an operator as a parameter, which none of the
provers used here can instantiate. Its well-foundedness theorems are about sets, so the
induction rules needed are proved from these, as rules about sets: a set with 0 and all
successors has all numbers (`NatSetInduction`), a set of subsets that is closed under adding an
element has every finite set (`SubsetInduction`), and a set of numbers has a smallest
(`Least`). A recursive function is a `CHOOSE` for the provers, so before anything can be said of
one, it is proved to exist (`Recursion`, `BlocksExist`). A power is a recursive function
(`Power`) because `^` is unknown to them.

**Model-checked only.**

* Liveness: `Termination`, `AlwaysDone`, `AlwaysReports`, `Answered`. The provers have no rules
  for fairness and `ENABLED`.
* `FieldsWhereWritten`: that of the members of a message in two versions, each with its bytes, one
  version has all those of the other. It depends on nothing but the fixed tables, some hundred
  messages, of which TLC's answer is complete; an assumption about the tables that implies it
  would be the property itself.

## What is not modelled, and why

* The meaning of values, enumerations, text and column types (`io.hpp`, `parquet.hpp`, `h5x`): no
  control depends on them, and the conversions are done by external libraries.
* The gzip filter, Boost's mapping, HDF5 and Parquet sinks, the transcoder library: external;
  they are steps that succeed, come short where their interface says so, or throw. So is what
  a sink does with its rows when it closes, and what `filtering_streambuf` does with the stream
  it refers to when that is destroyed before it (`reader.cpp:138-141`).
* Technical headers and the MoldUDP64 packet header: nothing in the repository reads or
  writes them, except `packet_block`, which is in `MoldBlock`.
* Log channels beyond their set-up and the severity filter; tests (they encode and decode two
  messages, and were read for how the codecs are called); build files.

## Plan

Done: the three reading paths with their refinement and proofs; processors with their outputs;
`main`; the composition from bytes to report; codec; all tables with widths and members; EOBI's
repeating groups; the scalar codecs. Proved: every safety property of every module but
`FieldsWhereWritten`, the refinements of `Framing` and of `RunProcessor`, and what the default tool reports of the bytes of a file.

What is left are the parts of "What is not modelled" for which the repository would first have to
have code that depends on them, as the packet headers.
