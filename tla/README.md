# pgais in TLA+

TLA+ models of pgais (`aislib`), a C++17 library that decodes AIS messages out of
NMEA 0183 sentences and encodes them again; TLC configurations that check the
models on small instances; and TLAPS proofs about all the stateful parts and the
message codec, from the characters of a line to the fields of a message. Paths below are relative to
the repository.

## 1. The system

A caller owns a feed of text lines and runs this loop (`README`, Usage;
`include/aislib/sentence.h:209`):

    line --Sentence::parse--> Sentence --SentenceAssembler::feed--> AssembledMessage
         --MessageRegistry::decode--> Message --Message::encode--> payload

Nothing in the library runs by itself: there are no threads, timers or callbacks
but the decoder functions in the registry. State outlives a call in two places
only: the assembler's map of partial sequences, and the registry's table of
decoders, which is one per process. Concurrency comes from outside: many
transmitters share one feed, and callers may have threads.

| Component | State | Operations | Talks to | What makes it correct | Model |
|---|---|---|---|---|---|
| Error handling (`error.h`, `error.cpp`) | none | `Result<T>`, `Error`, codes | all | a call has exactly one outcome, with the code its documentation names | outcomes are values in all modules |
| Bit engine (`bitfield.h`, `bitfield.cpp`) | `BitWriter`'s growing buffer | `read_*` at an offset, `write_*` at the end | message classes | a read gives the bits written there; no read beyond the end; the buffer is padded with zeros; texts survive padding and stripping | `BitReader`, `BitWriter`; as used by the classes, `MessageCodec` |
| Payload codec (`payload.h`, `payload.cpp`) | none | `decode_payload`, `encode_payload` | registry, message classes | inverse to each other up to fill bits and byte rounding | `PayloadCodec`, `PayloadTransfer`, `MessageCodec` |
| Sentence parser (`sentence.h`, `sentence.cpp`) | none | `Sentence::parse` | the caller | only well-formed sentences exist; damage is noticed; the error names what is wrong | `SentenceParser`; its range, `Sentences` |
| Sentence assembler (same files) | `sequences_`: seq_id -> partial sequence | `feed`, `reset`, `pending_count` | the caller | messages are whole and unmixed; a refused part has no effect; undamaged messages get through | `SentenceAssembler`, `Reassembly`, `AisFeed`, `StationFeed`, `PayloadTransfer` |
| Message base and registry (`message.h`, `message.cpp`) | `decoders_`: type id -> function, shared by the process | `register_decoder`, `decode`, `has_decoder`, `clear` | codec, classes | a payload goes to a class that knows its type; no null pointer is called; what callers were told stays true | `MessageRegistry`, `DecoderTable`, `MessageCodec` |
| Decoder registration (`registry_init`) | none | `register_all_decoders` | registry | the table is complete and right; may be called again, by several threads | `MessageRegistry`, `MessageCodec` |
| Message classes 1-3, 4/11, 5, 9, 10, 18, 19, 24, 27 | immutable fields | `decode`, `encode`, accessors | bit engine, codec | reading inverts writing; the length test covers every read; positions mean the same in each class | `MessageLayouts`, `MessageCodec`, `PositionReports` |
| Tests, build, CI | - | - | - | - | not modelled |

The other message types and the PostgreSQL extension that the repository's README
announces do not exist in the code.

### What is hard about it

`PROJECT.json` lists the hazards with the line at which each one bites. In short:

- *Interleaving, loss, repetition, reordering* of sentences. `feed()` identifies a
  sequence by its seq_id (0..9), and compares only part count, sentence type
  (VDM/VDO) and index of a later part. It never evicts anything by itself.
- *Stale state*: a sequence whose rest was lost holds its seq_id, and the next
  message with that seq_id is refused, or completes it.
- *Restarts*: `reset()` is the only way to forget; parts still on their way when it
  is called must not be taken for another message's.
- *Twice-written layouts*: each class has the same bit layout as a list of widths
  (`encode`) and as a list of offsets (`decode`), 9 classes, about 130 fields; one
  wrong number shows only for values that use the bits concerned.
- *Boundaries*: lengths are rounded up to bytes, fill bits are 0..5, one length test
  per class stands for the bound of every read.
- *Bits set by OR*: `push_bit()` never clears one, so each write depends on what all
  writes before it left in the last byte.
- *Lines damaged on their way*: the checksum is looked for at a '*' whose position may
  itself be damaged.
- *A table for the whole process*, written and tested without synchronisation, in loops and
  in two steps (test, then call).

## 2. The modules

| Module | What it is |
|---|---|
| `Result` | `Result<T>`: a value or an error. |
| `Sentences` | The values that pass between parser, assembler and caller: the set of sentences `parse()` can return, `AssembledMessage`, the results of `feed()`. |
| `Reassembly` | Abstract specification: what an assembler promises, without the part table, the counters and the order of tests. |
| `SentenceAssembler` | `feed()` and `reset()` as in `sentence.cpp`, one action per outcome of `feed()`. |
| `SentenceAssembler_proofs` | Type correctness, the safety invariant, and the refinement of `Reassembly`. |
| `Traffic` | Transmissions, their sentences and the message each should become. |
| `AisFeed` | The assembler behind a medium that may do anything, with identifiable transmissions. |
| `AisFeed_proofs` | No message is spliced and no sentence serves twice, for every traffic and every medium. |
| `StationFeed` | The assembler on a live feed: stations that send in order and reuse seq_ids, faults, resets, and liveness. |
| `StationFeed_proofs` | The safety properties of that feed, for any stations whose seq_ids tell their messages apart. |
| `MessageLayouts` | The two tables of each message class: what `encode()` writes, what `decode()` reads. |
| `MessageCodec` | `decode_payload`, registry, `decode`, `encode`, `encode_payload` for all classes, on symbolic bits. |
| `MessageCodec_proofs` | Every read is in range, fields are restored, messages survive, for every payload; positions mean the same in every class. |
| `DecoderTable` | Abstract specification: a table of decoders of which every call sees one state. |
| `MessageRegistry` | The registry as threads use it, one action per access to `decoders_`. |
| `MessageRegistry_proofs` | No null call, promises kept, and the refinement of `DecoderTable`. |
| `SentenceParser` | `parse()` with its helpers, and lines that are written, damaged and parsed. |
| `SentenceParser_proofs` | Of any text `parse()` makes an error or a well-formed sentence, of an intact line what the rules say that it enforces, and of a damaged one no other sentence. |
| `BitReader` | The reads of `BitReader` and the text alphabet, as operators on bytes and bits. |
| `BitWriter` | The writes of `BitWriter`, one `push_bit()` after the other. |
| `BitWriter_proofs` | Every field is read back. |
| `PayloadCodec` | The armour alphabet, `encode_payload`, `decode_payload`. |
| `PayloadTransfer` | Codec, transmitter, assembler and codec again, bit by bit. |
| `PayloadTransfer_proofs` | `decode_payload` inverts `encode_payload`; the exact bits of a message arrive. |
| `PositionReports` | The accessors for positions, over the classes that have one. |
| `MC...` | Instances for TLC. |

`AisFeed` and `StationFeed` compose `SentenceAssembler` with `Traffic`: their actions
conjoin `Feed` or `Reset` with what the medium and the caller do. `PayloadTransfer`
composes `SentenceAssembler` with `PayloadCodec` and so with `BitReader`. `MessageCodec`
composes codec, registry, classes and bit engine on symbolic bits, and `PositionReports`
takes the layouts of `MessageLayouts` for numbers.

### SentenceAssembler

`sequences` is `SentenceAssembler::sequences_`; a record is a `PartialSequence`, with the
same fields. `result` is what the last call returned. `Feed(s)` is the disjunction of
nine actions, in the order of the tests in `feed()`:

| Action | Path through `feed()` |
|---|---|
| `FeedSinglePart` | `part_count == 1`: returned at once, whatever its seq_id |
| `FeedOpen`, `FeedNotFirst` | seq_id not in the map: part 1 opens it, any other is out of order |
| `FeedCountMismatch`, `FeedTypeMismatch` | part count, then type, differs from the sequence's |
| `FeedDuplicate`, `FeedGap` | index at most, or more than one above, what was received |
| `FeedMiddle`, `FeedFinal` | stored; the last one concatenates and erases |

Payload strings are opaque, and the payload of a message is the *sequence* of strings
that were concatenated, so that a property can say where each came from. The
channel is left out (nothing reads it); so are the two errors of `feed()` that no
sentence can cause because `parse()` returns none with a count of 0 or without a seq_id
(`Sentence`'s constructor is private).

### AisFeed and StationFeed

Both model the caller's loop: errors and `nullopt` are passed over, a message is kept in
`delivered`. In `AisFeed` any sentence of any transmission may arrive at any moment, any
number of times, and `reset()` may be called at any moment: every medium is a special
case. `DistinctKeys` is its one assumption: no two multi-part transmissions agree on
seq_id, part count and sentence type. The history variable `heard` counts, for each
transmission, the sentences from its first on that have arrived in order since it was last handed
to the caller or the caller reset. `StationFeed` drops that assumption and instead
has an order: a station (`at[st]`) sends its script message by message and part by part;
`Receive`, `Repeat`, `Lose`, `Disconnect`, `Reconnect` and `Timeout` are what happens to it.
`Repeat` brings only the sentence that the station sent last: a second copy, or a late one if it
was lost. Older sentences come back in `AisFeed` alone. `damaged`
collects the transmissions that a fault or a reset has touched. `SeqIdsTellApart` is what
a receiver that goes by the seq_id needs: each transmission is made once, and either no
seq_id serves two multi-part messages (`FreshSeqIds`), or each station keeps to its own
(`OwnSeqIds`) and no sentence is lost while the feed is up. `Reconnect` and `Timeout`
call `reset()`, as `include/aislib/sentence.h` says a caller should.

### MessageCodec

`received` is the payload, `decoders` the registry's table, `result` the outcome of
`decode()`, `encoded` that of `encode()`. Bits are symbols: `<<"received", i>>` is the i-th
bit that arrived, and only type ids, part numbers and the ends of texts are constants.
One symbolic payload stands for all that share these, and a bit that is lost, moved or
taken for another is seen. `Writes` and `Reads` take a class to its tables in
`MessageLayouts`, which follow the statements of its `encode()` and `decode()` one by one,
with the width of the member that holds the value in between (`Resized` is the
conversion). `Init` chooses what arrives: payloads as encoders write them, cut or extended
ones with each fill count, ones with another class's type id, ones with a character
outside the alphabet, and the empty one. `Forward` sends the encoding on to a receiver. No
message can be built but by a `decode()`, the constructors being private, so `encode()` is
checked on exactly the messages it can meet.

### MessageRegistry

`decoders` is `decoders_` without the unused entry 0; `pc`, `call`, `read` and `next` are the
threads' program counters and local variables. `register_decoder()` and `has_decoder()`
access one entry and are one action each. `register_all_decoders()` and `clear()` are loops
(`RegisterNext`, `ClearNext`). `decode()` is three steps: `Decode` (the type id is read
from the payload), `Lookup` or a refusal (the entry is tested), and the call, through the
pointer that was tested (`Invoke`) or through one that is read again (`Reload`): the source
names the entry twice, and a compiler may read it once or twice. `promised` is a history
variable: the types that a caller has registered or that `has_decoder()` has affirmed.

The callers' rule of `message.h:264`, that nobody uses the registry during `clear()`, is kept
(`Alone`, `MayUse`). The rule of `message.h:206`, that all registration precede decoding, may
be broken: then the program has a data race, which the model resolves to the outcomes of
a machine that reads and writes pointers whole and in one order. `register_decoder()` of a
null function, which no code does, and of a type id out of range, which asserts in debug
builds, are left out.

`DecoderTable` has none of this: `clear()` empties the table when it is called, a decode is
settled at one moment between call and return. The refinement shows an entry as null
from the moment `clear()` begins although the loop has not come to it.

### SentenceParser

A line is a sequence of characters. A transmitter writes seven or so fields, good or bad
(`fields`), with a correct checksum and with or without an end of line; `Garble`, `Drop`, `Cut` and
`Join` happen to the line; `Parse` calls `parse()`, whose checks are in `FrameError` and `FieldError` in the order of
the source, because the order decides which error is reported. `Blame` has the rules of `sentence.h`
read independently, a set of errors that would be justified, with the values of numerals
looked up in a table. One of these rules `parse()` does not enforce, that a single-part
sentence has no seq_id: `Overlooked` names it, and `Enforced` are the others. The exclusive or of the codes is given bit by bit: a bit is set if an odd
number of the characters have it (`Parity`).

### BitReader, BitWriter, PayloadCodec, PayloadTransfer

A byte is a function from the distance to its most significant bit, a 64-bit integer
one from the weights of its bits, so that no arithmetic of TLC limits a width. Characters
are codes. `push_bit()` is an action of its own (`Push`), so that properties hold in the
middle of a field too; `writing` is the field under way, `written` the set of the fields
that are complete, each with the offset it began at.

In `PayloadTransfer` two stations encode a buffer, cut the characters into sentences at
any places, give sentences before the last any fill bit count, and interleave; the caller
decodes what the assembler returns.

### PositionReports

`vessel` is where a vessel is, in tenths of a degree; `Report(class)` puts it into the fields
of a class, in the class's unit, and `message` is what a receiver's `decode()` makes of it,
with the widths and signs that `MessageLayouts` has for that class. A coordinate that an
accessor returns is an exact quotient of integers; the code's is the nearest double.

## 3. What the runs check

| Run | Bounds | States | Result |
|---|---|---|---|
| `assembler` | 2 seq_ids, 2 talkers, 1 payload besides the empty one, up to 3 parts, 1 fill count; symmetric in ids and talkers | 3200 | pass |
| `arbitrary_medium` | 5 transmissions on 2 seq_ids, three of which share one | 27624 | pass |
| `lossy_feed` | 2 stations, 5 messages of 1 to 3 parts, any losses, 1 repetition | 17097 | pass |
| `reconnecting_feed` | the same, seq_ids reused by each station, outages, timeouts, 1 repetition | 19754 | pass |
| `reused_seq_id` | the same, losses only | - | violation |
| `codec` | every class and type id, every part number, 6 texts; 30 characters shorter to 2 longer with every fill count; all type ids 0..28 on every layout | 18768 | pass |
| `truncated_payload` | as `codec` | - | violation |
| `decoder_registry` | 2 threads, 3 types of which 2 are registered, 2 decoders, 4 type ids from 0 to beyond the end; symmetric in threads | 39263 | pass |
| `sentence_parser` | 8960 combinations of good and bad fields and 4 odd lines, with and without end of line; 3 lines with one damage: any of 36 characters in any place, any loss, cut or join | 67808 | pass |
| `bit_writer` | 3 fields of all kinds: 3 words, widths 0, 1, 7, 64, 65, 4 texts of 0 or 2 characters, raw runs from 0 or 9 bytes | 765672 | pass |
| `payload_transfer` | 2 stations, all 64 six-bit values and lengths 1 to 18, up to 3 sentences each, 2 intermediate fill counts | 288697 | pass |
| `position_reports` | 6 classes, 5 longitudes, 4 latitudes, 2 altitudes, each also unknown, 7 raw numbers | 52200 | pass |

**assembler** (`MCSentenceAssembler.cfg`). `TypeOK` includes the range of seq_ids that bounds the map.
`SequencesInProgress`: an entry is strictly between its first and its last part, so that
`parts[part_index - 1] = ...`, which has no bound of its own, stays inside the table.
`ImplementsReassembly`: each call is a step of the abstract specification; messages are
made of the parts accepted since the slot was opened, a refused part changes nothing, no
call touches another seq_id. A step does not show which sentence was fed, so this alone
would admit an answer that is right for some other sentence.
`CallsMeetReassembly` closes that gap: whatever sentence is fed in whatever
state, the answer and the effect are those of the abstract specification for that very
sentence.

**arbitrary_medium.** `OnlyTransmittedMessages`: what is delivered is a transmission,
whole and unmixed, with its own talker, flag and fill bits. `SequencesAreUnmixed` is the
reason: what a sequence holds are the first parts of one transmission. The instance
has transmissions that only the count, or only the type, keeps apart.
`NoSentenceServesTwice`: a message is handed on only when all its sentences have arrived, from
the first to the last, since it was handed on before and since the last `reset()`. More
cannot be said: `feed()` erases a finished sequence (`sentence.cpp:378`) and remembers nothing,
so a message whose sentences all arrive again, the sentences 1 2 1 2, or 1 1 of a single one, is
delivered again.

**lossy_feed.** Seq_ids are fresh. `IntactMessagesDelivered`: a fault costs the message
it touches and no other. `OnlyDamagedMessagesLinger`: an undamaged message leaves nothing
behind. This rests on repetitions that directly follow: were the first sentence of a finished
message to come once more, it would open a sequence that nothing completes.
`EveryMessageAccountedFor` (liveness): in the end every message is delivered or damaged.

**reconnecting_feed.** Stations use one seq_id over and over. If sentences are only lost
while the feed is down, and the caller resets when it is back, nothing is spliced and
nothing is lost that was not touched, with or without resets by a timeout.

**codec.** `EncodeRestoresPayload`: encode inverts decode, bit by bit, for every class;
texts may lose blanks at their end. `RoundTrip`: a forwarded message is decoded to
itself, texts included. `NoReadOutOfRange`: the single length test of a class covers
all its reads for any payload. `DispatchMatchesType`: after dispatch a class refuses a
message for its type only if it is a type 24 report with a reserved part number.
`TypeOK` includes that encoders use 0 to 5 fill bits.

**decoder_registry.** `NoNullCall`: between `decode()`'s test and its call the pointer does not
become null, even if it is read again, because registration only replaces pointers by
pointers. `PromisesKept`: a type that was registered, or found registered, stays so for every
thread until `clear()`, also while a second `register_all_decoders()` runs.
`ImplementsDecoderTable`: all calls look atomic. So breaking the rule of `message.h:206` costs, on
machines with whole pointers, at most a decode with the previous decoder.

**sentence_parser.** `GrammarDecides`: exactly the lines that keep to the rules of `sentence.h`,
the overlooked one apart, are accepted, with the numbers they spell, and an error names a rule
that is broken. `TypeOK`: every
sentence that comes out is in `Sentence`, the set the assembler's models start from, so that
they leave no sentence out. `DamageIsDetected`: one damage gives an error or the sentence that was
written. (It gives the latter where the damage does not matter, as when the start '!'
becomes '$' or a checksum digit changes its case.)

**bit_writer.** `PaddedWithZeros`: after every single bit the buffer has as many bytes as it
needs and zeros at its end, without which later writes and the padding that `bitfield.h:212`
promises would be wrong. `FieldsReadBack`: all fields of all kinds, at whatever alignment
the ones before them leave, are read back, cut to their width, with their sign; widths 0
and 65 are refused and leave nothing behind.

**payload_transfer.** `ExactBitsArrive`: the caller has exactly the bits of the messages that
are complete, although intermediate sentences had fill bit counts, parts were empty, and
cuts fell in the middle of bytes.

**position_reports.** `LocatedWhereSent`: whichever class a vessel reports in, `longitude()`,
`latitude()` and `altitude_m()` tell its position, or that it had none; the fields are wide
enough, and no position coincides with a "not available" value, of its own class or of
another. `ReportTypeOK`: the numbers that `decode()` reads are within the width of their fields,
also from a transmitter that puts anything into them.

### Are the bounds enough?

`feed()` compares an index with 1, with `received`, with `received + 1` and with the count.
Three parts (`kMaxSentenceParts` is 5 in the code) have a first, a middle and a last
part, a gap and a duplicate; two seq_ids show that sequences do not disturb each other; the
proofs are for any number of either. One payload besides the empty one suffices for the
`assembler` run because feed() never looks inside a payload; the feeds tag each fragment
with its origin instead. One fill count leaves open whose fill bits a message gets: the
transmissions of the feeds differ in theirs, and so do the sentences of `payload_transfer`. One repetition (`MaxRepeats`) may fall on any sentence, so
on each state of the sequence it meets; losses are not bounded. In `codec` all widths are
the real ones, and nothing about a class's layout is bounded. `Changes` goes from one
character of most layouts, which shows each class's tests of short payloads, to two
characters too many.

In `decoder_registry` a race needs two threads, and an entry has one of two functions or
none; three types give a loop a first, a middle (never registered) and a last entry; the
proofs are for any number of each. In `sentence_parser` each field has a value for each side of
each test on it, and all combinations are tried; lines of one damage (`ExposedLines`) are what a
checksum of exclusive or can promise to detect, two damages it cannot (`MaxFaults`). In
`bit_writer` the widths are the ends of the range and one in the middle that leaves every
alignment behind after up to three fields (`MaxFields`); the theorem is for any fields. In
`payload_transfer` one station has every character value, and lengths on either side of
a byte and of a character; the armour theorems are for any length. `Positions` has the
ends of the ranges, zero, the smallest negative number and the one place (91.0 degrees
east) at which a longitude is another field's "not available".

The station feeds, `PayloadTransfer` and the lines of `SentenceParser` stop when everything is
sent or parsed, and `BitWriter` when it has `MaxFields` fields, hence `CHECK_DEADLOCK FALSE` there.
All other runs check for deadlock.

### Fairness

Only `StationFeed` states fairness, for `EveryMessageAccountedFor`: weak fairness of
`Receive(st) \/ Lose(st)` for each station, that is, the caller's loop goes on to take the
next sentence, which then arrives or is lost; and of `Reconnect`, that is, an outage ends.
There is none on `Repeat`, `Disconnect` or `Timeout`, and none that favours `Receive` over `Lose`.
The library itself makes progress in each call.

### What the code and its documentation disagree about

Two are runs that end in a counterexample:

1. `reused_seq_id`: one sentence lost, and the message that uses the seq_id next is
   completed with, or completes, the stale sequence: the caller gets a splice of two
   messages without an error. A TODO at `src/core/sentence.cpp:304` knows the case of two
   transmitters; one is enough. `arbitrary_medium` and `reconnecting_feed` show the two
   conditions under which it cannot happen.
2. `truncated_payload`: payloads up to seven bits too short are decoded, with zeros for
   what is missing, because `bit_length()` is rounded up to bytes.

The others are plain from a definition, which has what the code does; no run is spent on them:

3. `FeedCountMismatch`: `feed()` says `MultipartCountInvalid` when a part's count differs from the
   open sequence's, where `sentence.h:253` says the count is 0 or too large.
4. `Msg5Writes`: the writes of type 5 add up to 425 bits and not to 426, against the count in
   `msg05.h:85`; the missing bit is taken from the byte's unused end.
5. `FieldError`: `parse()` returns four errors that its documentation (`sentence.h:74`) does
   not list.
6. `FrameError`: a line without '!' or '$' is refused, which `sentence.h:66` calls optional.
7. `FieldError`: `parse()` lets an intermediate part have fill bits, which `sentence.h:110` says
   are always 0; `payload_transfer` shows that the assembler is right to pass over them.
8. `Overlooked`: `parse()` accepts a single-part sentence that has a seq_id and stores it, where
    `sentence.h:28` has the field empty, `sentence.h:96` says `seq_id()` is nullopt, and so does the
    comment at `sentence.cpp:229`. `feed()` never looks at it (`FeedSinglePart`), so nothing comes of it.
9. `ChannelOf`: any character is taken for the channel, where `sentence.h:101` says 'A' or 'B'.
10. `read_bits` refuses more than 64 bits; `bitfield.h:113` says an arbitrary run.
11. `Decode` of `PositionReports`: types 1 to 3 validate no field value, against `msg1_3.h:93`,
    and return coordinates outside the range that `msg1_3.h:158` gives.

Smaller ones, seen while reading and not checked by a run: `feed()`'s list of errors
(`sentence.h:248`) leaves out `MultipartTalkerConflict`; `MessageRegistry::decode()`'s leaves out
`MessageDecodeFailure`; the registry's own test for a payload too short for a type field
cannot fail; `msg24.h:45` says that a Part B has a mothership MMSI other than 0, which
`decode()` always sets to 0; `bitfield.h:235` and the comment in `ais6bit_to_ascii()` say that value
63 is shown as '_', and the code gives '?', as its test expects.

## 4. What is proved

| Theorem | Module | Says |
|---|---|---|
| `TypeCorrect` | `SentenceAssembler_proofs` | `Spec => []TypeOK` |
| `AlwaysInProgress` | `SentenceAssembler_proofs` | `Spec => []SequencesInProgress` |
| `Refinement` | `SentenceAssembler_proofs` | `Spec => ImplementsReassembly` |
| `EachCallRefines` | `SentenceAssembler_proofs` | `Spec => CallsMeetReassembly` |
| `NothingIsSpliced` | `AisFeed_proofs` | `FeedSpec => []OnlyTransmittedMessages` |
| `SequencesStayUnmixed` | `AisFeed_proofs` | `FeedSpec => []SequencesAreUnmixed` |
| `EachSentenceServesOnce` | `AisFeed_proofs` | `FeedSpec => NoSentenceServesTwice` |
| `NothingIsMixed` | `StationFeed_proofs` | `SeqIdsTellApart => (FeedSpec => []OnlyTransmittedMessages)` |
| `IntactAreDelivered` | `StationFeed_proofs` | the same for `IntactMessagesDelivered` |
| `IntactLeaveNothing` | `StationFeed_proofs` | the same for `OnlyDamagedMessagesLinger` |
| `TypeCorrect` | `SentenceParser_proofs` | `Spec => []TypeOK` |
| `GrammarDecided` | `SentenceParser_proofs` | `Spec => []GrammarDecides` |
| `DamageDetected` | `SentenceParser_proofs` | `Spec => []DamageIsDetected` |
| `TypeCorrect` | `MessageCodec_proofs` | `Spec => []TypeOK` |
| `ReadsInRange` | `MessageCodec_proofs` | `Spec => []NoReadOutOfRange` |
| `EncodeRestores` | `MessageCodec_proofs` | `Spec => []EncodeRestoresPayload` |
| `MessagesSurvive` | `MessageCodec_proofs` | `Spec => RoundTrip` |
| `DispatchedByType` | `MessageCodec_proofs` | `Spec => DispatchMatchesType` |
| `CoordinatesFit` | `MessageCodec_proofs` | `ReportSpec => []ReportTypeOK` |
| `VesselsLocated` | `MessageCodec_proofs` | `ReportSpec => []LocatedWhereSent` |
| `TypeCorrect` | `MessageRegistry_proofs` | `Spec => []TypeOK` |
| `NullIsNeverCalled` | `MessageRegistry_proofs` | `Spec => []NoNullCall` |
| `PromisesAreKept` | `MessageRegistry_proofs` | `Spec => []PromisesKept` |
| `Refinement` | `MessageRegistry_proofs` | `Spec => ImplementsDecoderTable` |
| `TypeCorrect` | `BitWriter_proofs` | `Spec => []TypeOK` |
| `BufferIsPadded` | `BitWriter_proofs` | `Spec => []PaddedWithZeros` |
| `WrittenIsRead` | `BitWriter_proofs` | `Spec => []FieldsReadBack` |
| `ArmourOfValue`, `ValueOfArmour` | `PayloadTransfer_proofs` | `armour_encode` and `armour_decode` are inverse to each other on six-bit values and valid characters |
| `DecodeInvertsEncode` | `PayloadTransfer_proofs` | `decode_payload` of `encode_payload`'s result gives the encoded bits, for any buffer and bit length |
| `ExactBits` | `PayloadTransfer_proofs` | `TransferSpec => []ExactBitsArrive` |

They hold for every value of the constants that satisfies the named assumptions:
`SentencesAssumption` (the part limit is a number, the empty seq_id is not a seq_id, the
empty string is a payload), and for the feed `TrafficAssumption` (transmissions have the
fields of sentences) and `DistinctKeys`; for the registry `RegistryAssumption` (type ids are
numbers, the null pointer is no decoder, `register_all_decoders()` names types in range and
functions), for the writer `WriterAssumption` (the types of its arguments). For the parser
`ParserAssumption` says that characters are ASCII and their codes different, that what is written
in a field has no comma, star or end of line, that a line which may be damaged has seven fields,
that the numerals of the table are what the digits spell, that payloads are the strings of the line's
characters, and that the identifiers `parse()` lets through are among those the assembler's models
start from; for the
transfer `TransferAssumption` says that payloads are the strings of characters, that the
messages are ones `encode_payload()` takes, and that each station has a seq_id of its own; for the
message codec `CodecAssumption` gives the types of the texts, type ids and changes of length, and
for the reports `PositionAssumption` says that vessels are on earth, or do not know where.
TLC evaluates these in the runs. `SeqIdsTellApart` is a hypothesis of the theorems about
`StationFeed` and no assumption, because a feed need not keep to it: the run `reused_seq_id` has
one that does not, and there `OnlyTransmittedMessages` fails.

*The assembler.* `TypeOK` is not inductive: from a typed but already complete entry, the
next part would be stored beyond the table. The invariant is `Inv == TypeOK /\
SequencesInProgress`, preserved entry by entry (`InvByEntry`): `OpenedSequence` shows it for the
entry a first part makes, `StoredSequence` for an entry that has got the part that was due,
and `FeedInv` has one step per action of `feed()`. For the refinement an entry is mapped
to the parts it has received (`SlotOf`), and `SlotStored` and `SlotOpened` say that this
commutes with storing a part; it needs `Inv`, since a slot's contents are those below
`received`. `FeedSimulates` then matches each action with one of `Reassembly` for the same sentence (the
five refusals are its one `Refuse`), which gives both `Refinement` and `EachCallRefines`.

*The feed.* `UnmixedInv == Inv /\ SequencesAreUnmixed /\ OnlyTransmittedMessages`. Neither of the
last two is inductive alone: a message is whole because the sequence it came from was
unmixed and held everything before its last part. `StoredIsUnmixed` is where `DistinctKeys` is
used: the part that is due agrees with the sequence in seq_id, count and type, so it
belongs to the transmission whose first parts are there. `NoSentenceServesTwice` needs to know
that the buffer holds no more than was heard: in `HeardInv` a sequence that collects a transmission
has received at most `heard` of its sentences (`ReceivedIsHeard`), so that the part that
completes it is the last one due (`DueIsHeard`, `HandedOnIsHeard`).

*The stations.* None of the three properties is inductive: what is delivered depends on what
the buffer holds, and that on where each station is. `StationInv` says how. Each open
sequence is the first r sentences of a message that its station is sending, or that a
fault has touched (`SequencesHeld`); what is being sent undamaged has all its sentences so
far in the buffer (`UndamagedOpen`). `HeldIsFed` is where `SeqIdsTellApart` is used: the seq_id of an arriving
sentence is free or holds that very message. So a sentence is the next of its message,
one of a message that is over, or a repetition, and `SplitFed`, a lemma about `feed()` that
is proved beside the assembler's invariant, says what is answered to each.

*The registry.* `NoNullCall` and `PromisesKept` are preserved together with two facts about the
loops: `ClearsAlone` (the others are idle, so nobody is between test and call when an entry
becomes null, and nobody is told anything) and `LoopsProgress` (what a registration loop has
passed is registered, so that all of it is when the loop ends and the types are promised;
what a clearing loop has passed is null). Each action has its lemma. For the refinement,
`View` is the table with an entry shown as null while a clearing thread has still to come to it; outside `clear()`
it is the table itself (`ViewIsTable`), during it it is empty (`ViewIsEmpty`), so
that each step of the loop is a stutter. A decode settles at `Lookup` if it goes on to
`Invoke`, and at its return otherwise (`ReturnSimulates`).

*The writer.* `FieldsReadBack` is not inductive: a field under way is not in it, and nothing
is said of the bits that the next write will set. The invariant is `Inv == TypeOK /\
PaddedWithZeros /\ BitsInPlace`, where `BitsInPlace` says of each bit of each field, the one
under way included, that it is where it was pushed to. `PushBitAppends` is the heart: in a
buffer that is zero beyond its length an OR sets the new bit and no other. Then one lemma
for each kind of field says that what is in place is read back (`NumberReadsBack` and so on).

*The codec.* `SixToSendBits` shows the six bits of a character to be those of the buffer or
zero; with `ArmourOfValue` the decoder gets the same six, and `Lengths` has the number of
characters, fill bits and bytes fit.

*The transfer.* `ExactBitsArrive` is not inductive either: `TransferInv` adds that the sentences
of each station that have come so far are what the buffer has in its slot (`OnWay`), and that
those sentences, joined, are the station's payload (`Carries`). `PiecesJoin` says that a
string that is cut anywhere and concatenated is the string; with `SplitFed` the assembled
message is the payload `encode_payload()` made, with its own fill bits, and
`DecodeInvertsEncode` does the rest.

*The parser.* None of the three properties is inductive: a result is right because of the line,
and the line because of what has happened to it. `LineInv` says that the line is text; that
what `parse()` has returned is `parse(line)`; that a line without faults is what was written; and
that a line with one fault is one that `parse()` refuses or reads as the intact line
(`Faithful`). For `TypeCorrect`, what `FrameError` and `FieldError` cut out of a text is text
(`FrameOfText`, `FieldsOfText`), and the tests that come before a value is used leave only the
values of `Sentence`.

`GrammarDecided` rests on three facts about an intact line. Its frame is found
(`FrameFound`, `IntactFrame`): there is one star, what is stripped is the end of the line, and
`parse_hex8()` reads the digits that `compute_checksum()` writes (`ChecksumIs`). Splitting undoes
joining (`SplitJoined`): `FieldRead` adds one field to those that are read, for fields of any
number and length, the empty ones included. And each error that `FieldError` gives is one of `Enforced`
(`ErrorIsBlamed`), while no error leaves nothing to blame (`AcceptedIsBlameless`); there the
test for fourteen characters in the code meets the nineteen that the shortest sentence has, since
seven acceptable fields never make a shorter line (`AcceptedLength`).

For `DamageDetected`, another character in one place, or one character less,
changes the parity of a bit and so the checksum (`ChecksumGarbled`, `ChecksumDropped`: characters
with different codes differ in a bit, and no code is zero, so that the loss of a character is
the loss of a bit). That is not enough, because the frame can be damaged too. `parse()` takes the
last star, and the lemmas go by where that is found in the damaged line: at its old place, and the
old checksum is compared with that of a text with one difference; or elsewhere, a
star that a damage has made or left alone, and then the two characters behind it are no checksum of
what is before it, or not there. In two lines glued together the last star is the second
line's, and should the checksum agree, the first line's star and digits are in the
middle of a field: in the seventh, which then is no number, or in one that `parse()` does not look at
(`JoinIsDetected`).

*The message codec.* The invariant is `CodecInv`: what arrives is characters and a fill count
(`Sendable`); the registry is empty or complete; a decoded message is its class's reading
of the buffer; what was encoded is the encoding of the result; and what was sent on is the encoding
of `origin`. Everything else is about the two tables of a class, in three layers. For each
class a lemma `Layout*` gives the places of its writes and matches them with its reads
(`Matched`); `ClassLaid` puts the header before them. This is where a wrong width or
offset of any of the 130 fields would be found, and `ReadsFit` compares each with the
class's length test. Then `Joined` says that the pieces of a string that is put
together one after the other are found at their places, for any list of pieces, and so
each write at the place of its read; and the lemmas on bits, characters and
bytes carry a bit through `encode_payload()` and `decode_payload()`. Last, a number that fits
its member keeps its bits and its sign, and a text keeps all but its trailing blanks
(`EncodeRestores`); `MessagesSurvive` follows because two buffers with the same fields are
decoded to the same message. One step is about the registry alone: a type id is known by
its six bits and belongs to one class (`ClassesOfTypes`).

*The reports.* `ReportInv == ReportTypeOK /\ LocatedWhereSent`. A position in the unit of a class fits
the width that the layout of the class has for it, so that what `decode()` reads with a sign is what was
written (`DecodedPosition`); it is different from the "not available" value, and `Unavailable` is
written as that value. What the accessor divides by is what the transmitter multiplied with.

*Induction.* The library's induction theorems take an operator as a parameter, which the
provers cannot instantiate. Where a proof has to go along a string, it uses the least
element of a set instead (`WFMin` with `NatLessThanWellFounded`): if some place lacked the
property there would be a least one, and the place before it has it (`Induction`, `AllPlaces`). The
folds of the community modules, which are recursive functions, are proved about in this way.

*Only model-checked*: liveness (`EveryMessageAccountedFor`), which is
out of the provers' reach, and the two runs that end in a counterexample. Every invariant and every
safety property of the passing runs is a theorem. What a theorem assumes of a numeral is what
`ParserAssumption` says: that the table agrees with the digits, which TLC evaluates for the
numerals of the instance.

## 5. What is not modelled

- `Error` and `Result<T>` are containers: their outcomes are values in the models, and
  `message()` is wording. `message_type_name()` likewise.
- Accessors that return a member as it is.
- Memory: what a compiler or a machine may do with a data race beyond the old and the new
  pointer; running out of memory; a reader that outlives its buffer.
- `offset + width` that wraps around 2^64 in `check_bounds()`: no layout has such numbers.
- Bytes that are not ASCII in a line. `parse()` has no test that would treat them specially.
- Tests and build, which have no behaviour of the library.

## 6. Running

    tlc -workers 2 -config MCLossyFeed.cfg MCStationFeed
    tlapm SentenceAssembler_proofs.tla

`PROJECT.json` lists the runs with module and configuration, the mapping from definitions to
source lines, and for each property a mutant: a defect of the code, written as a definition
whose name ends in what is wrong with it (`FeedFinal_Kept`), under which TLC finds the
property violated. These definitions are used by nothing else.
