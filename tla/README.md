# TLA+ verification of Quad4-Software/msgpack

TLA+ models of the Go MessagePack codec in `src/pkg/msgpack`, checked with TLC on
small instances and, for the central invariants, proved with TLAPS for every value
of the constants. Source lines behind each definition are listed in `PROJECT.json`
(`map`).

## Inventory

| Component | State | Operations | What is hard, what makes it correct |
|---|---|---|---|
| Wire codes (`msgpcode`) | none | predicates on a code | every switch over codes must agree |
| Untyped decoding and skipping (`decode.go`, `decode_string.go`, `decode_slice.go`, `decode_map.go`, `ext.go`) | read position, `depth`, `maxDepth`, `rec`, flags | `Skip`, `DecodeRaw`, `DecodeInterface(Loose)`, `DecodeMap`, `DecodeSlice`, `Decode` | recursion with errors at every level; forged lengths; recording across nested reads. A call stops at the end of its value, releases its levels, reserves bounded memory, returns |
| Interned strings (`intern.go`) | one dictionary per side | encode and decode of strings, tagged fields, interfaces, resets | the two dictionaries are never exchanged: they must grow in lock-step |
| Decoder and reader pools (`decode.go`) | `decPool`, `readerPool`, fields of pooled Decoders | `Unmarshal`, `GetDecoder`, `PutDecoder`, resets, setters | concurrency, nesting, panics; calls must not see each other's data or options |
| Encoder pool (`encode.go`) | `encPool`, `appendBuf` | `Marshal`, `AppendMarshal`, `Append`, `PutEncoder` | slices returned to users alias the buffer of a pooled Encoder |
| Readers (`readN`, `readNGrow`, `bufferedLenReader`) | `d.buf`, what `bufio.Reader` holds | code, peek, n bytes in parts | short reads, reading ahead, growth of a reused buffer. Bytes come in order and once, `Len` is exact, a forged length reserves little |
| Numbers and lengths (`encode_number.go`, `decode_number.go`, length headers) | compact flags | narrowest code, conversions between widths, signs and floats | separate switches at both ends, bounds that float64 rounds. What fits arrives unchanged, what does not is refused |
| Time ext (`time.go`) | `timeBuf` | three layouts, four forms read | one reused buffer, bounds at 2^32 and 2^34 seconds, negative times |
| Query (`decode_query.go`) | path, `hasAsterisk`, values | path walk | each level must leave the stream where the level above goes on |
| Registries (`types.go`, `ext.go`, `encode_value.go`, `decode_value.go`) | three `sync.Map`s, which are registry and cache at once | register, unregister, lookup | load, compute, store without a lock; calls of several map operations; the order of first uses must not matter |
| Struct fields (`types.go`, `encode_map.go`, `decode_map.go`) | `Map` and `List` of a type | `getFields`, encode, decode | tags, embedding, shadowing and aliases share one name space; nil embedded pointers |
| Typed values (`decode_value.go`, `decode_slice.go`, `decode_map.go` and encoders) | the destination | decode into slices, arrays, maps, pointers, structs, interfaces | destinations are reused: what earlier messages left may show only in fields that a message leaves out; depth, growth, panics in reflect |

Components interact by calls on one goroutine (everything under one `Decoder` or
`Encoder`), through the byte stream (encoder and decoder dictionaries), and through
process-wide shared state (pools, registries, caches). User code is called back in
custom encoders and decoders and may re-enter the package.

## Modules

| Module | Models |
|---|---|
| `WireCodes` | codes, predicates, length widths and payload sizes |
| `StreamDecoder` | one Decoder on one stream: any sequence of calls |
| `MCStreamDecoder` | its instances, and the MessagePack grammar as an independent recursive reference |
| `StreamDecoderProofs` | its theorems |
| `Intern` | an Encoder and a Decoder at the ends of an ordered stream, with their dictionaries |
| `MCIntern`, `InternProofs` | instances, theorems |
| `DecoderPool`, `MCDecoderPool`, `DecoderPoolProofs` | goroutines over the Decoder and reader pools |
| `EncoderPool`, `MCEncoderPool`, `EncoderPoolProofs` | goroutines over the Encoder pool, with slices and backing arrays |
| `Reader`, `MCReader`, `ReaderProofs` | a Decoder's reads from a source, through its buffers |
| `ByteStream` | the abstract specification of `Reader`: what the other decoder modules assume |
| `Numbers`, `MCNumbers`, `NumbersProofs` | one number or length from a Go type to the wire to a Go type |
| `Time`, `MCTime`, `TimeProofs` | an Encoder's times and other producers' on one stream |
| `Query`, `MCQuery` | one query on one stream; `MCQuery` has the recursive definition of what a path selects |
| `Registry`, `MCRegistry`, `RegistryProofs` | goroutines over the type and ext registries |
| `StructFields`, `MCStructFields` | one struct type: its fields, one value encoded and decoded |
| `Values`, `MCValues` | messages decoded one after another into one destination |

### StreamDecoder

The Go call stack is the variable `stack`. A frame stands for a call that has read
its header and is in its element loop: `Skip`, `decodeInterfaceCond` (`Cond`),
`DecodeValue` (`Value`), the Unmarshaler path (`Unmarshal`), and the exported
`DecodeInterface`, `DecodeMap`, `DecodeSlice` without a depth level of their own.
`Call` starts an operation, `Element` and `Key` are loop iterations, `Return` is a
return with its deferred `leaveDepth`, on success or while an error unwinds, and
`Finish` is the return to the user with the deferred `d.rec = nil`. What a call reads
before its loop is one step (`Invoke` with `head`): one goroutine owns a Decoder, so
nothing can come between these reads. A failed read leaves the position where the Go
code leaves it: after the length field, or at the end of the input after a short
`io.ReadFull`.

The configuration says whether the reader exposes `Len`, whether
`DisableAllocLimit` is on, the depth limit and the width of `int`. Values are
abstracted away: the properties are about positions, bytes and resources. With
`config.int32`, `uint32ToInt` fails above 2^31 - 1; a 32-bit length is saturated at 2^30 - 1, which changes no
comparison the code makes, since inputs and limits are much shorter. The interned
string dictionary is empty in this module and its flag off; the ext ids registered
by users are the constant `ExtIDs`, whose decoders consume their payload; no map
decoder is set. A `Decode` goes into a nil interface or into a type with
`UnmarshalMsgpack`.

### Intern

`flag` is `UseInternedStrings`, the same at both ends for a behaviour, and `Kinds`
gives for each of its values what may be sent. `log` is the stream with, per item, what was encoded and the encoder's dictionary
after it; `read` is how far the decoder is, so all interleavings of writing and
reading occur. Kinds fix the Go types at both ends: `string`, `intern`-tagged string
(`tag`), interface (`iface`), tagged interface with a string (`tagIface`) or byte
slice (`tagBytes`), a skipped string (`skip`). `Decode` stops after an error, as a
stream cannot be resumed. An item carries the width of its index and the index
reduced to that width.

### DecoderPool and EncoderPool

Steps end where a shared pool is touched or where user code may run. `sync.Pool`
(external) hands out any pooled object or a new one and may drop objects at any
time; addresses that nothing refers to may be allocated again. In `DecoderPool`,
`rd` gives what every reader reads, and a goroutine stands for the reader of its
sessions (`GetDecoder`, a reset, setters, decodes, `PutDecoder`). A decode may grow
the scratch buffer, intern strings, call `Unmarshal` again through a custom decoder
or panic. `EncoderPool` models slices as array and length over arrays with a
capacity; a written item names the call that wrote it, so overwriting is visible.
`reentered` records goroutines that called `Append` inside `Append` on one Encoder.

### Reader and ByteStream

A byte is its position in the input, 0 is fresh memory, so a byte that is lost, read
twice or left from an earlier read is visible in the result. A step is one `Read` of
the source (which returns at least one byte and at most what was asked for, or
fails), and `bufio.Reader`, external, reads ahead unless the buffer asked for is as
large as its own. `readN` with and without the allocation limit start a read; `Grow`
is a turn of `readNGrow`'s loop; `mem` is `d.buf` up to its capacity and `append` may
allocate `Slack` more than needed. `ImplementsStream` is a refinement: with
`next <- delivered + 1` every behaviour of `Reader` is one of `ByteStream`, in which a
read is one step. `StreamDecoder` uses reads in just this form.

### Numbers and Time

Both keep the arithmetic of the code and scale its widths. In `Numbers` an item is a
code of the wire format, as it is, and the bytes after it, which have `Radix` values in
a number and `LenRadix` in a length: 64-bit numbers become small enough for TLC while
every width still has its own bounds, and lengths are still longer than what the
fixed codes hold. The five length encoders (`EncodeBytesLen`, `encodeStringLen`,
`EncodeArrayLen`, `EncodeMapLen`, `encodeExtLen`) and the four switches that read them
(`bytesLen`, `arrayLen`, `mapLen`, `parseExtLen`) are each a definition of their own,
with their codes and masks; `narrowInt` is a reader whose int has 32 bits, where
`uint32ToInt` refuses a length. Any item may be given to any decoder, so that a code
taken for one of another kind is seen. That a length is plausible
(`rejectOversizedContainer`) is the subject of `StreamDecoder`. Floats are finite multiples of 1/2, rounded to a
significand as in IEEE (ties to even), or NaN, the infinities and -0. A conversion of
a float that does not fit is a choice among `Garbage`, as Go leaves it to the platform.
In `Time` a word is 32 bits scaled, `timeBuf` keeps its old words, and `Produce` adds
the legacy array, strings, ext id 13 and malformed extensions.

### Query

The stream is a sequence of tokens and may end early (`avail`). `stack` holds the
calls of `queryMapKey` and `queryArrayIndex` with their loop counters; `key`, `query`
and `hasAsterisk` are the fields of the shared `queryResult`. Skipping is the count of
values still owed. `Select` in `MCQuery` says recursively what a path selects.

### Registry

A step is one `Load`, `Store` or `Delete` of a `sync.Map`. `task[g]` is the call that
goroutine `g` is in. A registration works on the encoder's maps and then on the
decoder's (its field `s`): `LoadId`, the deletes of `unregisterExt...` if there is an
entry, the stores of `RegisterExt...`. `Register` stores an encoder, a decoder or both.
A lookup (`Get`) loads, asks for the element of a pointer, computes and stores; `at` is
the type of the innermost call. A function is named for what it does to a value:
`Ext(id)`, `Hook(h)`, `User` or `Kind`; the wrappers that follow a pointer or take an
address do what the function inside does. `reg` and `user` say which registrations have
completed. `Exclusive` states the discipline under which the pass run holds: a type or
id is not registered while it is used or registered elsewhere, a type has one
registration at a time, and `Register` comes before the first use. `RegistryRace`
shows what happens without it.

### StructFields

A type is a sequence of declarations (name, tag, options, alias, embedded type,
pointer, exported). `getFields` builds `Map` and `List` in declaration order;
`warned` records the logged name clashes. A value gives its leaves and nil pointers.
Between encoding and decoding another version of the program may have reordered the
map, added a field, used aliases, nested what is inlined here, or sent an array that is longer or shorter
(`Deliver`, `resized`); `decodeHeader` checks the length of arrays. Reflection panics on
an unexported embedded struct are steps: `OmitPanics` when omitempty asks whether it is
empty, `CanSet` and `CanAlloc` when a nil pointer to it would be set. A leaf may be missing from the fields (`Shadowed`)
only if its own name, under an inline tag, was taken by an earlier declaration or an
earlier field of the same struct; pointers with an inline tag are left out. Field
values are 0 and 1; codecs of leaf types are the subject of the other modules, and
`intern` fields of `Intern`.

### Values

Types, values and messages are trees. A slice value has its length and the elements
up to its capacity. `run` is one recursive operator over calls, as the decoders are
mutually recursive through `getDecoder`; a result is a status and the value left
behind, after an error too; `set` says whether reflect could assign. A struct is
encoded without its empty fields if they are tagged omitempty or `SetOmitEmpty` is on
(`OmitEmpty`, `isEmptyValue`); the decoder leaves such a field as it is, so in a slice
that is decoded into again the elements within its capacity show what earlier messages
put there. No document says otherwise, and `Overwrites` allows just that: `Shows`
compares every part of the destination with what was sent or, where the field could be
left out, with what stood in that place before. Messages come
from the encoder (in any order of map iteration), cut off anywhere, or from other
programs (wrong types, null, unhashable keys, more levels).

## Runs

| Run | Result | Shows |
|---|---|---|
| `StreamDecoder` | pass | depth, recording, allocation, framing, completeness and rejection, and that every call returns; 513 thousand states |
| `Intern` | pass | dictionaries agree and strings round-trip, with the flag on strings and tags, without it on everything but byte slices in tagged interfaces |
| `DecoderPool` | pass | isolation, default options, nothing retained |
| `EncoderPool` | pass | returned slices stay intact, default options |
| `Reader` | pass | reads implement `ByteStream`, `Len` is exact, allocation bounded, reads end; 90 thousand states |
| `Numbers` | pass | integers, floats and lengths arrive unchanged or are refused, a length by every switch but its own; 81 thousand states |
| `Time` | pass | instants round-trip, whatever went through `timeBuf` before |
| `Query` | pass | a query returns what its path selects, fails for a reason only, ends |
| `Registry` | pass | lookups are transparent, the maps agree; 55 thousand states |
| `StructFields` | pass | types without name clashes round-trip across versions, nothing is left out; 385 thousand states |
| `Values` | pass | a message overwrites what earlier ones left, but for omitted fields; growth, depth, order, no panic; 291 thousand states |
| `ValuesNode` | violation | nesting through struct fields and pointers is not counted by the depth limit |

The other `.cfg` files are not part of the runs: each reproduces one of the
findings below (`tlc -config <name>.cfg <its MC module>`, which stops with the
violation). The runs check `TypeOK` for `StreamDecoder`, `Intern` (where it is also
proved) and `StructFields`; it holds on the instances of the other modules that define it too
(add `INVARIANT TypeOK` to their `.cfg`), and is proved for `Reader`, `Time`,
`Registry` and both pools. The inductive invariants of the proofs below were checked on the runs'
instances in the same way.

Bounds. `StreamDecoder` reads all sequences of up to two bytes over 17 bytes that
cover every class of code, up to three over nine and up to four over four of them,
and longer ones with 16- and 32-bit lengths (small, and with the top bit set), fixext
and ext, maps behind an ext header, nested maps and doubles. Depth limits of 1, 2 and 3 are met by the nestings
that fit, and the allocation limit of 1 by arrays of 2. `Intern` scales the index
widths to 0 and 2 and the dictionary limit to 2: four strings (one too short to be
interned, three long) and three items cross every boundary, as the seeds are empty,
one below the limit, at it, and with four entries above it. The pools have two goroutines, three Decoders (two
nested calls and one other) and three calls; a fourth call repeats the state that
one of the first three has left behind. Symmetry permutes goroutines, addresses and
inputs, which no action tells apart.

`Reader` has eight bytes of input, an allocation limit of 3 and a first capacity of 2:
a read of seven bytes grows twice, with a partial last part, and a buffer of 3 in
`bufio.Reader` is both smaller and larger than what is asked of it. `Numbers` has bytes
of 8 values in numbers and takes every integer within one of a bound, and bytes of 64 values in
lengths, with every length within one of a bound of some encoder; significands of 19 and 9
bits are shorter than the 24 bits of the largest integers, as 53 is than 64. `Time`
has words of 16 values and three items, so that every layout follows every other.
`Query` has arrays and maps of up to two entries and three levels and every prefix of
each. `Registry` has two goroutines, two types with their pointers beside `time.Time`
and three calls: any two before, beside or after any third; symmetry permutes the
goroutines. `StructFields` takes
all pairs of 19 declarations and some triples, embedding two levels deep. `Values`
takes types with every decoder, lists and maps of up to two entries and two messages:
the second meets whatever the first left. Interfaces that hold a pointer from the start
are decoded into, within the capacity of a slice too; what they are sent is never an
explicit nil, and the typed map decoder gets no nil, as both panic (see the findings),
nor an empty map, which it reads as nil. Depth limits of 2 to 4 are met exactly.

Deadlock checking is off for the runs whose bounds on items or calls let a behaviour
end.

Fairness is weak fairness of steps that wait for nobody. `StreamDecoder`: the steps of
a call in progress (`Element`, `Key`, `Return`, `Finish`) on the caller's goroutine;
whether the user makes another call is left open. `Query`: the steps of the one call.
`Reader`: the steps of a read in progress, from a source that returns something or
fails, which is what `io.Reader` requires of it.

## Proofs

For every set of inputs and configurations, every limit and both widths of int
(`StreamAssumption`), `StreamDecoderProofs` proves:

* `TypeCorrect`: types. The lemmas ending in `Good` state what a read returns: its
  position lies between where it began and the end of the input, what was recorded
  does not lie beyond it, and its number is a natural number.
* `DepthCounts`: `DepthOK`. It is inductive with the types: only the first frame may
  be unguarded, so the counter is the stack's height or one less.
* `AllocIsBounded`: `AllocBounded`, from what `rejectOversizedContainer` leaves of a
  claimed length.
* `Recording`: `RecCleared` and `RawIsConsumed`, with the strengthening `RecShape`: a
  recording that is off is empty, a `DecodeRaw` in progress records, and the position
  is never before the start of the call. Without the second part the result of
  `DecodeRaw` could be an empty recording; the third is what joins one more read to
  the bytes recorded so far.

`InternProofs` proves `TypeCorrect`, and `PairedStreams`: if `Paired` holds, that is
if with the flag on no string is read as an interface value or skipped and no tagged
interface holds a byte slice, then `DictsAgree` and `RoundTrip` are invariant, for all
strings, seeds, index widths and dictionary limits. Its invariant adds `LogSound`:
each entry of the stream and the dictionary recorded with it follow from the entry
before, which is what makes the decoder's next step repeat the encoder's. The
configurations `InternInterface`, `InternSkip` and `InternBytes` show that each part of
`Paired` is needed.

`ReaderProofs`, for inputs, buffers, limits and requests of any size, any slack of
`append` and any division of the input into reads:

* `Refinement`: `ImplementsStream`, every step of `Reader` is a step of `ByteStream` or
  a stutter, and `LenIsExact`. The invariant adds `Position`: between reads, the
  bytes taken from the source and no longer held by `bufio.Reader` are the ones
  delivered; in a read they are those and the `got` bytes of the read, which stand in
  order at the start of `d.buf`. The properties speak of the moments between reads; only
  `Position` says what a read in progress has put together.
* `AllocIsBounded`: `AllocBounded`. It rests on `MinCap <= AllocLimit` (64 bytes and
  1 MB in the code), part of `ReaderAssumption`.

`DecoderPoolProofs`, for any number of goroutines, Decoders, readers and nested calls:
`CallsAreIsolated`, `OptionsAreDefault` and `PoolsRetainNothing`. `Isolation` is not
inductive: it says nothing of a call between `GetDecoder` and `Decode` or on its way
out. The invariant has `Shapes` (what a call holds at each of its steps), `Exclusive`
(no Decoder or reader is held twice, or held and pooled, and a goroutine has at most one
session) and `Uses` (the Decoder of a
call that decodes has the call's reader, input and options). `PoolAssumption` says that
no address of a reader, goroutine or Decoder is nil.

`EncoderPoolProofs`, for any capacities, goroutines and nested calls:
`ResultsStayIntact` and `OptionsAreDefault`. The hazard is aliasing, and the invariant
is about who may write where: `Held` (an Encoder in use is not pooled and has one user,
unless that goroutine has re-entered `Append`), `Separate` (the array under the
`appendBuf` of a call is not the array of a result or of another call, with the same
exception), `Within` (`appendBuf` ends within what was written to its array), `Wrote`
(the buffer of a call holds what the call has written) and `Settings` (the options a
call runs with).

`TimeProofs`, for words of any size divisible by 4, any number of nanoseconds per second
that fits the 8-byte layout and any number of items: `TypeCorrect` and
`TimesComeBack`. `Written` is the core: whatever `timeBuf` holds, the words that
`encodeTime` returns decode to the time, in each of the layouts. The invariant adds
`Pending`: the items not yet read will give their times, in both ways of reading them.
`TimeAssumption` says what `time.Time` and the wire can hold: seconds of 64 bits,
nanoseconds below a second, words of 32 bits.

`NumbersProofs`, for bytes of any even size from 6 to 256 in numbers and of
any size above 32 in lengths: `IntegersComeBack`,
`FloatsComeBack`, `FloatsBecomeIntegers` and `LengthsComeBack`. `Denotes` says which
integer an item stands for; every encoder writes an item that denotes its number
(`EncodeIntDenotes`, `encodeCondDenotes`) and every decoder gives the number that its
item denotes, as far as the type holds it (`Wide`, `Narrow`); `Encoded` carries this from
the one step to the other. Rounding is used through what the code relies on alone: an
integer is sent for a float only if it converts back. The range checks also need
the float64 values of their bounds (`BoundsAssumption`: -2^63 and 0 are exact, 2^63 - 1
and 2^64 - 1 round up by one), which TLC evaluates on the scaled widths. For lengths,
`LengthCode` says which codes each encoder writes, `FieldRead` that a field of any width
is read back; `LengthOwn` and `LengthOther` then go through the switches: the reader for
a kind gives the length, or an error where an int of 32 bits cannot hold it, and the
three others and the number decoders (`LengthNoNumber`) give an error.

`RegistryProofs`, for any number of goroutines, types, ids and calls:

* `TypeCorrect`, with registrations and lookups racing in any way: the maps hold
  functions at types and types at ids, so that the type assertions on what is loaded
  cannot fail.
* `LookupsTransparent` (`Transparent`), `RegistriesAgree` (`MapsAgree`) and
  `StaysInForce` (`InForce`), if the program is `Disciplined`: it is `Exclusive`, it
  registers types by their pointers (`RegisterExt(extID, (*T)(nil))` in API.md), and no
  pointer type has a hook of higher priority than its element's. Each part is needed.
  `RegistryRace` and `RegistryHooks` refute the first and the last; a value type that is
  registered after its pointer type was looked up leaves the pointer's cached function
  in place. The instance of the `Registry` run is disciplined.

None of the three is inductive: they speak of moments without registrations or of the
end of a lookup. The invariant has `Calls` (`Midway`: which entries a registration at
each of its steps has deleted and stored, on each side; `Found`: what a lookup is about
to store is right; `Fresh`: a `Register` finds no entry), `Apart` (a registration shares
its types and its id with no other call), `Sole` (a type has one registration, completed
or in progress), `Agree` (the maps agree on an id that no call registers, even while
others do) and `Cached` (an entry of a type that no call registers is absent or right).
The argument is about who depends on what: `Unaffected` says that a call depends on the
entries of its own types and id alone, a lookup on the registrations alone, so that
lookups may overwrite each other's entries but nobody else's; `RegMoveKeeps` reduces the
nine steps of a registration to what each leaves in its own entries.

Only model-checked: liveness (`CallsReturn`, `Terminates`, `ReadEnds`), which
is beyond the prover; `Framing`, `Completeness`, `Rejection` and the query properties,
whose references are recursive; `StructFields` and `Values`, which are recursive
themselves.

## Findings

Where the code does something else than its documentation, a comment or a test says.
The configuration named first reproduces it (for the three marked *, with the named
property as its `INVARIANT`); `ValuesNode` is the one that is a run.

| Configuration, property | Code | Against |
|---|---|---|
| `ValuesNode`, `NestingLimited` | `decode_value.go:126`: pointers and struct fields call the element's decoder directly, so a linked list type recurses as deep as the message | README.md:29 "Deeply nested payloads fail with an error instead of growing the stack."; API.md:442 "Maximum nested decode/skip depth before returning an error." |
| `ValuesIface`, `NeverPanics` | `decode_value.go:185`: a value held by an interface field or element is not addressable and is decoded into | CHANGELOG.md:219 "(must never panic on hostile input into typed and `interface{}` destinations)" |
| `ValuesTypedMap`, `NeverPanics` | `decode_map.go:269`: a first key or value that is nil has no `reflect.Type` | CHANGELOG.md:6 "now reject non-comparable key types with a decode error instead of panicking" |
| `InternInterface`, `RoundTrip` | `decode.go:573`: `DecodeInterface` reads a string without adding it to the dictionary, the encoder added it | API.md:146 "Reuse repeated strings via an in-stream dictionary; pair with `Decoder.UseInternedStrings(true)`." |
| `InternSkip`, `RoundTrip` | `decode.go:680`: so does `Skip`, also for an unknown struct field | API.md:520 "it correctly walks nested arrays, maps, and ext payloads" |
| `InternBytes`, `DictsAgree` | `intern.go:162`: the decoder of a tagged interface interns bin payloads, the encoder does not | API.md:256 "Intern this string field." |
| `DecoderPool` *, `DefaultDepthLimit` | `decode.go:166`: neither `ResetDict` nor `PutDecoder` resets `maxDepth` | decode.go:159 "Reset discards any buffered data, resets all state" |
| `EncoderPool` *, `AppendReturnsAll` | `encode.go:122`: an inner `Append` on the same Encoder replaces the buffer of the outer one | encode.go:117 "Append encodes v into dst[:0] and returns the resulting bytes." |
| `QueryNested`, `QueryCorrect` | `decode_query.go:122`: the inner `*` clears `hasAsterisk`, which the outer one still needs | API.md:366 "Path components are map keys, array indices, or `*` (all elements of an array)." |
| `Query` *, `ConsumesAll` | `decode_query.go:88`: without a wildcard the rest of the container stays unread | API.md:381 "Query consumes the entire input stream once" |
| `NumbersBound`, `FloatIntoInt` | `decode_number.go:129`: the bounds round up to 2^64 and 2^63, which then pass | decode_number.go:121 "fits in uint64; anything else is rejected so meaningful data cannot be silently truncated" |
| `NumbersNarrow`, `FloatIntoInt` | `decode_number.go:273`: the narrow decoders convert without a range check | CHANGELOG.md:200 "and fits in the target's range" |
| `RegistryRace`, `InForce` | `encode_value.go:47`: a lookup stores what it computed over an entry registered since | API.md:300 "Register once, decode via `interface{}` or directly into the registered type." |
| `RegistryHooks`, `Transparent` | `encode_value.go:55`: a cached element type takes precedence over a pointer's `CustomEncoder` | API.md:264 "Three independent extension hooks are recognised, in priority order:" |
| `StructEmbedName`, `RoundTripAlways` | `types.go:239`: an inlined struct's name takes over that of its own field | CHANGELOG.md:333 "Embedded structs are automatically inlined where possible." |
| `StructShadow`, `NamesOnce` | `types.go:305`: only fields declared before the embedded struct are looked at | types.go:305 "Don't auto inline if there are shadowed fields." |
| `StructMarker`, `MarkerApplies` | `types.go:203`: the marker does not reach fields declared before it | API.md:254 "applies to all string-keyed fields" |
| `StructPrivate`, `NeverPanics` | `types.go:400`: a nil embedded pointer that cannot be set is taken for the field; `decode_value.go:135` sets one that is not inlined, and `types.go:332` asks for the value of an unexported struct | CHANGELOG.md:219, as above |

## Not modelled

Left out:

* `WithDict` scopes, and a writer that fails between the dictionary insert and the
  write: the package does not say what an Encoder is worth after an error.
* Two ext ids registered for one type: the code lets the last one win and unregistering
  either removes both; no document says what is meant.
* Byte slices and byte arrays as typed destinations, and the wrappers around user hooks
  (nil receivers, taking addresses): thin adapters around code that is user's.
* Strings that an intern tag puts into the dictionary of a pooled Encoder (`EncoderPool`
  fills it by seeding only), and, with the flag off, a tagged string that is read as an
  interface or skipped (`Intern`).
* Pointers to pointers in the registry, and the encoders and decoders of fields that
  `structCache` keeps: a type registered after a struct with such a field was used is
  not seen by that struct.
* The dictionary and the map decoder that a pooled Decoder holds until its next `Reset`
  (`NothingRetained` is about buffers and readers).
* Go's memory: strings that alias `d.buf` (`decodeStringTemp`), `unsafe.go`.
* Vendored `tagparser` and `pbt`, the App Engine codecs, CI scripts.
