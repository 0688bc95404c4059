# TLA+ models of wasm-zero

wasm-zero is a WebAssembly 2.0 engine (`crates/wasm-core`) with a driver that
runs the official test corpus against it (`crates/spec-runner`).  This
directory holds TLA+ models of both, the TLC runs that check them on small
instances and TLAPS proofs that hold for every instance.

## 1. Inventory

| component | state it keeps | operations | modelled in |
|---|---|---|---|
| Decoder (`decode.rs`) | position in the bytes, section rank, counts, the flag of data uses; per body the emitted instructions and the stack of open blocks | `decode`, section, entry, number and expression readers | `Leb128`, `Sections`, `Entries`, `Opcodes` (immediates), `Machine.Decode` and `Body` (targets) |
| Module validation (`validate.rs`, `validate`) | index spaces, set of declared references | one pass over a module | `WasmModule` |
| Body validation (`validate.rs`, `Checker`) | type stack, control stack with heights and `unreachable` | `step` per instruction | `Body`, `Machine.Validate` (control); `Opcodes`, `Straight` (all other instructions) |
| Store (`store.rs`) | pools of functions, tables, memories, globals; instances | `add_host_module`, `instantiate`, `invoke_export`, `get_global_export`, `exports` | `Store`, promise in `StoreAbs` |
| Interpreter (`exec.rs`) | value stack, frames, control entries, `locals_total`; the store by reference | `invoke`, `run`, `step`, `do_branch`, `call` | control in `Machine`, effects on the store in `Store`, bytes in `Memory`, operand types in `Straight` |
| Numeric and SIMD (`exec.rs num`, `simd.rs`) | none | functions of bits | `Numeric`, `Lanes`; float arithmetic and conversions are the processor's |
| Values, types, IR, errors (`values.rs`, `types.rs`, `module.rs`, `error.rs`) | none | data definitions | where used |
| Command loop (`runfile.rs`) | a store, `registry`, `named`, `current`; verdict counters and rows | one handler per command | `Runner` |
| Sweep (`main.rs`) | results of files, totals, exit code, the ledger | loop over files, accounting, expectations | `Runner`, `Ledger` |
| Corpus enumeration (`scripts/enum_corpus.py`) | its own count of the corpus | count, cross-check with the ledger | `Ledger` |
| Values (`convert.rs`) | none | arguments, result patterns | `Convert`; a match or not in `Runner` |
| Host module (`spectest.rs`) | none | data | its exports in `Runner` |
| other `scripts/`, CI, `goal-runs/`, `docs/` | files | downloads, prose | not modelled |

**How they interact.** Everything is sequential and synchronous.  The runner
decodes, validates and instantiates a module, resolving its imports from a
snapshot of the exports of the registered instances; `instantiate` writes the
store in several steps any of which may fail, then runs the start function on
a fresh machine that borrows the store; the machine calls host functions,
plain function pointers over values without access to the store, so no call
re-enters it.  Instances share functions, tables, memories and globals by
address, which is where one module's effects reach another.

**What is hard** is therefore not scheduling but long sequences of legal calls
and what is left after a failure in the middle:

- linking fails half-way, before publication (rolled back) or after (kept);
- functions name an instance id before that instance exists;
- references travel through tables, globals, arguments and host results, and
  are indexed without a check where they are used;
- imports are matched against sizes that later change;
- the interpreter trusts validation (`pop` panics) and the validator trusts
  the decoder; the three compute the same structure in three ways (nesting,
  type stacks, control entries with absolute heights) and keep three tables of
  the same opcodes;
- a decoder that steps through nested regions whose sizes the input declares,
  with entries whose fields depend on flag bits;
- numbers at the ends of their widths: casts that pick a sign, bounds compared
  in a float format, lanes that carry, addresses that are sums;
- the runner's context outlives failed commands.

`PROJECT.json` lists these at their lines, with the properties that cover them.

**What makes each component correct.**  Decoder: it accepts exactly the
grammar, reads no byte twice, allocates no more than its limits, and targets
are the matching ends.  Validator: whatever it accepts links without an index out of range and
runs without a panic.  Store: additions are atomic, nothing leaks, references
resolve, owners are right, imports stay matched.  Interpreter: stacks have the
shapes validation computed, callers are untouched, budgets are exact, and
instructions mean what the WebAssembly specification says.  Runner:
a verdict is about the instance the file designates, and a green exit means
what it says.

## 2. Modules

    WasmModule ── Store ── StoreProps ── MCStore
                     │         └──────── StoreProofs (TLAPS)
                     └ refines StoreAbs
    Body ── Machine ── MachineProps ── MCMachine
                             └──────── StructureProofs ── MachineProofs (TLAPS)
    Sections ── SectionsProps ─┬──── MCDecoder
                     Leb128 ───┤         └ Entries ── EntriesProps (instance)
                               └──── DecoderProofs (TLAPS)
    Opcodes ── Straight ── StraightProps ── MCStraight
                                └────────── StraightProofs (TLAPS)
    Memory ── MemoryProps ── MCMemory
                   └──────── MemoryProofs (TLAPS)
    Numeric ── NumericProps ───────── MCNumbers
       └ Lanes (instances of Numeric for floats) ── LanesProps ──┘
    Runner ── RunnerProps ── MCRunner
       └ Ledger ── LedgerProps ── MCLedger
                        └──────── RunnerProofs (TLAPS)
    Convert ── ConvertProps ── MCConvert
                    └──────── ConvertProofs (TLAPS)

`MCDecoder`, `MCNumbers` and `MCStraight` hold several instances of the modules
they check, of different sizes: `part` says which of them a behaviour runs, and
the properties speak of the instance at hand.

**`WasmModule`** is what `types.rs`, `values.rs` and `module.rs` say a module
is, with the operators of `validate()` other than bodies: `ValidModule` and its
parts.  Indices are 1-based, 0 stands for a missing one (`start`, a null
reference).

**`Store`** models `Store` with one action per loop item.  `phase` is the
program counter: `idle`; `host` (loops of `add_host_module_inner`); `import`,
`alloc`, `segments` (parts of `instantiate`); `run` (a machine exists).  `k` is
the loop's position, `inst` the instance being built, `base` the four lengths
`rollback` truncates to.  The resolver is an arbitrary callback and answers
anything, out-of-range addresses included.  Code that runs is abstracted to
what it does to the store: any instruction, with any operands the machine may
hold, in any order; `frames` are the instances of the active frames and `held`
the references on the value stack and in locals.  A memory is its size here;
its bytes are in `Memory`.

**`StoreAbs`** is the promise an embedder relies on: an instance appears
together with all its entries or not at all; afterwards only contents change.
`KeepsPromise` refines it by a mapping that hides, while something is being
built, the entries above the rollback marks.

**`Body`** models an instruction sequence, the decoder's `expr_until_end`
(`DecodeOp`: emits one operator and patches the targets of the block it closes)
and the validator's `Checker` (`Accepts`, `Checked`: one instruction).

**`Machine`** is the life of a module's code: bodies are decoded operator by
operator, checked, and invoked with any arguments.  A body comes from the
bytes of the file, so what follows is any operator the format has
(`Following`); a module without functions of its own has nothing to decode here
(`MachineAssumption`).  Where the code panics
(`expect("validated stack")`, an index, `unreachable!`) the guard of the action
asks for the operand, so a panic is a `run` state in which `Execute` is not
enabled.  `select`, locals, constants, calls, host calls and all control
instructions are there, `i32.eqz` and `i64.extend_i32_u` stand for the numeric
instructions, whose pops and pushes are of the same kind.  Globals, tables and
memories are in `Store`, the operand types of all other instructions in
`Straight`, so the modules split `exec.rs` between them.

**`Leb128`** reads one byte per step, at widths that stand for 32, 33 and 64
bits, with the mask of unused bits and the shift as in `uleb` and `sleb`, and
the single-byte short cuts of `blocktype`.

**`Sections`** is `module()` and `code()` with every token reduced to the
number of bytes it takes: `pos`, `end` and `codeEnd` are the code's, what is
read is chosen when it is read, and any read may fail.  The notes `frames` and
`bodies` record what was met, for the properties only.

**`Entries`** reads one entry of a section byte by byte.  `agenda` is the rest
of the code to run; `Expanded` says which reads a byte puts in front of it
(the flags of a segment, a count, a kind), `Legal` which bytes each `match`
takes, and `Elem`, `Data` build what is returned.  `EntriesProps` writes the
grammar as productions, a set of pairs of bytes and meaning, and compares.

**`Opcodes` and `Straight`** take every instruction outside control through the
three tables of `decode.rs`, `validate.rs` and `exec.rs`/`simd.rs`: the single
bytes, the 0xfc and the 0xfd spaces.  A value is its type; the interpreter's typed pops reach the state
`panicked` where the code would.

**`Memory`** has a memory's bytes with the widths of byte, address, page and
vector as parameters.  An instruction is fetched with any operands, executed
in one step, its result delivered.  `MemoryProps` states them byte by byte and
the bulk instructions by the byte-wise definition of the WebAssembly
specification.

**`Numeric`** computes on bit patterns, with integers of any width and floats
of any format; the bounds of truncations are the code's constants, as exact
powers in the format they are compared in.  **`Lanes`** does the same for
vectors; level *k* has lanes of 2^k bytes, so that one definition stands for
the arms of one operation at up to four shapes.  Where the code widens before
it adds or multiplies, the model keeps the width it widens to and goes to
`Panic` beyond it.

**`Convert`** has the parsing and matching of values with their widths, the
NaN classes and the lanes.  **`Ledger`** extends `Runner`: the
ledger a sweep leaves, and the second count of the corpus, which may hold files
the sweep left out.

**`Runner`** has one action per command handler of `runfile.rs`, and the loop
and accounting of `main.rs`.  A binary is a record of what the engine will say
of it (decodes, valid, imports, may trap), and an action comes back with any values,
any trap or another error.  A row of the ledger also remembers its command,
what the engine came back with, the instance it made and the one it acted on.
The handlers compute a verdict and forget all this; the properties read the
rows as the history of the file and say which verdict each outcome deserves.

Definitions named `Mutant of X` in a comment are faulty variants of `X`, used
to see that each property can fail; no specification uses them.

## 3. Runs

| run | properties | what it shows |
|---|---|---|
| `store_link` | `TypeOK ReferencesResolve Owned StoreTyped ImportsHold SegmentsInOrder KeepsPromise` | four modules and five hosts that fail at every point of linking, a trap that takes nothing back, then instances that mutate what they share (152 514 states) |
| `store_validate` | `IndicesInRange LinkEnds` | every module of a family of right and off-by-one descriptors that validation accepts |
| `code_flow` | `StructureAgrees ShapesAgree StraightCodeEnds` | every body of up to 4 operators, malformed and invalid ones too, and typed ones of up to 7: nesting, loops, branches, dead code (1.8 M) |
| `code_call` | `NeverPanics CallsBalance CallersUntouched` | typed bodies calling themselves, a host function and a callee with branches, until the budgets run out (0.8 M) |
| `runner_context` | `ContextFollowsVerdicts DesignationsHold` | files of up to 4 commands around modules, names and namespaces (4.4 M) |
| `runner_unread` | `FailedModuleInvalidates` | **violated**: see below |
| `ledger` | `PassesAreEarned ExitSound BooksBalance` | every kind of command, two files of which one may be left out, expected totals, the ledger cross-checked: a command passes exactly when what the engine came back with earns it, the exit code agrees with an independent count, and the two counts agree when they should (0.6 M) |
| `decoder` | `TypeOK FilesTile StructureDecides LocalsBounded PositionsOnlyGrow NumbersAreTheirs EntriesAreTheirs` | files of up to 20 bytes with every section id and of up to 30 bytes with functions, data count, code and data; every byte sequence at four widths of number; every entry of every section against the productions, both ways (2.2 M) |
| `straight` | `NeverPanics StacksKeepTypes AsksWhatIsNeeded` | every opcode with immediates on both sides of their limits, on stacks of two, and fewer immediates on stacks of three operands of all seven types (3.1 M) |
| `memory` | `WholePages AccessesReadMemory StoresWriteTheirBytes GrowthIsExact BulkIsBytewise` | any sequence of memory instructions on a memory as large as the address space (0.5 M) |
| `numbers` | `IntegersAreExact FloatsAreExact LanesAreExact` | all pairs of 4 bits and the edges of 8, every pattern of two float formats, vectors of eight bytes of two bits and of four of three bits (0.9 M) |
| `convert` | `VerdictIsMeaning ArgumentIsMeant` | objects of every type and shape against every value of it (0.4 M) |

Some of these properties are conjunctions that the props modules (or, where
there are instances, the MC module) name part by part: `Owned` is
`OwnersPublished` and `NoOrphans`; `SegmentsInOrder` is `AppliedInOrder`
and `PartialEffectsPersist`; `IndicesInRange` is `IndexSpacesAgree` and
`LinkIndicesInRange`; `StructureAgrees` is `TargetsMatch` and
`BodiesTerminate`; `CallsBalance` is the types, `LocalsCounted` and
`ResultsTyped`; `DesignationsHold` is the types, `VerdictsOnDesignated` and
`LinkedToRegistered`; `BooksBalance` is `DoubleEntry` and
`GreenIsEverything`; `FilesTile` is `FramesTile` and `BodiesTile`;
`StacksKeepTypes` is `StacksAgree` and `SlotsKeepTypes`; `AsksWhatIsNeeded` is
the types, `RejectionsAreNeeded` and `AlignedToWidth`; `AccessesReadMemory` is
the types, `LoadsReadMemory` and `VectorAccessIsByLane`.

Deadlock is not checked where a behaviour ends by itself (a runner that exited,
a file accepted or rejected).  The store's runs check it: no call gets
stuck in the middle, and the embedder can always make another one.  So do the
machine's: `MCMachine` lets a machine that is done, or a body that was
rejected, stutter (`Ended`, in `MCSpec`), and what is left is that running code
can always take its next step.  `NeverPanics` says why, instruction by
instruction (`Premises`): what the interpreter pops, indexes and unwraps
because validation has seen to it is there.

**Bounds and why they are enough.**  Store: three instances are the smallest
number with a provider, a user and a later failure; tables up to 3 entries and
memories up to 2 pages reach both the declared and the implementation maximum;
the instructions of a call (`MaxOps`) take a reference out of one place and put
it in another after a growth.  Machine: 7 operators nest two blocks with
branches to both and code after them; `MAX_CALL_DEPTH` 3 and `MAX_VALUE_STACK`
5 are both reached; words 0 and 1 decide every condition and pick both arms of a
`br_table`.  Runner: 4 commands are a definition, a failure between, a
registration and a use; two files show that nothing crosses over.  `NextOps`
generates only operators after which a body can still end within `MaxBody`, and
beyond `MaxAny` operators only those the checker accepts: rejected bodies are
tried up to that length.

For the parts that compute, the bounds are widths.  `Leb128`: bytes with 3
payload bits and an accumulator of 10, so that the widths 5, 6, 7 and 10 have a
last byte that is partly used, full, of one bit, and at the accumulator's top,
as 32, 33 and 64 bits do in bytes of 7.  `Memory`: bytes of 2 bits and
addresses of 2, so that sums of base and offset leave the address range, and 2
pages are all of it.  `Numeric`: one float format that can hold the ends of
"i32" exactly and not of "i64", and one that can hold neither, because that is
what decides the comparisons of truncations.  `Lanes`: bytes of 3 bits with
indices past the vector, and of 2 bits with four levels.  `Convert`: bytes of
one bit, so all values of a type are tried.  `Straight`: an instruction pops at
most three operands.  `Sections`: a custom section with a name, two bodies with
a data count and data; a section takes two bytes and numbers one or two.
`Entries`: vectors of two values and expressions of two operators have a value
in the middle, so a field taken from the neighbour is seen; numbers of more
bytes are `Leb128`'s, nested expressions `Body`'s.

**Fairness.**  `Store` assumes WF of `Advance`, the steps of a call between
entering `instantiate` and its return or the start function: a Rust loop goes
on.  `Machine` assumes WF of `Execute`, the loop of `run`.  Nothing is assumed
of the embedder.  `LinkEnds` stops at the start function because code may loop
for ever; `StraightCodeEnds` covers the code that cannot.

**The finding.**  `runfile.rs:209-211` states the judging invariant that a
failed module must invalidate the current instance.  `cmd_module` does so when
the module does not decode, validate, link or start, but returns before it
when the file cannot be read (line 189).  `runner_unread` gives the two-command
file.  `ContextFollowsVerdicts` says what does hold.

## 4. Proofs

### The store

`StoreProofs` proves, for every set of modules, hosts and forged values and
every value of the bounds (`StoreAssumption`: they have the shapes of
`WasmModule`; the validity of modules is *not* needed):

- `TypeCorrect`: `Spec => []TypeOK`;
- `ReferencesAlwaysResolve`: `Spec => []ReferencesResolve`;
- both from `StoreInv`: `Spec => []IInv`.

`ReferencesResolve` is not inductive.  A rollback truncates `funcs`, so a
reference may only survive it if it was below the mark: `MarksInv` says of
every entry below the marks that it refers only below the marks.  References
flow from address vectors (`ref.func` reads `func_addrs`), segments, arguments,
host results and other tables, so `InstancesInv`, `MachineInv` bound those by
the pools, and `Known` says by which lengths: the marks while something is being
built, the pools otherwise.  `PoolsInv` types every entry by the number of
functions it may refer to (`RefValue(n)`), so that growth is monotony
(`RefValueMono`, `InstMono`) and each action has one lemma that its step
preserves `IInv`; `NextOk` collects them.

Its second part adds what is known of *validated* modules, for the same
constants (in this model every module is validated before it is linked):

- `ContentsAreTyped`: `Spec => []StoreTyped`;
- `ImportsAlwaysHold`: `Spec => []ImportsHold`;
- `IndicesAlwaysInRange`: `Spec => []IndicesInRange`;
- all from `StoreSoundInv`: `Spec => [](IInv /\ SoundInv)`.

`SoundInv` has four parts.  `RunsInv` is the heart: every instance `Runs` the
module in `code`, that is, each of its four address vectors is as long as the
index space of the module and each entry `Fits` its place in it, an imported
table by the matching of limits, which growth keeps (`FitsKept`).  `ContentInv`
types what tables and globals hold, `CodeInv` says only instances of modules
own functions and run, and `LinkInv` follows the loops of `instantiate`: while `phase` is
`import`, the vectors are as long as the imports of each kind among the first
`k - 1` (`ImportsUpTo`), and while it is `alloc`, as the imports and what was
`Made`.  An allocation is one case of `MadeNext`; the last one turns "so far"
into "all" and `instantiate` publishes.  `RollbackSound` needs `IInv`: what
instances refer to is below the marks.

Its last part proves the three properties about what a failure leaves:

- `EveryEntryIsOwned`: `Spec => []Owned`.  `OwnInv` strengthens `NoOrphans` to
  the time while an instance is being built: an entry above the marks is in the
  vectors of `inst`.
- `SegmentsStayInOrder`: `Spec => SegmentsInOrder`.  `AlwaysInOrder` has its
  first half from `SegInv`, which says at segment `k` what `AppliedInOrder` says
  at the end.  `EffectsPersist` has the second: the invariant speaks of the
  segments phase, this of the step that ends it with a trap, which takes nothing
  back and writes nothing of its own.
- `StoreKeepsPromise`: `Spec => KeepsPromise`, the refinement of `StoreAbs`.
  Every step of linking before publication maps to a stutter, because what it
  adds is above the marks and the views cut there; publication maps to the
  abstract addition, a rollback to a stutter, and each instruction to a
  mutation that keeps sizes, types and owners (`Mutation`).

### The framing of files

`DecoderProofs` proves, for files of any length, tokens, section sizes and
counts of any magnitude (`SectionsAssumption`: they are sets of naturals):

- `TypeCorrect`: `Spec => []TypeOK`, whose interest is that no subtraction of
  positions underflows and no slice leaves the input;
- `NeverGoesBack`: `Spec => PositionsOnlyGrow`, an action property;
- `LocalsAlwaysBounded`: `Spec => []LocalsBounded`;
- `UsesAlwaysShared`: `Spec => []UsesAreShared`, the flag the data count is
  judged by;
- `FilesAlwaysTile`: `Spec => []FilesTile`, from `FramesAlwaysTile` and
  `BodiesAlwaysTile`;
- `StructureAlwaysDecides`: `Spec => []StructureDecides`, which sequences of
  sections are accepted, and that none is rejected early that could still be one.

What an accepted file looks like is not inductive, because it says nothing
before the end.  The invariant is a conjunction that grows with the theorems,
`Inv == NumbersInv /\ UsesInv /\ FramesInv /\ BodiesInv`.  `NumbersInv` types
the numbers and bounds the running total of locals.  `UsesInv` ties the flag to
the noted bodies.  `FramesInv` says the noted sections are chained from byte 8
and where `pos` and `end` are relative to the last of them, phase by phase.
`BodiesInv` says the same of bodies inside the one code section: while it is
being read (`Coding`) the last body ends at `codeEnd`; afterwards (`Coded`) the
last body ends where the section does, and by the rank of sections (`last`) no
second one can begin.

Which structures are accepted needs an invariant of its own, `DecidesInv`, over
the first three.  Its `OrderInv` says that the sections met are ordered by rank
and that `last` is the greatest rank met; `OrderIsRanks` shows the ranks the code
compares to give the grammar's order.  `PhaseInv` says which section a phase
belongs to, and `CountsInv` what `funcs`, `sawCode`, `datacount` and `sawData`
say, phase by phase, of the numbers of the sections met: the number of functions,
for instance, is `funcs` and what is left to read of that section.  `NumOf`
chooses a section with an id; `OneOfEach` makes the choice unambiguous, since
sections in their order have different ids.

### Numbers of the binary format

`DecoderProofs` also proves, for payloads, accumulators and widths of any number
of bits (`LebAssumption`: no width is above the accumulator's, and the bytes of block
types have the sign bit and do not continue, as 0x40 and those of the value
types):

- `NumbersAreAlwaysTheirs`: `NumberSpec => []NumbersAreTheirs`;
- `RefusalIsFinal`: `NumberSpec => []Refused`, that nothing which begins with what was
  refused as too long or too large is a number, of any length; the run tries one
  more byte.

The reader works from the first byte up, with a shift; the grammar
(`DenotedFrom`) from the last byte down, with the bits left.  `DenotedByRest`
joins them: after `k` bytes that continue, a sequence denotes the sum of their
payloads plus `2^(Payload * k)` times what the rest denotes.  So `Gathering`, the
invariant of reading, is that the accumulator is this sum, below `2^shift`.
`ContinueStep` shows that no bit is lost then, `LastByteIs` that the test of the
unused bits accepts the last permitted byte exactly if the grammar does
(`SameBits`: all bits from the sign on are the same exactly if the number fits),
and `FinalIs` that the accumulator with its sign extended is the number, also
where the sign is pushed out at the top (`Wraps`).

### Memory

`MemoryProofs` proves, for bytes, addresses, pages, lanes and vectors of any
size, any maximum and any segments (`MemoryAssumption`: as many pages as there
may be are no more than the addresses, and lanes cut a vector without a rest,
which the code's constants satisfy):

- `AlwaysWholePages`: `Spec => []WholePages`;
- `AlwaysGrowsExactly`: `Spec => GrowthIsExact`;
- `AlwaysStoresItsBytes`: `Spec => StoresWriteTheirBytes`;
- `BulkAlwaysBytewise`: `Spec => BulkIsBytewise`, also for ranges that overlap;
- `AccessesAlwaysReadMemory`: `Spec => AccessesReadMemory`, loads bit by bit and
  vector accesses byte by byte, with the types of the variables.

All rest on `PagesInv`: `WholePages` says nothing of the bytes, but the
step needs `data` to be a sequence and the fetched instruction to be one of
`Instructions`, so that a growth adds a natural number of pages.  The lemmas
`WrittenLength` and `ExtendedLength` are about the two operators that make a
memory; one lemma per group of instructions says what each leaves alone.

`BulkIsBytewise` compares one assignment (`Written`) with a loop, which the
property states as a recursive function of the bytes done.  The lemmas exhibit
that function: after `k` bytes the memory is the old one patched with the new
one on the `k` positions done (`UpTo`, `DownTo`), so each step is one more
position (`PatchUp`, `PatchDown`).  A copy must in addition read what it has
not overwritten: upwards the positions from `d + k` on are still the old ones,
and the source is there if `d <= a`; downwards those below are, and the source
is there if `a < d` (`CopiesUp`, `CopiesDown`).  That the recursive function has
one solution is an induction over a set of numbers (`SameSteps`, `NumbersIn`).
`SegsInv` keeps the segments that are left sequences.

`AccessesReadMemory` needs that memory holds bytes (`ValuesInv`, the third part
of its invariant: what is written is cut out of bytes, or is an operand cut to
them).  `FromLE` is a sum that its recursion builds; `Digits` says what the sum
is made of, and that each digit can be read back from it.  A number extended by
its sign is computed in the code by adding a power and taking one away;
`ExtendIs` shows that it is the sum of a longer sequence of bytes (`Longer`), the
loaded ones with the greatest byte or 0 above them.  So scalar loads and the
widening vector loads rest on one lemma: the latter read the digits
(`ExtendBytes`), the former their bits (`ExtendBits`, by `DivDiv` and `BitBelow`).
Which lane a byte is in is division by the lane's length (`InLane`), and half a
vector has room for the lanes that are widened because the longer ones fill it
(`HalfLanes`).

### The runner

`RunnerProofs` proves, for files of any number and length and every engine
outcome (`RunnerAssumption`: results, messages and lists in the JSON are
sequences, and a pattern that cannot be read is no value; `LedgerAssumption`: an
`assert_malformed` has the field that says whether it is text):

- `ContextAlwaysFollows`: `Spec => []ContextFollowsVerdicts`;
- `DesignationsAlwaysHold`: `Spec => []DesignationsHold`;
- `PassesAlwaysEarned`: `Spec => []PassesAreEarned`;
- `ExitIsSound`: `Spec => []ExitSound`;
- `BooksAlwaysBalance`: `Spec => []BooksBalance`.

The first three come from `ContextInv` (`ContextIsRows`).  The properties
recompute the context from the last row of each kind, at every row; the
invariant says that the variables are what `ContextBy` makes of the rows
so far (`RowsInv`), which one more row changes by one step (`ContextNext`) and
never changes for the rows before it (`ContextKept`).  `ReachInv` adds that no
name leads to a module that was to fail.

`PassesAreEarned` is an equivalence, for every type of command: no pass
without the outcome its command asks for, and no outcome asked for that fails.
`EarnedIn` and `ReachedIn` say of one row and the context at its time what the
property says of the history (`RowEarned`).  Values are
compared one by one in the code and as sequences in the property
(`MatchesItself`), messages by prefixes in the code and position by position in
the property (`PrefixesAgree`); outcomes of different kinds are different
(`OutcomesDiffer`).

`ExitIsSound` comes from `BooksInv`
(`BooksAreRight`): the counters of a file are the numbers of its rows, with
cardinalities for the counters and folds for the sums over files; `FoldSums`
proves by induction that such a fold is the sum, `SumIs` and `PairsCounted`
that sums of counters count pairs of file and row.

`BooksAlwaysBalance` compares two counts of one corpus.  Both are brought to
cardinalities of sets of pairs (`TallyIs`, `SumIsTally`): the rows booked
UNSUPPORTED, and the commands that are text modules.  The first set is within
the second, since `cmd_assert_malformed` is the only handler that books so and
looks at the same field, so that equal numbers mean equal sets (`PairsSame`,
`TotalsAgreeIf`).  A file that was left out shows in the number of files,
whatever it holds (`OmissionIsSeen`).

### Values of the runner

`ConvertProofs` proves, for bytes and fractions of any number of bits, every
object and every value returned (`ConvertAssumption`: strings are tokens, what a
call returns is a value, a float has a sign, an exponent and a fraction):

- `VerdictsAreMeant`: `Spec => []VerdictIsMeaning`;
- `ArgumentsAreMeant`: `Spec => ArgumentIsMeant`.

The code tests NaNs with masks and packs lanes as bytes; the properties speak of
exponents, fractions and places.  `Pow2` is a recursive function, so its laws
are proved first (`Pow2Is`, that the recursion has a solution; `Pow2Adds`,
`Pow2Grows`), and that quotient and remainder are the only ones (`DivIs`).
`FloatParts` is the heart of the NaNs: a number below the sign has all the bits
of the mask exactly if its exponent is the greatest and its fraction has the top
bit.  `DecidedIs` shows that the loop which returns at the first lane that fails
passes exactly if every lane does, an error being a failure.  For arguments,
`DigitsFit` and `DigitsAbove` say that the lanes packed so far stay below the
next one and later ones above it; hence `DigitsRead`, each lane is read back.
`VerdictInv` adds only what the value is before an argument was accepted.

### Bodies, decoded and checked

`StructureProofs` proves, for any types, functions and bodies of any length
(`MachineAssumption`: the index spaces are sequences, the bounds numbers):

- `StructureIsOne`: `Spec => []StructureAgrees`, that is, the targets the
  decoder patches are the matching ends and elses, and a body the checker
  accepts ends where its control stack does;
- from `StructureInvariant`: `Spec => []StructInv`.

The decoder keeps the open blocks in a stack, the checker as control frames,
and the property counts openers and ends.  The invariant ties all three to one
function of the operators, `OpenAt(b)[q]`, the blocks open before position
`q`.  `DecodeInv` says of every position of what has been emitted
(`PlaceOk`): a block still open has no target yet, a closed one's is the end
`Directly` inside it, an if's is its own end or an else directly inside it.
The targets of a block are patched into instructions emitted long before, so
`CloseBlock` must be shown to touch no other block (`EndStep`).  `CheckInv`
says of every recorded checker that it has one frame for the function and one
for each open block (`StateOk`), with the types of its block and the height
the stack had when the block was opened (`BlockOk`), that heights are nested
(`HeightsOk`), and that what is below them is untouched.  An else renames a
frame and `end` consults it again, hence `Kind`.  `Flat` collects what every
instruction outside control has in common, so that `CheckStep` has four cases:
flat, opening, else and end.

From the invariant to the property is counting: `NestingIsOpen` proves by
induction that openers minus ends is the length of `OpenAt`, and
`InsideUntilEnd` that a block stays open up to its end, which makes it the
first end at its depth.

### Running code

`MachineProofs` proves, for the same constants, any depth of calls and any
results of host functions:

- `ShapesAlwaysAgree`: `Spec => []ShapesAgree`, the soundness of validation;
- `CallersAreUntouched`: `Spec => CallersUntouched`, an action property;
- `CallsAreBalanced`: `Spec => []CallsBalance`, from `LocalsAreCounted`;
- `PremisesAlwaysHold`: `Spec => []NeverPanics`.

`ShapesAlwaysAgree` and `PremisesAlwaysHold` are the two halves of the soundness
of validation: running code keeps the shapes the checker computed, and with
these shapes it can go on.

All rest on `RunInvariant`: `Spec => []RunInv`.  `ShapesAgree` is not inductive.
It compares the machine with what the checker had *here*, and a branch goes
elsewhere: to a place whose checker ran long before or will have run long
after.  It also says nothing of dead code, in which the checker knows nothing
and where the machine must never arrive, nor of why a suspended frame may go on.
`RunInv` is `StructInv` with the following, for every frame
(`FrameOk`, `NthOk`).

- It is at a `Typed` place: no label there is unreachable and no operand is of
  the bottom type.
- Its piece of the value stack has the types the checker had there, without the
  results it waits for (`ValuesOk`).
- Its control entries are, one by one, `Entry` of the block open there, as
  `OpenAt` has it, and each of these blocks was entered at a typed place
  (`EntriesOk`).
- If it is suspended, the instruction before its position is the call of the
  function of the next frame, and it waits for that function's results.

What a branch needs is then a fact about places alone.  `Resumes` says of a
block and the place `t` its label goes to that the checker had there the labels
around the block and, on top of what was under its operands, the label's types;
`LoopResumes` and `EndResumes` prove it for a loop's begin and any block's end.
`Enters` is the same for the arms of an if (`FirstArm`, `SecondArm`).
`ArmDone` and `BodyDone` join what falls through, with or without an else, and
`BranchTaken` covers the rest.  `br`, `br_if`, `br_table` and `return` all use it, the
table by induction over its labels (`CarriesTable`).  `StepKinds` sums up the
interpreter: every step of running code goes on in its frame (`GoesOn`), calls
(`Calls`), returns (`Returns`) or traps, and the code does not change.
`FramesMove`, `FramePushed` and `FramePopped` carry the invariant through these
kinds, and `CallersKept` says that the frames below keep theirs, because their
pieces end where the next frame's begin (`PiecesOrdered`).

For `PremisesAlwaysHold`, each instruction is one the checker accepted at that
place, so the checker could pop its operands there; by `ValuesOk` the values
are on the machine's stack above the frame's base (`CarriedHolds`,
`PoppedIsThere`).  A branch leaves by the control entry of its label, which
`EntriesOk` puts where the machine looks, with as many values as it keeps
(`LabelIsThere`, `ReachesLabel`); a `br_table` by any of its labels.

`LocalsCounted` is a fold over the frames; `CountOk` says the same with a
cardinality, the number of pairs of frame and slot (`Slots`), which a call and
a return change by the locals of one frame (`SlotsMore`); `FoldCounts` shows
the fold to be that number.

### Straight-line code

`StraightProofs` proves, for every module, stack and immediate
(`OpcodesAssumption`: the declared types are value types, the immediates are
unsigned), and so for every opcode of the three tables:

- `AcceptedCodeNeverPanics`: `Spec => []NeverPanics`;
- `StacksAlwaysKeepTypes`: `Spec => []StacksKeepTypes`;
- `AlwaysAsksWhatIsNeeded`: `Spec => []AsksWhatIsNeeded`.

The tables are compared opcode by opcode: `NumbersAgree` for the 136 operations
of `num_step` and `num`, `VectorsAgree` for those of `simd_step` and `simd_op`,
where what is not listed takes two vectors in one and every operation is listed
in the other, `LanesAgree`, `LoadsAgree`,
`StoresAgree` and `VectorAccessesAgree` for shapes, widths and alignments.  A
signature `Covers` demands if a stack it types meets them (`TypedMeets`), and is
`Exactly` them if the converse holds too (`MeetsTyped`), which is what makes
rejections needed.  `AcceptedRuns` puts the kinds together: what is popped is
what the validator typed, and what may be pushed is one sequence of types, the
validator's.  The induction is over `TypesInv`: at each stage the two stacks
are equal, or one instruction apart, and the instruction at hand is one
`DecodedIsMade` says the decoder makes; `WritesKeep` says that what goes to
locals, globals, tables and segments is of their type.

### What is only model-checked

Every other property of section 3: `EntriesAreTheirs`, `IntegersAreExact`,
`FloatsAreExact` and `LanesAreExact` among the invariants.  Out of the prover's
reach: liveness and `ENABLED` (`LinkEnds`, `StraightCodeEnds`, and that no run
deadlocks).  Induction over data is possible where the statement is a
set of numbers (`SetInduction`, `InductionOn`, `NumbersIn`: a set with 0 and all
successors has every number); this is how the recursive functions `ImportsUpTo`
and `OpenAt`, maxima and folds are reasoned about.  For `Numeric` and `Lanes`
the inductions have not been carried out.

## 5. Not modelled, and why

- Sums, products, quotients, square roots of floats and conversions between
  floats and integers that round: one operator of the host language each, that
  is the processor's arithmetic, for scalars and lanes.  What the code decides
  itself (NaNs, zeros, roundings, ranges, order) is modelled.
- What bodies do with floats and large integers in control flow: no control
  depends on a value beyond tests for zero and the index of `br_table`.
- That decoding terminates is not stated; `PositionsOnlyGrow` says that it
  never reads back.
- JSON: a text of digits is a number in `Convert`, and anything else one value.
  A number too large for a vector's lane is cut to the lane's low bytes by
  `pack`; `ArgumentIsMeant` leaves these out.
- Texts of messages are short sequences of tokens, of which `trap_matches`
  compares prefixes; which text the engine gives to which trap is chosen.  An
  empty expected text matches every trap, in the code and in the property.
- Argument parsing, `Display`, the tables of names, downloads, build steps, CI.

## 6. Plan

Done: the core (`Store`, `StoreAbs`, `Machine`, `Runner`), the decoder, memory,
numbers, lanes, values and ledger, and the proofs of section 4.

Theorems worth proving next: `IntegersAreExact` for the operations that are
arithmetic and not bits (sums, products, comparisons), from the lemmas about
powers and digits of `MemoryProofs`.
