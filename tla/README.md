# OpenFHE HEXL backend: TLA+ models, model checking and proofs

This directory holds a verification development for `openfhe-hexl`, the Intel
HEXL backend that is staged into OpenFHE: TLA+ models of its code, TLC runs over
small instances, and theorems about the models whose proofs TLAPS checks.

Paths below are relative to the repository; `transformnathexl-impl.h` and its
header are in `src/core/include/math/hal/intnat-hexl/`, the polynomial headers
in `src/core/include/lattice/hal/hexl/`.

## 1. The system and its parts

The library does arithmetic on polynomials over `Z_Q[X]/(X^n+1)` with `Q` a product
of word-sized primes. It is layered; each layer calls the one below it.

| Component | State | Operations | Interacts with |
|---|---|---|---|
| **NativeInteger** `ubintnathexl.h` | one machine word | modular arithmetic: Barrett, Shoup, inverse, rounding, strings | used everywhere |
| **NativeVector** `mubintvecnathexl.h/.cpp` | words and a modulus | elementwise arithmetic, `SwitchModulus`, `Mod`, rounding | NativeInteger |
| **Transforms** `transformnathexl.h`, `-impl.h` | process-wide static caches | power-of-two transform (FTT), Bluestein and arbitrary cyclotomic transforms, `PreCompute`, `Reset` | called from any thread; hands the computation to `intel::hexl::NTT` objects it caches |
| **HexlPoly** `hexlpoly.h`, `-impl.h` | `m_format`, `m_params`, `m_values` (may be null) | arithmetic, `SwitchFormat`, `SwitchModulus`, automorphisms, decompositions | NativeVector, Transforms |
| **HexlDCRTPoly** `hexldcrtpoly.h`, `-impl.h` | `m_format`, `m_params`, one HexlPoly per modulus | arithmetic, changes of the RNS basis, rescaling, decompositions | loops over its towers in OpenMP parallel regions |
| **Backend headers** `lat-backend.h`, `math-hal.h`, `nativeintbackend.h` | none | type aliases, `HEXL_ADD_ENABLE = 0`, `HEXL_MUL_ENABLE = 1` | select the code above |
| Build, staging scripts, benchmarks, `utils/` | none | build and report timings | drive the library |

What is hard here, and what makes each component correct:

- **Transforms.** The caches are shared by every thread and are guarded by three
  different means: a lookup with no lock, an unnamed OpenMP critical section, and a
  mutex that is released *before* the object found under it is used. Correct means
  that each caller gets the transform of its own vector under its own root whatever
  the other threads do to the caches. Hazards: double refill, tables of one
  modulus made for different arguments, an object replaced while it computes, stale
  objects, dimensions evicting each other, exceptions inside the critical section.
- **HexlDCRTPoly.** Format and basis are each stored in several places that every
  operation keeps in step by hand, most preconditions are unchecked, and what goes wrong
  goes wrong inside a parallel loop, where an exception ends the process. Correct means that
  the places agree after every chain of operations. Each coefficient is held by its residues, and
  changes of basis, divisions and reading out work on them alone, with approximate conversions, doubles and,
  in the BEHZ sequence, towers that stand for nothing between two calls. Correct means that the number
  survives, or its quotient, within the noise the comments count on.
- **CRTDecompose** sits between the two: a parallel loop in which threads *do* share
  moduli, safe only because of the loop that runs before it.
- **Arbitrary cyclotomic transforms.** Twelve more static maps, keyed by moduli and roots
  but never by the order that sizes the tables, filled inside a critical section and
  read outside it through `operator[]`, which inserts. Correct means that a transform is
  exact whatever was called before it, and that no lookup meets an insertion.
- **NativeInteger, NativeVector, butterflies.** Sequential; the hazards are
  numeric: wrapped words, truncated constants, bounds of Barrett and Shoup reduction, centred
  lifts, rounding at the edge, non-invertible arguments, functions that trust their
  operands to be residues after functions that leave something else. Correct means equal
  to the mathematical definition after any chain of calls.
- **HexlPoly.** A ring element in one of two formats, over a vector that may be missing:
  correct means that every operation does to the element what its definition in
  `Z_q[X]/(X^N+1)` says, whatever the format.

`PROJECT.json` lists every component and, under `hazards`, each hazard at its line
with the properties that cover it.

## 2. The modules

```
FTTCalls              requests, answers, the documented answer Right(c)
  TransformService    abstract specification: ask, and get the documented answer
  FTTCache            the caches and the protocol around them; implements it
    CRTDecompose      the two parallel loops of CRTDecompose as clients of FTTCache
      CRTDecomposeProofs     theorems about FTTCache and CRTDecompose

DCRTPoly              representation of a DCRT polynomial under its operations
  DCRTPolyProofs

NativeWord            word arithmetic at width W: Barrett, Shoup, double words
  NativeInteger       an accumulator of modular arithmetic; implements ResidueRing
    ResidueRing       abstract specification: the integers modulo m
  NativeDigits        bits, digits, rounding of quotients
    NativeWordProofs         theorems about NativeWord and lemmas about
                             NativeDigits, over lemmas about integers, sums,
                             folds, polynomials and induction
    NativeArith       an accumulator of plain arithmetic, checked and unchecked
      NativeIntegerProofs    theorems about NativeInteger and NativeArith
                             (uses NativeWordProofs)
    NativeEntries     what vector functions do to one entry
      NativeVector    a vector with its modulus
      HexlPoly        a polynomial with one modulus; implements PolyRing
        PolyRing      abstract specification, over NegacyclicRing
        HexlPolyProofs       (uses NativeWordProofs)
      NTT             butterfly networks, stage by stage
        NTTProofs            (uses NativeWordProofs)
      ArbTransform    transforms of arbitrary order over their maps
      RNS             one coefficient of a DCRT polynomial: the numbers behind
                      its changes of basis, divisions and reading out
ModInverse            the loop of ModInverse
  ResidueProofs              theorems about ModInverse, NativeVector and RNS
                             (uses NativeWordProofs)
ArbCache              the maps of ArbTransform under threads
  ArbProofs                  theorems about ArbTransform and ArbCache
                             (uses NativeWordProofs)

MCFTTCache, MCCRTDecompose, MCDCRTPoly,
MCNativeInteger, MCPolynomial, MCTransforms    instances for TLC
```

The last three MC modules hold several independent components side by side. A variable
`part` says which of them a behaviour is about; the others rest in an initial state,
so their states add up and do not multiply.

### FTTCalls and TransformService

A vector is abstracted to what it holds: coefficients, values at the powers of some
root, or garbage. `Right(c)` is what the comments of the interface document for a
request: the input for a root of 0 or 1, an exception for a bad shape, otherwise
the transform under the caller's root. `TransformService` is the class with no caches in
sight. `Computed`, what an Intel HEXL NTT object built for root `r` computes, is
external.

### FTTCache

| Model | Code (`transformnathexl-impl.h`) |
|---|---|
| `tables[m].reverse` | `m_rootOfUnityReverseTableByModulus[m]`, the only map read without a lock |
| `tables[m].inverse` | the inverse root and cyclotomic order tables |
| `tables[m].precon` | the three tables of Shoup constants |
| `hexlNtt` | `m_IntelNtt`, keyed by (length, modulus) |
| `critical`, `mutex` | owner of `#pragma omp critical`, of `m_mtxIntelNTT` |
| `call`, `pc`, `rebuild`, `out` | arguments, place, `reCompute` and result of each thread |
| `torn` | the NTT object was assigned over while this thread computed through it |
| five handlers, `ReturnTrivial`, `ThrowShape`, `Admit` | entry, early returns, exceptions |
| `FindTable`, `RecheckTable` | lookups at L610 and L785 |
| `EnterCritical` ... `WritePrecon` | the critical section, L787-L834, one step per group of maps written |
| `LockNtt` ... `Compute` | L618-L629 |
| `Reset` | L855 |

Each step is one access that another thread may observe. Two points are
nondeterministic because the C++ behaviour is undefined: a lookup that races with the
insertion of a key may miss a key that is there (`Lookup`), and a computation
through an object that is being assigned over may leave any numbers (`torn`).
What such a race can do beyond that (a crash) is not modelled. `Reset` takes no lock; the
model lets it run only while no call is in progress, which is how the library is used.
An exception inside the critical section ends the process: the thread stays at
`terminated` with the section taken.

### CRTDecompose

Extends `FTTCache` with the phases of the function: the copy switches format, one
iteration per tower, in either direction; a barrier; then every iteration transforms
polynomials over the moduli of the other towers (`baseBits = 0`, `digits = 0` in the model) or over
all of them once for each digit. A thread is one loop iteration; fewer OpenMP threads than
iterations is one of the interleavings. The iteration issues its requests through the same
`Begin` as any other client of the cache.

### DCRTPoly

State: a few objects, each with `format` (`m_format`), `params` (`m_params`) and
`vectors`; a tower has its own modulus and format flag, and `holds`, what its vector
really contains (coefficients, evaluations, nothing, junk). An action is one member
function; it ends in `Give` (a result), `Throw` (an exception before anything changed) or
`Break` (a null dereference, a read past the last tower, or an exception inside a
parallel loop; the process ends and no action is enabled).

`Careful` says whether callers respect the preconditions the operations leave
unchecked. They are written `Relies(...)`, next to the checks the code does make:
for instance `Plus` compares formats, sizes and first moduli itself, and relies on the remaining
moduli being equal. Two relies deserve a mention: `operator=(uint64_t)` relies
on the evaluation format it does not set (the code says it is used inside a Matrix only),
and `PowersOfBase` relies on never being called.

Four operations put a tower or a modulus where the caller says, and write the basis in one place only (`ByHand`):
the constructor from one `PolyType` and `operator=(const PolyType&)`, which switch every tower but the first to its modulus
(`ConstructFromTower`, `AssignTower`), `SetElementAtIndex` and `SwitchModulusAtIndex`. A careful caller hands
them what belongs there; a careless one parts `m_params` from the towers.

### NativeWord, NativeInteger, NativeArith, NativeDigits, ModInverse

`NativeWord` has the const member functions of `NativeIntegerT` for words of `W` bits,
each wrap and each double word included, and for each modular function every variant:
the plain one, the one with `mu`, the one with a precomputed inverse, and the overloads for
a word type with no wider integer, whose names end in `D`. The build has `W = 64`; nothing
depends on it.

| Model | Code (`ubintnathexl.h`) |
|---|---|
| `value` (NativeInteger), `number` (NativeArith) | `m_value` |
| `modulus`, `mu` | the arguments every function takes, `mu` as `ComputeMu` returns it |
| `...Eq` actions | the in-place member functions, guarded by the range they are documented for: any word, dividends, or residues |
| `applied` | the operation and operand of the last step, in the ring's words: what the refinement reads |
| `call` (NativeArith) | arguments, result and whether the last call threw; an in-place call may have assigned before it threw |
| `a`, `rest`, `x`, `y` | the loop variables of `ModInverse`, one iteration per step |
| `Trap` | the division by zero the loop can reach; no C++ exception |

`ResidueRing` is the abstract specification: a residue modulo m under sums,
differences and products of integers. `NativeInteger` implements it by
`residue <- value % modulus`.

### NativeEntries, NativeVector

`NativeEntries` says what each function does to one entry, scalar reductions, HEXL's
element-wise functions (external) and undefined shifts included. `NativeVector` has the in-place
member functions as actions on `data` and `modulus`; each const one does the same to a
copy. Functions that leave entries unreduced (`DivideAndRound`, `MultiplyAndRound`, `Mod`,
assignment of a value, `MultWithOutMod`) are enabled by the constant `Extra`, because every
fast function after them would read entries that are no residues.

### NegacyclicRing, PolyRing, HexlPoly

`NegacyclicRing` defines the ring by coefficients. `PolyRing` is the abstract specification:
an element and a modulus, and one disjunct for each kind of operation, by its definition.
`HexlPoly` keeps `format`, `params`, `values` (`Null` for a missing vector) like the class, works
on coefficients or on evaluations in bit-reversed order as the code does, and implements
`PolyRing` under `element <- Element`: the coefficients, or the inverse transform of the
evaluations. `call` names the operation and its argument for `PolyRing` to check.

Calls on the wrong format are guards: `+=`, `-=` and `Minus` do not check it, `Plus` and
`Times` do. `Minus(Integer)` and `AddILElementOne` are used on evaluations only, where a constant
is the same number in every place. Assigned words lie below the modulus, as the comment
at `hexlpoly-impl.h:160` asks; `LazySwitchModulus` runs on reduced values.

`values` has the first `N` entries of `m_values`. An assignment of strings takes a list of any length and lengthens the vector
for a long one; `surplus` counts the entries past `N`. What such a vector does follows the code: functions that work in place keep it,
those that end in `SetValues` throw, and `SwitchFormat` changes `m_format` and then throws, so that the same values stand for another
element. `PolyRing` has a disjunct for this one step, `Spoil`.

### NTT, ArbTransform, ArbCache

`NTT` runs `NumberTheoreticTransformNat`'s networks, one stage a step: `kind` is the direction
and the variant (Barrett, precomputed constants, the `Copy` forms with a shortcut for zeros, the
comparisons for clang), `element` the vector in place, `m` the loop variable. Tables are what
`PreCompute` builds.

`ArbTransform` runs `ChineseRemainderTransformArbNat` and `BluesteinFFTNat`, call after
call, over the twelve maps as they are left by the calls before (`nttTables`, `powers`,
`RBTables`, `cycloPoly`, `division`, `divisionDim`), `Reset` included. A map entry that was never
filled is what `operator[]` inserts; a read past the end of a vector is a result of its own. A vector in
the transformed domain is written as the vector it is the transform of, which module `NTT`
justifies.

`ArbCache` has the same maps under threads: which entries are filled, who is in the critical
section, and who reads or inserts outside it. As in `FTTCache` a lookup that overlaps with an
insertion may miss.

### RNS

| Model | Code (`hexldcrtpoly-impl.h`) |
|---|---|
| `moduli`, `residues` | the moduli of the towers, and one coefficient in each |
| `lastCall` | the last call, its argument, and `WITH_REDUCED_NOISE` where a conversion depends on it: what the properties read |
| `AssignLarge` ... `SampleTernary` | the constructors and assignments from integers, towers and samples |
| `ApproxSwitchCRTBasis`, `SwitchedCRTBasis` | the two conversions that the changes of basis are made of |
| `ScaleAndRoundToPlain` | `ScaleAndRound` to a plaintext modulus in doubles, its eight branches by `Splits`, `fits` and `IsPowerOfTwo` |
| `ScaleAndRoundByGamma`, the three `Fast...` actions | the BEHZ variants |

`DCRTPoly` has the formats and towers of these functions, this module the numbers; a coefficient never meets another one
here, so one is enough. Precomputed tables (`QHatInvModq`, `tQHatInvModqDivqFrac` and so on) come from the main library; they are
operators with what their names say. A sum of doubles is taken to be off by at most `1/Exactness`, a quarter as the
comments have it, either way and unpredictably. Words wrap where the code leaves out a reduction, and the
thresholds that decide on it (52, 62, 63) are relative to `W` and `Doubles`. Callers keep the BEHZ order, products
stay within the extended basis, and `TimesQovert` scales messages below `t`.

## 3. What is checked

| Run | Instance | Properties |
|---|---|---|
| `FTTDisjoint` | 2 threads, own moduli; two ring dimensions, early returns, `PreCompute`; 22 931 states | `TypeOK`, `ImplementsService` |
| `FTTShared` | 3 threads sharing modulus 17, two dimensions, a second modulus; 86 921 states | `TablesAgree`, `ComputesWithOwnRoot` |
| `FTTTwoRoots` | 1 thread, two roots for one (length, modulus) | `PrecomputedRootIsUsed` is violated |
| `FTTTrivialRoot` | 1 thread, `PreCompute` with roots 0 and 1 | `TrivialRootIsHarmless` is violated |
| `CRTDecompose` | 3 towers, `baseBits = 0` or 2 digits each; 142 536 states | `DigitsRunWarm`, `NoRebuildInUse`, `AnswersRight`, `WarmStaysWarm`, `DecompositionReturns` |
| `DCRTCareful` | 2 objects, basis of 2 moduli and 1 more, careful callers; 5 272 states | `TypeOK`, `Coherent`, `ValuesKept` |
| `DCRTCareless` | 2 objects, basis of 1 modulus and 1 more, careless callers, up to the first call that parts the bases; 70 896 states | `BasesPartByHand` |
| `DCRTPowers` | 1 object | `PowersOfBaseReturns` is violated |
| `NativeIntegers` | words of 10 bits, moduli up to 6 bits; `ModInverse` for signed words of 7 bits; 289 259 states | `TypesOK`, `LeavesResidue`, `ImplementsRing`, `ChecksHold`, `PlainExact`, `ReturnsInverse`, `NoOverflow`, `TrapsOnlyWithoutInverse`, `Terminates` |
| `NativeMulCheck` | products with `MulCheck`, words of 10 bits | `ProductsChecked` is violated |
| `Polynomials` | N = 2 modulo 5 and 13, N = 4 modulo 17; vectors of 2 and of 1 entries modulo 3 to 12; words of 9 bits there, of 11 for N = 2 and one coefficient over 5, 17, over 5, 17, 7, 11 and over 5, 17, 11, 13, 19; 39 916 states | `TypesOK`, `ImplementsRing`, `FourImplementRing`, `QueriesTruthful`, `ValuesAtMostModulus`, `CentresKept`, `BasesKeepNumber`, `RoundingsLand` |
| `Transforms` | words of 13 bits; N = 8 modulo 17; orders 3, 6 and 12 modulo 73; 3 threads in the maps; 47 238 states | `TypesOK`, `StagesExact`, `TransformsExact`, `Terminates`, `ArbExact`, `CallsReturn`, `LookupsHit`, `ColdCallsHit` |

In words:

- *Threads that keep to their own (length, modulus) pairs* are safe from cold caches on:
  this is the discipline of every loop over the towers of a polynomial. Their
  lookups still race with each other's insertions into the shared map; a missed
  lookup costs a rebuild of a thread's own object and nothing else.
- *Threads that share a cold key* keep the tables consistent and, as long as callers
  name one root for each (length, modulus), always compute with an object built for their
  root. What they do not have is `NoRebuildInUse`: two that miss together both build the
  object, and the second may assign over the first while it computes. The library avoids
  this by warming the caches, and `WarmStaysWarm` shows that warm caches stay so.
- *CRTDecompose* is the one loop of the library that shares moduli between iterations.
  `DigitsRunWarm` shows that the format switch before it, whichever its direction,
  leaves both caches warm for every tower, so none of its iterations builds anything, and no object is replaced
  under an iteration that computes through it (`NoRebuildInUse`): a switch that left an object of the wrong root or length, or a lookup
  that missed, would have two iterations rebuild the same one. And the decomposition returns.
- *DCRT polynomials* stay coherent for careful callers. Careless callers can spoil formats and end
  the process, and they part `m_params` from the towers only by handing one of the four operations above a tower or a modulus
  that does not belong where it is put (`BasesPartByHand`): no operation that drops, clones or combines towers and rebuilds `m_params` by hand does.
- *Modular integers* implement the residue ring in every variant, for any chain of
  operations, as long as dividends stay below `2^(2n+2)`. *Plain* integers: the checked
  sums and differences throw exactly when they should, and from what an in-place one leaves behind
  the operand can be recovered (`ChecksHold`); powers, rounding, double words and parsing are
  exact (`PlainExact`). *ModInverse* ends for every argument, within the signed word, and divides
  by zero only where there is no inverse.
- *Polynomials with one modulus* implement the ring, whatever their format
  (`ImplementsRing` with two values, `FourImplementRing` with four, where bit reversal is not the identity); digits times powers of the base make the product, and norms and the answer of
  `InverseExists` are true (`QueriesTruthful`); a switch of modulus keeps centred values and rounding
  rounds them (`CentresKept`). The modulus itself, which rounding, switches of modulus and automorphisms leave for a zero, is
  handed to operations that trust their operands to be below it; none makes anything larger of it (`ValuesAtMostModulus`).
- *Numbers over several moduli*: a coefficient keeps its number in every change of basis, up to as many multiples of the modulus as
  the conversion may add, and in the BEHZ sequence exactly, though the towers of `q` hold no part of it between
  `FastRNSFloorq` and `FastBaseConvSK` (`BasesKeepNumber`); each division ends at a nearest integer or, where its conversion is
  approximate or leaves fractions out, as near as that allows, with a remainder that is a multiple of the plaintext modulus where decryption needs it
  (`QuotientsNear` in `RNS`); a message with noise below a bound is read out, whichever way the doubles err
  (`MessagesReadOut`, with the other `RoundingsLand`). Towers that a function leaves stale would show as a number that is not the one before.
- *Butterflies*: after each stage a block holds the residues modulo its factor of
  `X^N + 1`, and every intermediate value is a residue (`StagesExact`), which is what a single
  conditional subtraction per butterfly relies on; the result is the transform
  (`TransformsExact`), and every network ends (`Terminates`).
- *Arbitrary orders*: a transform returns, exactly, whatever orders were transformed or reset before
  it over the same moduli (`CallsReturn`, `ArbExact`), though the order is in no key. Threads on warm
  maps miss no entry (`LookupsHit`); threads that all make the same first call neither miss one nor meet an insertion, and
  a thread alone finds what it looks up (`ColdCallsHit`). Threads with *different*
  cold calls can: see section 4.

Every property of a passing run has at least one mutant, a plausible bug in one modelled
definition (`KeyNoModulus`, `EnterCriticalUnguarded`, `StartDigitsEarly`, `ModSubFastUnguarded`,
`MultDSchoolNoCarry`, `IterateToNearest`, `SwitchEntryAtHalf`, `GetDigitAtIndexFromZero`,
`InsertForward`, ...), under which TLC finds the property violated. These definitions stand
next to the ones they vary and are used by nothing else.

### Bounds, and why they are enough

*Caches.* Nothing is unbounded: the caches are functions over the keys in use and the
local state is finite, so the runs bound the number of threads, moduli, ring dimensions
and objects, not the length of behaviours. Two threads suffice for a race on one key; three add a
thread that holds a lock while two others collide. Two ring dimensions over one modulus is what it takes
for one table to evict another. The numbers are real: 2 has order 8 modulo 17, 33
modulo 97, 3 modulo 41, and 4 has order 4 modulo 17. For `CRTDecompose` three towers let an iteration
meet two others over one modulus; two digits visit each tower twice.

*DCRT polynomials.* Two objects are enough, since an operation has at most two operands and may
leave its result in one of them; a basis of two moduli has a first, a last and an other tower.
`DCRTCareless` has one modulus and one more because careless callers reach every combination of
formats and contents. It goes no further where the bases have parted (`CONSTRAINT BasesAgree`, which TLC checks after the step): `BasesPartByHand` asks of a step only that it does not part
bases that agree, and what callers do to an object with two bases is not asked. The theorem `BasesPartOnlyByHand` covers every basis.
Both runs use the symmetry of the objects, which no operation tells apart.

*Words.* With 10 bits a modulus of 6 bits is the longest with a `mu` that fits, as one of 60 bits is for
64: Barrett's shift reaches its limit. The words combined are the neighbours of every multiple of a modulus, of every
power of two and of the square root of the word size, where a carry or a comparison changes. The theorems cover every
width. `ModInverse` sees every pair of a modulus up to 63 and an argument up to 70, so also arguments above the modulus and
every common factor.

*Polynomials.* Two coefficients are enough for a product to wrap around `X^N + 1`, but not for bit reversal
to do anything: hence `N = 4` for automorphisms in evaluation form, over the operations it matters to. Moduli of
vectors are odd and even, prime and composite, larger and smaller than each other; scalars lie below, at and
above them; `DivideAndRound`'s quotients have halves on either side.

*Coefficients.* Two moduli on each side of every conversion, so that sums have more than one term and overflow more than once; every
number of the two bases, so every distance from a multiple of a modulus, from a half and from a message. The products for BEHZ are the
multiples of 13 up to 63 times 63 either way, 63 being the largest a factor can be after Montgomery's conversion. Plaintext moduli are a power of two above the smallest modulus, one
below it, and an odd prime; with four lengths of a double every branch of the read-out is taken.

*Transforms.* Eight entries make three stages: a first, a middle and a last. Since a network is linear modulo q, vectors with
one and two entries other than zero, at the largest value, cover the values that a missing correction would spoil; the dense
ones add every butterfly at once. Orders 3, 6 and 12 are a prime, twice a prime and neither, the three cases of the code's
`Drop`, and share a modulus and `bigMod`, hence keys.

`CHECK_DEADLOCK FALSE` is set where the system really stops: a decomposition, an inversion or a
network returns, and a careless caller may end the process.

### Fairness

Three liveness properties are checked. `DecompositionReturns`: `DSpec` asks for weak fairness of each
loop iteration (an OpenMP thread that can run does run) and of the code between the
loops. No strong fairness is needed for the mutex or the critical section: each
iteration asks for them a finite number of times, so a thread that waits is passed only
finitely often. `Terminates`, of `ModInverse` and of `NTT`: weak fairness of the loop's only thread.
The other specifications assume no fairness.

## 4. What the runs found

1. **The NTT object outlives the tables it was built with** (`FTTTwoRoots`).
   `m_IntelNtt` is keyed by (length, modulus) and is touched neither by `Reset` nor by
   `PreCompute`, and a transform that finds a table does not look at its root. After `PreCompute(r1, ...)` a transform
   with `r2` finds the table of `r1`, builds the object, and builds it with `r2`; the next transform with `r1`, the root that was precomputed, finds table and object,
   keeps `reCompute` false, and computes with the object of `r2`.
   The header says the root passed is "used to precompute the root of unity tables if needed" and
   that `Reset` empties the cached values. OpenFHE names one root for each pair
   (`OneRootPerKey` in the models), which hides it.
2. **`PreCompute` with root 0 ends the process** (`FTTTrivialRoot`). Its comment says that
   for a root of 0 or 1 "the result == input"; the transforms do return early, but
   `PreCompute` inverts the root inside the critical section, where the exception
   that `ModInverse` throws may not leave.
3. **`HexlDCRTPolyImpl::PowersOfBase` dereferences null** (`DCRTPowers`). Each result
   is constructed without values, and with `HEXL_MUL_ENABLE` the code takes the
   address of the first element of its towers. The same lines also shift `twoPow` before its first
   use, so that the list would start with `base*x`, not with `x`.
4. **`MulCheck` misses overflows** (`NativeMulCheck`). "The multiplication operation with bounds
   checking" throws when the wrapped product is below one of its factors, and a product can wrap to a value that is below
   neither: in words of ten bits, 3 times 512 passes as 512.

Met while modelling, without a run of their own. The models have the code's behaviour.

| Where | What |
|---|---|
| `ubintnathexl.h:1352` | dividends are documented to be below `2^(2n+3)`; one correction of the quotient is enough below `2^(2n+2)` only |
| `ubintnathexl.h:244` | `SetValue` accepts any character below `'0'`, and its overflow test misses digits that wrap to a larger value |
| `ubintnathexl.h:1567` | `ModInverse` throws "does not have a ModInverse" for a multiple of the modulus only; any other argument without inverse reaches a division by zero |
| `ubintnathexl.h:1718` | digit indices count from one, the example in the comment from zero |
| `ubintnathexl.h:1747` | the last window of `BaseDecompose` can shift by the word's width or more, which is undefined |
| `mubintvecnathexl.cpp:505` | `DivideAndRound` leaves the modulus itself for a small negative entry |
| `mubintvecnathexl.cpp:430` | the vector `ModExp` reduces its exponent by the modulus, under which exponents do not wrap |
| `hexlpoly-impl.h:467` | `SwitchFormat` sets `m_format` before the transform; after an assignment of more strings than the ring has coefficients the transform throws, and coefficients are left marked as evaluations |
| `hexldcrtpoly-impl.h:190`, `:200` | the constructor from one polynomial and `operator=(const PolyType&)` leave the first tower with the modulus of the polynomial they copy, whatever `m_params` says |
| `hexlpoly-impl.h:402` | the automorphism of coefficients leaves `q` for a zero it negates |
| `transformnathexl-impl.h:1352` | for order 9, `Drop` reads past the end of the quotient |
| `transformnathexl-impl.h:974` | the Bluestein tables are read outside the critical section, while a call of another tower may be inserting into the same map |
| `transformnathexl.h` | the comment above `m_IntelNtt` gives its key as `<modulus, CycloOrderHalf>`, the code uses (length, modulus) |
| `hexldcrtpoly-impl.h:1000` | "Multiply everything by -t^(-1) mod P": the division is exact with the positive inverse only, which is what a table named `tInvModp` holds |
| `hexldcrtpoly-impl.h:1383` | a coefficient that rounds up to the plaintext modulus `t` is left as `t`, not as zero |
| `hexldcrtpoly-impl.h`, `AddILElementOne` | throws "Only available in COEFFICIENT format" unless the format is EVALUATION |

## 5. What is proved

All theorems hold for every value of the constants that satisfies the assumptions
named in the modules: any set of threads, moduli and requests; any two bases with distinct
moduli, any set of objects; any word width; any length, root and input of a butterfly network.

| Assumption | Says |
|---|---|
| `ModuliAssumption`, `CallsAssumption`, `NoThreadAssumption` | moduli are positive, each thread has a set of well-typed requests, and there is an owner that is no thread |
| `TowersAssumption`, `RequestsAssumption` | the towers have distinct moduli with proper roots, and one order, a power of two; the loops ask for in-place transforms over the towers |
| `BasesAssumption`, `CarefulAssumption` | both bases are non-empty and share no modulus, as an RNS basis requires |
| `WordAssumption`, `PowerAssumption` | words have more than seven bits; the law of powers of two up to `2^(2W)`, which the provers' arithmetic does not know, and which TLC evaluates at the width of each run |
| `NativeAssumption` | moduli have a `mu` that fits the word |
| `ArithAssumption` | a word has two halves (`W` is even), operands and exponents are words, strings are sequences of characters, moduli of powers are neither 0 nor 1 |
| `InverseAssumption` | moduli are positive signed words |
| `NTTAssumption` | the length `N` is a power of two and fits the word; moduli have a `mu`; the root is a residue with `root^N = -1`, a primitive `2N`-th root, as `PreCompute` is called with; `N` has an inverse, without which `PreCompute` throws; inputs are residues |
| `PolyAssumption` | the dimension `N` is a power of two below `2^W` and has an inverse; moduli leave two bits of the word free, as `MAX_MODULUS_SIZE` does; the root is a residue with `root^N = -1`; operands have `N` integers, lists as many as they like; integers are those of a word or a signed word; automorphism indices are odd, digit lengths positive |
| `VectorAssumption` | a vector is not empty; its moduli leave two bits of the word free; scalars are words (a hypothesis of the theorems; TLC evaluates it for both vectors of `MCPolynomial`) |
| `BasisAssumption` | moduli are odd, leave two bits of the word free and share no factor with those of the same basis, nor those of `Q` and `P` with a plaintext modulus; `Q` has two towers or more, so that one can be dropped; `mtilde` and `gamma` are powers of two, `mtilde` below the moduli of `Bsk` and at least twice the number of towers; doubles err by less than a half; `Product(P)` has room for as many multiples as `Q` has towers, and `Bsk` for what is left of a product after the division (a hypothesis of the theorem; TLC evaluates it for the bases of `MCPolynomial`) |
| `ArbAssumption` | an order is at least two, and twice it fits the word; a modulus has a `mu`, all residues but zero have inverses, and so has the order; the root is a residue of order `2 * order`, as the callers compute it; `bigMod` is above `order * modulus^2`, so that a convolution does not wrap; the polynomial is monic, a palindrome and zero at the primitive roots, as a cyclotomic polynomial is; a `bigMod` with a `bigRoot` belongs to one length |
| `CacheAssumption` | calls have a direction, and either divide or do not |

`OneRootPerKey`, `KeysApart`, `Careful`, `CallsKeepApart` and `Calls \subseteq Warm` are hypotheses of the theorems that
need them, not of the model. So are `PrimeModuli` (every residue but zero has an inverse, as modulo the primes the library picks) and
`Extra = {}` (a vector that is only given to functions which reduce). For `ArbTransform` they are `OneDivisionPerModulus` (the maps of the
division are keyed by modulus, so that a second order that divides would find the first one's) and `QuotientsReach` (the orders for which
`DivisionDim` is long enough; without it `Drop` reads past the end, as for order 9). TLC evaluates both for the rings of `MCTransforms`.

**CRTDecomposeProofs**, the caches:

| Theorem | States | Argument |
|---|---|---|
| `TypeCorrect` | `[]TypeOK` | inductive as it stands |
| `LocksExclude` | `[]LockInv` | a thread inside the critical section is its owner, and likewise for the mutex |
| `TablesConsistent` | `[]TablesAgree` | `TablesInv`: which of the three groups of tables a refilling thread has already written; needs `LockInv`, for at most one refills |
| `OwnRootAlways` | `OneRootPerKey => []ComputesWithOwnRoot` | an object that is present was built for the root of some request with its key; a thread past `useNtt` has its key present |
| `AnswersAlwaysRight` | with that and `KeysApart`, `[]AnswersRight` | `AnswerInv`, as long as `NoRebuildInUse` holds, which it does when keys are apart: no thread is ever torn |
| `CachesImplementService` | the same, `Spec => ImplementsService` | `Begin` maps to `Ask`, the step that finishes a call to `Answer`, every other step to a stutter |
| `WarmForGood` | `Spec => WarmStaysWarm` | a warm lookup hits, except while some thread inserts, and in a warm state none does |

`TablesAgree` is not inductive: it says nothing while a thread refills, and the last step of the refill
must know what the earlier ones wrote. `TablesInv` keeps that.

**CRTDecomposeProofs**, the loops. They are a client of the caches (`ClientOfCaches`: `DSpec => Spec`), so what
is proved of the caches holds of them; but they do not keep their keys apart, so the safety of sharing needs an
invariant of its own. `LoopInv`: in the first loop an iteration has its tower still to do or has called for it, and what it has
refilled is there, because no other iteration has its modulus; after the loop the caches are `Warm` and no
thread is on its way to fill them. At the barrier the first gives the second (`BarrierWarm`), and `WarmStep` keeps it.
From it: `DigitsAlwaysWarm`, `LoopsNeverRebuildInUse`, and with `AnswersStep` also `LoopsAnswerRight`.

**DCRTPolyProofs.** One inductive invariant, `IInv`: types; every object is `Loose`, which is to
say well-typed, not empty, with as many moduli in `m_params` as towers; and for careful callers also with
its basis and its formats agreed, and the process still running. `Coherent` alone is not inductive
because an operation may read the first and last towers: non-emptiness has to be carried along. An object is `Fit` if its basis agrees besides, as long as all bases have agreed so far
(`Tidy`): what an operation leaves is shown to be `Fit`, except for what the four that are handed a tower or a modulus leave, which
is `Loose` (`HandKeeps`). Each action has a lemma
that it keeps the invariant, from lemmas about the helpers (`Sliced`, `Converted`, `Folded`, ...).
From it: `TypeCorrect`, `BasesPartOnlyByHand` (for careless callers), `CarefulCoherent`. `ValuesAlwaysKept` is the action property: from a state where every tower of every object holds a vector, only a
construction without values and a product with too few constants lead to one where some tower does not. It needs the sizes and
bases of `IInv`, so that no tower is read that is not there.

**NativeWordProofs.** `BarrettEstimate` bounds the estimate that Barrett's method makes of a quotient: at most
one too small for a dividend below `2^(2n+2)`, with the two shifts of the code. From it, with the widths of the intermediate
values, `BarrettModExact`, `BarrettMulExact` and `BarrettMulDExact` (the variant without a wider word, whose double-word shift and
subtraction are proved exact first). `ShoupEstimate` gives `ShoupMulExact`: with a precomputed inverse the product is right for
operands up to the whole word. The module also has what the other proofs share: bounded sums, geometric sums of the powers of a root, values of
polynomials and their remainders, power series and Newton's iteration for their inverses, all modulo any number.

**NativeIntegerProofs.** Every action of `NativeInteger` does to the residue what the ring does (`CallInRing`), under
`Inv`: types, `LeavesResidue`, and `mu = ComputeMu(modulus)`, which the estimates need. Theorems: `NativeTypeCorrect`,
`NativeLeavesResidue`, `NativeImplementsRing`. For `NativeArith` the invariant is `ArithInv`, the type invariant with `ChecksHold` and `PlainExact`:
each action has a lemma that gives what it records (`call`), and each part of the two properties is about its own
operations. Behind the lemmas are the loops: `Exp` and `ModExp` multiply by the squares that the bits of the exponent name
(induction on the remaining exponent), strings are read a character at a time (induction on the prefix), lengths and low bits
are compared with the powers of two, the product of double words is put together from its halves, and rounding is
compared with the exact quotient. Theorems: `ArithTypeCorrect`, `ArithChecksHold`, `ArithPlainExact`.

**NTTProofs.** The invariant, `NTTInv`, has the types; that every entry is a residue; which values the loop variable takes, and ends
with; and one part for each kind of network.
- *Forward* (`BlocksHoldResidues`, which is `StagesExact`'s second half): a block of a stage is the input modulo `X^len - z`, and a butterfly with
  a square root `s` of `z` turns it into the residues modulo `X^(len/2) - s` and `X^(len/2) + s`. That the table entry of each
  block is such a root is a fact about bit reversal: twice the reversal of `2y + e` is the reversal of `y` plus `e N`.
- *Inverse* (`InverseHolds`): a block, as a polynomial, takes at each of its points (the powers that the reversals of its indices name) the same
  multiple of one entry of the input. A stage joins two blocks: at half of the points the differences cancel, at the
  other half the sums do. At the end the one block has the right values at `N` different roots.
- *Iterative* (`IterativeHolds`): a block holds the values, at its points, of every `(N/k)`-th coefficient; the two halves of a block are the odd and the even
  ones because the reversal of a block's middle is one high bit more. With the inverse table it holds coefficients for such values instead.

The last step multiplies by the inverse of the length, which undoes the factor `N` that the stages have collected. Theorems:
`NTTTypeCorrect`, `StagesAlwaysExact`, `TransformsAlwaysExact`. `TransformsExact` alone says nothing before the last stage, and `StagesExact` nothing about
the inverse networks: neither is inductive.

Loops, recursive functions and folds are reasoned about by induction over a set: a set of naturals that is not empty has a smallest member
(`WFMin` with `NatLessThanWellFounded`), and a fold over a finite set exists and can be unrolled at any member (`FoldExists`,
`FoldUnroll` in `NativeWordProofs`).

**HexlPolyProofs.** The refinement: every call on a `HexlPoly` does to the element of `Z_q[X]/(X^N + 1)` what `PolyRing` says of it, in
whichever format it finds the values. The invariant, `PolyInv`, has the format, the parameters and one fact that matters: there are no values, or
as many as the ring has, each up to the modulus, *the modulus itself included*, which rounding, switches of modulus and
automorphisms of coefficients leave for a zero. Values below the modulus would not be inductive, and words would not be enough for the single
corrections of the sums. What values mean is `Stands(format, params, x, values)`: as coefficients they are congruent to `x` entry by
entry, as evaluations they are congruent to the products of `x` with the rows of the forward transform. The argument, from the bottom:
- sums over `0 .. N - 1`: linear, exchangeable, the same after a permutation;
- powers of the root cancel (`PowersCancel`, by induction on the exponent of two: half of them are the others negated), so the rows
  of the forward and the inverse transform are orthogonal (`ForwardOrthogonal`, `BackwardOrthogonal`), each transform undoes the
  other (`InverseEvaluates`, `InverseRecovers`), and a change of format keeps the element;
- reversing the bits of an index twice gives it back (`ReversalInvolutive`);
- evaluation is linear, takes products modulo `X^N + 1` to products of values (`EvaluatesTimes`: `X^N` is -1 at every point), constants to constants, and
  `X -> X^k` to the permutation that the code precomputes (`EvaluatesAtPower`);
- the functions of single entries (sums, products, `SwitchEntry`, `ModEntry`, the roundings) are congruent to what they stand for, or have the
  centre they should, for entries up to the modulus (lemmas of `NativeWordProofs`, which the vectors share);
- one lemma for each action (`PlusPolyStep`, ..., `AssignStringsStep`): it keeps `PolyInv` and is a step of the ring. The entries past `N` are in
  no lemma but that of `SwitchFormat`, since no value depends on them.

What is read off a polynomial needs no step, only `PolyInv` and the constants:
- digits: a digit of a coefficient is a window of its bits, so the windows times their powers of the base are the coefficient
  (`WindowsCover`, by induction on the windows), and the ring's product is linear (`DigitsAreTrue`);
- the norm is the distance of a coefficient to the nearest multiple of the modulus, the largest of them (`NormIsTrue`);
- `InverseExists` looks for a zero among the evaluations: an element has an inverse where none is zero, because the product is one value by value,
  and modulo a prime each value has its own (`InverseIsTrue`).

Theorems: `PolyTypeCorrect`, `ValuesNeverExceed` (`ValuesAtMostModulus`), `PolyImplementsRing` (`ImplementsRing`), `AnswersAlwaysTrue` (`QueriesTruthful`).

**ResidueProofs**, the loop. `ReturnsInverse` speaks of the last step only. `Inv` carries the loop: `Bezout` (`x` and `y` times the
argument are `a` and `rest` modulo the modulus), `Expressed` (the argument and modulus are combinations of `a` and `rest`, so
that a trap at `rest = 0` exhibits a common factor), and `Sized` (the coefficients stay below the modulus in absolute value, with
alternating signs, so that nothing overflows). From it: `InverseTypeCorrect`, `InverseCorrect`, `InverseNoOverflow`, `InverseTraps`.
`LoopComputesInverse` joins the loop to the vectors, which take `InverseOf` for it: what the loop returns is that inverse, and there is
none where it dies.

**ResidueProofs**, the vectors. The invariant, `VecInv`, is that the modulus is one of `Moduli`, the entries are words, and below the modulus if
no function is called that leaves them unreduced (`Extra = {}`): each member function keeps it (`VectorTypeCorrect`,
`EntriesStayBelow`). `VectorKeepsCentres` is the action property `CentresKept`: the two conditional subtractions of a switch of modulus agree
with reducing the centred value, a reduction modulo two with its parity, and the roundings with a nearest integer.
It holds of unreduced entries as far as the property says, so that it does not need `Extra = {}`.

**ResidueProofs**, the numbers. `BasesAlwaysKeepNumber` is the action property `BasesKeepNumber` of `RNS`, for every number and size of towers, in these steps:
- *Chinese remainder theorem*: numbers without a common factor are invertible modulo each other (by Bezout's identity, `CoprimeInvertible`), so is a product
  modulo what its factors are, and `Number`, which lifts from modulus to modulus, finds the one number below the product with the given
  residues (`NumberFacts`). Sums and products over towers are folds, turned into recursive functions on prefixes first.
- *Conversions*: with `HatInv`, the terms `residue * HatInv * Hat` add up to that number and a multiple of the product (`InvertedOnce`). A conversion differs from
  another in what it does with the multiple: it leaves it (`ApproxNumber`), counts it in doubles (`SwitchedCRTBasis`; the count is off by one at most, because the doubles
  err by less than a half, and that is the centring), makes it one that `mtilde` divides (`MontgomeryFacts`), or counts it in a redundant modulus (`ShenoyFacts`).
- *BEHZ*: a call alone does not keep the number, since the multiples have to fit the redundant modulus. The invariant, `NumberInv`, has the residues reduced in every
  basis, in the basis with `Bsk` a number small enough to divide (`Dividable`) which they stand for, and after `FastRNSFloorq` one small enough to convert back
  (`Convertible`) that those in `Bsk` stand for, and nothing of those in `Q`. It speaks of some integer, so TLC does not evaluate it; the run
  checks the property itself.

The proof shows what the code asks of its callers without a check. `FastBaseConvSK` takes `msk` from the count in a modulus of `Q` by
`alphaskBModqj.ModSubFast(msk, q)` (`hexldcrtpoly-impl.h:1934`), which wraps around the word when the count and `q` together are below `msk`: the size of the product must keep the count in
`-q .. q` as well as in half of `msk`. This is the last part of `BasisAssumption`.

**ArbProofs**, the caches. `CallsKeepApart`: in every map, any two calls of different threads use either entries that were filled at the start or, in a map
other than that of the divisions, one and the same key. The invariant has `Base` (types, the owner of the critical section, who is at which map) and `Apart`: what is
filled stays filled, a thread inside the section has the maps behind it filled and inserts only what is not there, a
thread outside has its three maps filled (`StaysFilled`, `Follows`). A thread that inserts and one that reads the same map would disagree about the one key they
share. Theorems: `ArbTypeCorrect`, `CriticalSectionHolds`, `ApartLookupsHit`, `ApartReadsAlone`, and the cases that callers meet:
`WarmLookupsHit` (on filled maps), `OneCallHits` (all threads make one call, with no division), `OneThreadHits` (a thread alone).

**ArbProofs**, the tables. The order sizes a table and is in no key. The invariant, `ArbInv`, says why that is enough: a modulus and a root determine the
order (`KeysDetermineOrder`, because the root has order `2 * order`), so a table that is not empty is the one of *each* ring with its key (`TablesInv`), and
so are the divisions, under `OneDivisionPerModulus`. A table of another length would throw and one too short would be read past its
end, so that every transform starts from the table that its order needs. What the two hypotheses exclude, the code does not: they
are the conditions under which the result below is right, and not facts about its callers.

**ArbProofs**, the transforms. `ArbAlwaysExact` is `[]ArbExact`, for every order and modulus, prime, twice a prime or neither.
- *Forward*: `2ik` is `i^2 + k^2 - (k - i)^2`, so the sum over `x[i] root^(2ik)` is a convolution with the table of inverse squares; the convolution of length
  `NttDim` modulo `bigMod` neither wraps in its index nor in its value (`BluesteinEvaluates`, `ForwardEvaluates`).
- *Inverse*: the same with the inverse root. The sum of the powers of a root is zero unless the root is one (there are no zero divisors), so after the
  scaling by the inverse of the order the vector takes the given values at the primitive roots and is zero at the others (`TransformInverts`).
- *`Drop`* keeps the values at the primitive roots and brings the degree below the totient (`DropExact`). For a prime order one multiple of
  `1 + X + ... + X^n` goes (`PrimeDropped`); for twice a prime the two halves fold first, because the middle power of a primitive root is minus
  one (`TwicePrimeDropped`). Otherwise the quotient is found from the top: the leading coefficients, reversed, times the inverse of the
  reversed polynomial as a power series, which Newton's iteration gets right to twice as many terms each round
  (`InversePolyModInverts`); a cyclotomic polynomial is its own reverse, its product with the quotient agrees with the vector above the totient, and
  vanishes at the primitive roots, so what is left has the same values (`DividingDropped`).

Only model-checked:
- liveness (`DecompositionReturns`, `Terminates`), out of the prover's reach here;
- `MCNativeInteger`'s, `MCTransforms`' and `MCPolynomial`'s `TypesOK`, which put together the components of a run; of the first the parts are
  `NativeTypeCorrect`, `ArithTypeCorrect` and `InverseTypeCorrect`, of the second two are `NTTTypeCorrect` and `ArbTypeCorrect` (the maps under threads), of the third they are `PolyTypeCorrect`,
  `EntriesStayBelow` (for the pair of entries) and `VectorTypeCorrect`, without `RNS`;
- `CallsReturn`, for the orders of the run, 3, 6 and 12: the invariant behind `ArbAlwaysExact` has it too, but under hypotheses that say nearly as much;
- `ColdCallsHit` as the run has it; its cases are `OneCallHits` and `OneThreadHits`;
- `FourImplementRing`, which is `PolyImplementsRing` for the instance of the run with four values, and `CentresKept` of the two vectors of the run, which
  is `VectorKeepsCentres`;
- `RNS`'s `RoundingsLand`, that is `QuotientsNear` and `MessagesReadOut`; `BasesKeepNumber` of the run is `BasesAlwaysKeepNumber` for its bases.

To check everything: `tlc -config X.cfg M` for each run, and `tlapm` on `NativeWordProofs`, `NativeIntegerProofs`, `ResidueProofs`,
`CRTDecomposeProofs`, `DCRTPolyProofs`, `ArbProofs`, `NTTProofs` and `HexlPolyProofs` (the first, the third and the last three take some minutes each).

## 6. What could be added

- `RoundingsLand` for every basis: the lemmas about residues and conversions are there, the fractions and their rounding
  are left.
- The formats of the BEHZ sequence in `DCRTPoly`.
- `HexlPoly` takes its transforms as sums of powers, and `TransformsAlwaysExact` shows the butterflies to compute values at powers: a theorem that
  these are the same sums would join the two.

## 7. Not modelled, and why

- **Floating point.** `RNS` has a sum of doubles as the exact sum with a bounded error, the bound being that of the comments;
  that 53 bits keep it is not shown.
- Operations of `HexlDCRTPolyImpl` that only scale, add an integer or reorder each tower change nothing that
  `DCRTPoly` shows; what they do to a tower is in `HexlPoly`.
- `Reset` during a transform, and crashes from racing on a `std::map`: undefined
  behaviour beyond what the nondeterministic choices above cover.
- `ChineseRemainderTransformArbNat::PreCompute` and `PreComputeDefaultNTTModulusRoot`: they choose a prime with `FirstPrime` and
  `RootOfUnity`, which are code of the main library. `ArbTransform` gets rings with such a prime as constants, one dividing
  ring for each modulus (`OneDivisionPerModulus`), and does the arithmetic modulo `bigMod` exactly.
- `HexlPolyImpl::DecryptionCRTInterpolate`, random sampling, serialization, printing and conversion to floating point: no state
  of the library changes, or only by a distribution.
- Backend headers, explicit instantiations: no behaviour. Build and staging scripts,
  benchmarks, `utils/`: pure I/O. Intel HEXL itself: third-party, modelled by what it computes.
