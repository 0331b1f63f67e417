------------------------- MODULE BootAndLoadProofs -------------------------
(***************************************************************************)
(* What is read from files and guest memory is read where it is, and what  *)
(* is said of it is so. A parser is a sequence of steps (CheckedReads),    *)
(* and it is sound when every read of a step is in range once that step's  *)
(* check and the ones before it hold: then every read it makes is in       *)
(* range, wherever it returns. Sound parsers are composed of sound parts   *)
(* (Then, ForEach, \o), so the proof of a parser has the structure of its  *)
(* code: first the composition lemmas, then the boot ELF, the boot path    *)
(* and the overlay inspection of OverlayCoherence, the collision decoder   *)
(* of CollisionMesh, and the decoders of a level's file, textures, sky,    *)
(* terrain and static scene; LevelProofs goes on from these. An induction  *)
(* over the turns of a loop takes the first turn that would be wrong.      *)
(***************************************************************************)
EXTENDS NativeReplacementProofs, OverlayCoherence, CollisionMesh, LevelContainer,
        TerrainMesh, SkyMesh, StaticScene, RenderParity

----------------------------------------------------------------------------
(* Steps, and what makes a sequence of them sound.                         *)

InRange(read) == read[1][1] >= 0 /\ RangeFits(read[1], read[2])

\* A sequence, without a set its elements are in.
IsSteps(s) == Len(s) \in Nat /\ s = [i \in 1 .. Len(s) |-> s[i]]

AllHold(s) == \A i \in DOMAIN s : s[i].holds

\* The verdicts of the inspector and "Ok" are not names of failures.
Verdicts ==
  {"Ok", "OverlayNotMaterialized", "NoRegisteredFallbackOverlap", "NoComparableFallbackOverlap",
   "NoStaticConflictObserved", "StaleFallbackConflictProved"}

FailuresNamed(s) == \A i \in DOMAIN s : ~s[i].holds => s[i].failure \notin Verdicts

\* A step's reads are in range when its check and those before it hold.
Guarded(s) ==
  \A i \in DOMAIN s : (\A j \in 1 .. i : s[j].holds) => \A read \in s[i].reads : InRange(read)

Sound(s) == IsSteps(s) /\ FailuresNamed(s) /\ Guarded(s)

(* Min of a set of naturals is in it and is least.                         *)
LEMMA MinIsLeast ==
  ASSUME NEW S \in SUBSET Nat, S # {}
  PROVE  Min(S) \in S /\ \A k \in S : Min(S) <= k
BY LeastNatural DEF Min

(* FirstFailure finds a check that fails after checks that hold, or none.  *)
LEMMA FirstFailureFacts ==
  ASSUME NEW s, IsSteps(s)
  PROVE  /\ FirstFailure(s) = 0 <=> AllHold(s)
         /\ FirstFailure(s) # 0 =>
              /\ FirstFailure(s) \in DOMAIN s /\ ~s[FirstFailure(s)].holds
              /\ \A j \in 1 .. FirstFailure(s) - 1 : s[j].holds
<1> DEFINE failing == {i \in DOMAIN s : ~s[i].holds}
<1>1. DOMAIN s = 1 .. Len(s) /\ Len(s) \in Nat
  BY DEF IsSteps
<1>2. failing \in SUBSET Nat /\ 0 \notin failing
  BY <1>1
<1>3. CASE failing = {}
  BY <1>3, <1>1 DEF FirstFailure, AllHold
<1>4. CASE failing # {}
  <2>1. Min(failing) \in failing /\ \A k \in failing : Min(failing) <= k
    <3> HIDE DEF failing
    <3> QED BY <1>2, <1>4, MinIsLeast
  <2>2. FirstFailure(s) = Min(failing)
    BY <1>4 DEF FirstFailure
  <2>3. FirstFailure(s) \in DOMAIN s /\ ~s[FirstFailure(s)].holds /\ FirstFailure(s) # 0
    BY <2>1, <2>2, <1>2
  <2>4. ASSUME NEW j \in 1 .. FirstFailure(s) - 1 PROVE s[j].holds
    <3>1. j \in DOMAIN s /\ ~(FirstFailure(s) <= j)
      BY <2>3, <1>1
    <3> QED BY <3>1, <2>1, <2>2
  <2> QED
    BY <2>3, <2>4 DEF AllHold
<1> QED
  BY <1>3, <1>4

(* Every read a sound parser makes before it returns is in range.          *)
LEMMA ReadsOfSteps ==
  ASSUME NEW s, Sound(s), NEW read \in ReadsOf(s)
  PROVE  InRange(read)
<1> DEFINE first == FirstFailure(s)
           made == IF first = 0 THEN s ELSE SubSeq(s, 1, first - 1)
<1>0. DOMAIN s = 1 .. Len(s) /\ Len(s) \in Nat /\ IsSteps(s)
  BY DEF IsSteps, Sound
<1>1. PICK i \in DOMAIN made : read \in made[i].reads
  BY DEF ReadsOf, Range
<1>2. CASE first = 0
  <2>1. AllHold(s) /\ read \in s[i].reads /\ i \in DOMAIN s
    BY <1>0, <1>1, <1>2, FirstFailureFacts
  <2> QED
    BY <2>1, <1>0 DEF AllHold, Sound, Guarded
<1>3. CASE first # 0
  <2>1. first \in 1 .. Len(s) /\ \A j \in 1 .. first - 1 : s[j].holds
    BY <1>0, <1>3, FirstFailureFacts
  <2>2. i \in 1 .. first - 1 /\ made[i] = s[i]
    BY <2>1, <1>0, <1>1, <1>3 
  <2> QED
    BY <2>1, <2>2, <1>1, <1>0 DEF Sound, Guarded
<1> QED
  BY <1>2, <1>3

(* It returns Ok exactly when all its checks hold, and else no verdict.    *)
LEMMA OutcomeOk ==
  ASSUME NEW s, Sound(s)
  PROVE  /\ Outcome(s) = "Ok" <=> AllHold(s)
         /\ Outcome(s) # "Ok" => Outcome(s) \notin Verdicts
BY FirstFailureFacts DEF Sound, Outcome, FailuresNamed, Verdicts

(* Concatenation, element by element: \o of sequences of anything.         *)
LEMMA ConcatSteps ==
  ASSUME NEW a, NEW b, IsSteps(a), IsSteps(b)
  PROVE  /\ IsSteps(a \o b) /\ Len(a \o b) = Len(a) + Len(b)
         /\ \A i \in 1 .. Len(a) : (a \o b)[i] = a[i]
         /\ \A i \in 1 .. Len(b) : (a \o b)[Len(a) + i] = b[i]
<1> DEFINE S == {a[i] : i \in 1 .. Len(a)} \union {b[i] : i \in 1 .. Len(b)}
<1>1. a \in Seq(S) /\ b \in Seq(S)
  <2>1. Len(a) \in Nat /\ a \in [1 .. Len(a) -> S]
    BY DEF IsSteps
  <2>2. Len(b) \in Nat /\ b \in [1 .. Len(b) -> S]
    BY DEF IsSteps
  <2> HIDE DEF S
  <2> QED BY <2>1, <2>2, SeqDef
<1> HIDE DEF S
<1>2. /\ a \o b \in Seq(S) /\ Len(a \o b) = Len(a) + Len(b)
      /\ \A i \in 1 .. Len(a) + Len(b) :
           (a \o b)[i] = IF i <= Len(a) THEN a[i] ELSE b[i - Len(a)]
      /\ Len(a) \in Nat /\ Len(b) \in Nat
  BY <1>1, ConcatProperties, LenProperties
<1>3. IsSteps(a \o b)
  BY <1>2, LenProperties DEF IsSteps
<1>4. ASSUME NEW i \in 1 .. Len(a) PROVE (a \o b)[i] = a[i]
  BY <1>2
<1>5. ASSUME NEW i \in 1 .. Len(b) PROVE (a \o b)[Len(a) + i] = b[i]
  <2>1. Len(a) + i \in 1 .. Len(a) + Len(b) /\ ~(Len(a) + i <= Len(a)) /\ Len(a) + i - Len(a) = i
    BY <1>2
  <2> QED BY <2>1, <1>2
<1> QED
  BY <1>2, <1>3, <1>4, <1>5

(* All checks of a concatenation hold when those of both parts do.         *)
LEMMA ConcatAllHold ==
  ASSUME NEW a, NEW b, IsSteps(a), IsSteps(b)
  PROVE  AllHold(a \o b) <=> AllHold(a) /\ AllHold(b)
<1>1. DOMAIN (a \o b) = 1 .. Len(a) + Len(b) /\ DOMAIN a = 1 .. Len(a) /\ DOMAIN b = 1 .. Len(b)
      /\ Len(a) \in Nat /\ Len(b) \in Nat
  BY ConcatSteps DEF IsSteps
<1>2. ASSUME AllHold(a \o b) PROVE AllHold(a) /\ AllHold(b)
  <2>1. ASSUME NEW i \in DOMAIN a PROVE a[i].holds
    <3>1. i \in DOMAIN (a \o b) /\ (a \o b)[i] = a[i]
      BY <1>1, ConcatSteps
    <3> QED BY <3>1, <1>2 DEF AllHold
  <2>2. ASSUME NEW i \in DOMAIN b PROVE b[i].holds
    <3>1. Len(a) + i \in DOMAIN (a \o b) /\ (a \o b)[Len(a) + i] = b[i]
      BY <1>1, ConcatSteps
    <3> QED BY <3>1, <1>2 DEF AllHold
  <2> QED BY <2>1, <2>2 DEF AllHold
<1>3. ASSUME AllHold(a), AllHold(b), NEW i \in DOMAIN (a \o b) PROVE (a \o b)[i].holds
  <2>1. CASE i <= Len(a)
    BY <2>1, <1>1, <1>3, ConcatSteps DEF AllHold
  <2>2. CASE ~ (i <= Len(a))
    <3>1. i - Len(a) \in 1 .. Len(b) /\ i = Len(a) + (i - Len(a))
      BY <2>2, <1>1, <1>3
    <3> QED BY <3>1, <1>1, <1>3, ConcatSteps DEF AllHold
  <2> QED BY <2>1, <2>2
<1> QED
  BY <1>2, <1>3 DEF AllHold

(* Steps whose reads rely on the checks of the steps before them.          *)
LEMMA ConcatSound ==
  ASSUME NEW a, NEW b, Sound(a), IsSteps(b), FailuresNamed(b), AllHold(a) => Guarded(b)
  PROVE  Sound(a \o b) 
<1> DEFINE s == a \o b
<1>1. DOMAIN s = 1 .. Len(a) + Len(b) /\ DOMAIN a = 1 .. Len(a) /\ DOMAIN b = 1 .. Len(b)
      /\ Len(a) \in Nat /\ Len(b) \in Nat /\ IsSteps(a) /\ IsSteps(s)
      /\ \A i \in 1 .. Len(a) : s[i] = a[i]
  BY ConcatSteps DEF IsSteps, Sound
<1>4. \A i \in 1 .. Len(b) : s[Len(a) + i] = b[i]
  BY <1>1, ConcatSteps
<1> HIDE DEF s
<1>2. ASSUME NEW i \in DOMAIN s, i <= Len(a)
      PROVE  /\ ~s[i].holds => s[i].failure \notin Verdicts
             /\ (\A j \in 1 .. i : s[j].holds) => \A read \in s[i].reads : InRange(read)
  <2>1. i \in DOMAIN a /\ s[i] = a[i] /\ \A j \in 1 .. i : s[j] = a[j]
    BY <1>1, <1>2
  <2> QED BY <2>1 DEF Sound, FailuresNamed, Guarded
<1>3. ASSUME NEW i \in DOMAIN s, ~(i <= Len(a))
      PROVE  /\ ~s[i].holds => s[i].failure \notin Verdicts
             /\ (\A j \in 1 .. i : s[j].holds) => \A read \in s[i].reads : InRange(read)
  <2>0. i - Len(a) \in 1 .. Len(b) /\ i = Len(a) + (i - Len(a))
    BY <1>1, <1>3
  <2>1. PICK k \in 1 .. Len(b) : i = Len(a) + k
    BY <2>0
  <2>3. s[i] = b[k]
    BY <2>1, <1>4, Zenon
  <2>2. ASSUME \A j \in 1 .. i : s[j].holds PROVE AllHold(a) /\ \A j \in 1 .. k : b[j].holds
    <3>1. ASSUME NEW j \in DOMAIN a PROVE a[j].holds
      <4>1. j \in 1 .. i /\ s[j] = a[j]
        BY <1>1, <2>1
      <4> QED BY <4>1, <2>2
    <3>2. ASSUME NEW j \in 1 .. k PROVE b[j].holds
      <4>1. j \in 1 .. Len(b) /\ Len(a) + j \in 1 .. i
        BY <1>1, <2>1
      <4>2. s[Len(a) + j] = b[j]
        BY <1>4, <4>1, Zenon
      <4> QED BY <4>1, <4>2, <2>2
    <3> QED BY <3>1, <3>2 DEF AllHold
  <2> QED BY <2>1, <2>2, <2>3, <1>1 DEF FailuresNamed, Guarded
<1> QED
  BY <1>1, <1>2, <1>3 DEF Sound, FailuresNamed, Guarded, s

(* Then: what comes after need be sound only when the first part holds.    *)
LEMMA ThenSound ==
  ASSUME NEW a, NEW b, Sound(a), AllHold(a) => Sound(b)
  PROVE  /\ Sound(Then(a, b))
         /\ AllHold(Then(a, b)) => AllHold(a) /\ AllHold(b)
<1>1. CASE AllHold(a)
  <2>1. Then(a, b) = a \o b
    BY <1>1, FirstFailureFacts DEF Then, Sound
  <2>2. Sound(b) /\ IsSteps(a) /\ IsSteps(b) /\ FailuresNamed(b) /\ Guarded(b)
    BY <1>1 DEF Sound
  <2> QED BY <2>1, <2>2, ConcatSound, ConcatAllHold
<1>2. CASE ~AllHold(a)
  <2>1. Then(a, b) = a
    BY <1>2, FirstFailureFacts DEF Then, Sound
  <2> QED BY <2>1, <1>2
<1> QED BY <1>1, <1>2

\* f is the function ForEach defines, up to turn k.
Unfolds(f, turns, k) ==
  f = [i \in 0 .. k |-> IF i = 0 THEN <<>> ELSE Then(f[i - 1], turns[i])]

(* That function exists, so CHOOSE in its definition picks it.             *)
LEMMA UnfoldsExists ==
  ASSUME NEW turns, NEW n \in Nat
  PROVE  \E f : Unfolds(f, turns, n)
<1> DEFINE Bad == {k \in Nat : ~ \E f : Unfolds(f, turns, k)}
<1>1. SUFFICES ASSUME Bad # {} PROVE FALSE
  OBVIOUS
<1>2. PICK m \in Bad : \A k \in Bad : m <= k
  BY <1>1, LeastNatural
<1>3. CASE m = 0
  <2> DEFINE f == [i \in 0 .. 0 |-> <<>>]
  <2>1. Unfolds(f, turns, 0)
    BY DEF Unfolds
  <2> QED BY <2>1, <1>3, <1>2
<1>4. CASE m # 0
  <2>1. m \in Nat /\ m - 1 \in Nat /\ m - 1 \notin Bad
    BY <1>2, <1>4
  <2>2. PICK f : Unfolds(f, turns, m - 1)
    BY <2>1
  <2> DEFINE g == [i \in 0 .. m |-> IF i = m THEN Then(f[m - 1], turns[m]) ELSE f[i]]
  <2>3. ASSUME NEW i \in 0 .. m
        PROVE  g[i] = IF i = 0 THEN <<>> ELSE Then(g[i - 1], turns[i])
    <3>1. CASE i = m
      <4>1. g[m - 1] = f[m - 1] /\ g[m] = Then(f[m - 1], turns[m])
        BY <2>1
      <4> HIDE DEF g
      <4> QED BY <4>1, <3>1, <1>4
    <3>2. CASE i # m
      <4>1. i \in 0 .. m - 1 /\ g[i] = f[i] /\ (i # 0 => i - 1 \in 0 .. m /\ g[i - 1] = f[i - 1])
        BY <2>1, <2>3, <3>2
      <4>2. f[i] = IF i = 0 THEN <<>> ELSE Then(f[i - 1], turns[i])
        BY <2>2, <4>1 DEF Unfolds
      <4> HIDE DEF g
      <4> QED BY <4>1, <4>2
    <3> QED BY <3>1, <3>2
  <2>4. g = [i \in 0 .. m |-> g[i]]
    OBVIOUS
  <2>5. Unfolds(g, turns, m)
    <3> HIDE DEF g
    <3> QED BY <2>3, <2>4 DEF Unfolds
  <2> QED BY <2>5, <1>2
<1> QED BY <1>3, <1>4

(* No steps at all.                                                        *)
LEMMA NoStepsSound == Sound(<<>>)
BY DEF Sound, IsSteps, FailuresNamed, Guarded

(* A function on 1 .. n is a sequence of length n.                         *)
LEMMA LenOfFunction ==
  ASSUME NEW f, NEW n \in Nat, f = [i \in 1 .. n |-> f[i]]
  PROVE  Len(f) = n /\ DOMAIN f = 1 .. n
<1> DEFINE S == {f[i] : i \in 1 .. n}
<1>1. f \in [1 .. n -> S]
  OBVIOUS
<1>2. f \in Seq(S)
  <2> HIDE DEF S
  <2> QED BY <1>1, SeqDef
<1>3. Len(f) \in Nat /\ DOMAIN f = 1 .. Len(f) /\ DOMAIN f = 1 .. n
  BY <1>1, <1>2, LenProperties
<1> HIDE DEF S
<1>4. Len(f) = n
  BY <1>3
<1> QED BY <1>3, <1>4

(* A loop of sound turns is sound, and holds when each turn does.          *)
LEMMA ForEachSound ==
  ASSUME NEW turns, NEW n \in Nat, turns = [i \in 1 .. n |-> turns[i]],
         \A i \in 1 .. n : Sound(turns[i])
  PROVE  /\ Sound(ForEach(turns))
         /\ AllHold(ForEach(turns)) => \A i \in 1 .. n : AllHold(turns[i])
<1> DEFINE upTo == CHOOSE f : f = [i \in 0 .. n |-> IF i = 0 THEN <<>> ELSE Then(f[i - 1], turns[i])]
<1>1. ForEach(turns) = upTo[n]
  BY LenOfFunction DEF ForEach
<1>2. Unfolds(upTo, turns, n)
  BY UnfoldsExists DEF Unfolds
<1> HIDE DEF upTo
<1>3. upTo[0] = <<>> /\ \A i \in 1 .. n : upTo[i] = Then(upTo[i - 1], turns[i])
  BY <1>2 DEF Unfolds
<1> DEFINE Good(i) == /\ Sound(upTo[i])
                      /\ AllHold(upTo[i]) => \A j \in 1 .. i : AllHold(turns[j])
           Bad == {i \in 0 .. n : ~Good(i)}
<1>4. Bad = {}
  <2>1. SUFFICES ASSUME Bad # {} PROVE FALSE
    OBVIOUS
  <2>2. PICK m \in Bad : \A k \in Bad : m <= k
    <3>1. Bad \in SUBSET Nat
      OBVIOUS
    <3> HIDE DEF Bad
    <3> QED BY <2>1, <3>1, LeastNatural
  <2>3. m # 0
    <3>1. Good(0)
      BY <1>3, NoStepsSound
    <3> HIDE DEF Good
    <3> QED BY <3>1, <2>2
  <2>4. m \in 1 .. n /\ m - 1 \in 0 .. n /\ ~(m <= m - 1) /\ ~Good(m)
    <3> HIDE DEF Good
    <3> QED BY <2>2, <2>3
  <2>5. Good(m - 1)
    <3> HIDE DEF Good
    <3> QED BY <2>4, <2>2
  <2>6. upTo[m] = Then(upTo[m - 1], turns[m])
    BY <1>3, <2>4
  <2>7. Sound(upTo[m]) /\ (AllHold(upTo[m]) => AllHold(upTo[m - 1]) /\ AllHold(turns[m]))
    BY <2>4, <2>5, <2>6, ThenSound
  <2>8. ASSUME AllHold(upTo[m]), NEW j \in 1 .. m PROVE AllHold(turns[j])
    <3>1. j = m \/ j \in 1 .. m - 1
      BY <2>4
    <3> QED BY <3>1, <2>5, <2>7, <2>8
  <2>9. Good(m)
    BY <2>7, <2>8
  <2> HIDE DEF Good
  <2> QED BY <2>4, <2>9
<1>5. Good(n)
  <2> HIDE DEF Good
  <2> QED BY <1>4
<1> QED BY <1>1, <1>5

(* A single check.                                                         *)
LEMMA OneHolds ==
  ASSUME NEW a
  PROVE  AllHold(<<a>>) <=> a.holds
<1> DEFINE s == <<a>>
<1>1. DOMAIN s = {1} /\ s[1] = a
  OBVIOUS
<1> HIDE DEF s
<1> QED BY <1>1 DEF AllHold, s

----------------------------------------------------------------------------
(* The boot ELF.                                                           *)

(* The ELF parser reads the header and table inside the file, and a file   *)
(* it accepts has every program header checked.                            *)
LEMMA ElfSound ==
  Sound(ElfSteps(BootElf)) /\
  (ElfStatus(BootElf) = "Ok" =>
     \A i \in DOMAIN BootElf.headers : AllHold(ProgramHeaderSteps(BootElf, i)))
<1> DEFINE n == Len(BootElf.headers)
           turns == [i \in DOMAIN BootElf.headers |-> ProgramHeaderSteps(BootElf, i)]
           table == <<BootElf.tableAt, BootElf.entryBytes * n>>
           header ==
             <<Require("FileOpenFailed", BootElf.readable, {}),
               Require("FileTooSmall", BootElf.bytes >= kElf32HeaderBytes,
                       {Bytes(0, 46, BootElf.bytes)}),
               Require("InvalidHeader", BootElf.header, {}),
               Require("InvalidProgramHeaders",
                       BootElf.entryBytes >= kElf32ProgramHeaderBytes
                         /\ RangeFits(table, BootElf.bytes), {})>>
           last == <<Require("NoLoadSegments", LoadSegments(BootElf) # {}, {})>>
<1>1. n \in Nat /\ DOMAIN BootElf.headers = 1 .. n /\ BootElf.bytes \in Nat
      /\ BootElf.tableAt \in Nat /\ BootElf.entryBytes \in Nat
  BY OverlayCoherenceAssumption, LenProperties
<1>2. Sound(header)
  BY <1>1 DEF Require, Sound, IsSteps, FailuresNamed, Verdicts, Guarded, InRange, Bytes, RangeFits, kElf32HeaderBytes
<1>3. AllHold(header) => /\ BootElf.entryBytes >= 32
                         /\ BootElf.tableAt + BootElf.entryBytes * n <= BootElf.bytes
  <2>1. AllHold(header) => header[4].holds
    BY DEF AllHold
  <2> QED BY <2>1 DEF Require, RangeFits, kElf32ProgramHeaderBytes
<1>4. ASSUME AllHold(header), NEW i \in 1 .. n PROVE Sound(ProgramHeaderSteps(BootElf, i))
  <2>1. BootElf.entryBytes * (i - 1) \in Nat
        /\ BootElf.entryBytes * (i - 1) + 32 <= BootElf.entryBytes * n
    <3> HIDE DEF header, n
    <3>1. PICK d \in Nat : n = i + d
      <4>1. n - i \in Nat /\ n = i + (n - i)
        BY <1>1
      <4> QED BY <4>1
    <3>2. PICK e \in Nat : i = e + 1
      <4>1. i - 1 \in Nat /\ i = (i - 1) + 1
        BY <1>1
      <4> QED BY <4>1
    <3>3. BootElf.entryBytes * n = BootElf.entryBytes * e + BootElf.entryBytes + BootElf.entryBytes * d
      BY <3>1, <3>2, <1>1
    <3>4. BootElf.entryBytes * e \in Nat /\ BootElf.entryBytes * d \in Nat
      BY <1>1
    <3>5. BootElf.entryBytes >= 32
      BY <1>3, <1>4
    <3>6. BootElf.entryBytes * (i - 1) = BootElf.entryBytes * e
      <4>1. i - 1 = e
        BY <3>2
      <4> QED BY <4>1
    <3> DEFINE before == BootElf.entryBytes * e
               after == BootElf.entryBytes * d
               from == BootElf.entryBytes * (i - 1)
               all == BootElf.entryBytes * n
               entry == BootElf.entryBytes
    <3>7. all = before + entry + after /\ before \in Nat /\ after \in Nat /\ entry \in Nat
          /\ entry >= 32 /\ from = before
      BY <3>3, <3>4, <3>5, <3>6, <1>1
    <3> HIDE DEF before, after, from, all, entry
    <3>8. from \in Nat /\ from + 32 <= all
      BY <3>7
    <3> QED BY <3>8 DEF from, all
  <2>2. InRange(Bytes(BootElf.tableAt + BootElf.entryBytes * (i - 1), 24, BootElf.bytes))
    <3> HIDE DEF header, n
    <3> QED BY <2>1, <1>1, <1>3, <1>4, SMTT(30) DEF InRange, Bytes, RangeFits
  <2> HIDE DEF header, n
  <2> QED BY <2>2, SMTT(30) DEF ProgramHeaderSteps, Reading, Require, Sound, IsSteps, FailuresNamed, Verdicts, Guarded
<1>5. AllHold(header) => /\ Sound(ForEach(turns))
                         /\ AllHold(ForEach(turns)) =>
                              \A i \in 1 .. n : AllHold(ProgramHeaderSteps(BootElf, i))
  <2>1. turns = [i \in 1 .. n |-> turns[i]] /\ \A i \in 1 .. n : turns[i] = ProgramHeaderSteps(BootElf, i)
    BY <1>1
  <2> HIDE DEF turns, header, n
  <2> QED BY <2>1, <1>1, <1>4, ForEachSound
<1>6. Sound(last)
  BY DEF Require, Sound, IsSteps, FailuresNamed, Verdicts, Guarded
<1>7. ElfSteps(BootElf) = Then(Then(header, ForEach(turns)), last)
  BY DEF ElfSteps
<1> HIDE DEF header, turns, last, n
<1>8. /\ Sound(Then(header, ForEach(turns)))
      /\ AllHold(Then(header, ForEach(turns))) =>
           AllHold(header) /\ AllHold(ForEach(turns))
  BY <1>2, <1>5, ThenSound
<1>9. /\ Sound(ElfSteps(BootElf))
      /\ AllHold(ElfSteps(BootElf)) => AllHold(Then(header, ForEach(turns)))
  BY <1>6, <1>7, <1>8, ThenSound
<1> QED
  BY <1>1, <1>5, <1>8, <1>9, OutcomeOk DEF ElfStatus

(* The segments of an accepted file are in it.                             *)
LEMMA LoadSegmentsFit ==
  ASSUME ElfStatus(BootElf) = "Ok", NEW i \in LoadSegments(BootElf)
  PROVE  /\ BootElf.headers[i].at \in Nat /\ BootElf.headers[i].address \in Nat
         /\ BootElf.headers[i].size \in Nat
         /\ BootElf.headers[i].at + BootElf.headers[i].size <= BootElf.bytes
<1>1. i \in DOMAIN BootElf.headers /\ IsLoaded(BootElf.headers[i])
  BY DEF LoadSegments
<1>2. BootElf.headers[i] \in ProgramHeader
  BY <1>1, OverlayCoherenceAssumption, ElementOfSeq
<1>3. ProgramHeaderSteps(BootElf, i)[2].holds
  <2>1. 2 \in DOMAIN ProgramHeaderSteps(BootElf, i)
    BY DEF ProgramHeaderSteps
  <2> QED BY <2>1, <1>1, ElfSound DEF AllHold
<1>4. RangeFits(<<BootElf.headers[i].at, BootElf.headers[i].size>>, BootElf.bytes)
  BY <1>1, <1>3 DEF ProgramHeaderSteps, Require
<1> QED BY <1>2, <1>4 DEF ProgramHeader, RangeFits

(* So is the static code found for a pc, and no more of it than was asked. *)
LEMMA StaticBytesFit ==
  ASSUME ElfStatus(BootElf) = "Ok", NEW pc \in Nat, NEW requested \in Nat
  PROVE  LET static == StaticBytesAt(BootElf, pc, requested) IN
         /\ static[1] \in Nat /\ static[2] \in Nat
         /\ static[2] <= requested /\ static[1] + static[2] <= BootElf.bytes
<1> DEFINE covering == {i \in LoadSegments(BootElf) : LoadsCode(BootElf.headers[i], pc)}
           h == BootElf.headers[Min(covering)]
           held == h.address + h.size - pc
<1>1. BootElf.bytes \in Nat
  BY OverlayCoherenceAssumption
<1>2. CASE covering = {}
  BY <1>1, <1>2 DEF StaticBytesAt
<1>3. CASE covering # {}
  <2>1. covering \in SUBSET Nat
    BY OverlayCoherenceAssumption, LenProperties DEF LoadSegments
  <2>2. Min(covering) \in covering
    <3> HIDE DEF covering
    <3> QED BY <1>3, <2>1, MinIsLeast
  <2>3. /\ h.at \in Nat /\ h.address \in Nat /\ h.size \in Nat /\ h.at + h.size <= BootElf.bytes
        /\ h.address <= pc /\ pc < h.address + h.size
    BY <2>2, LoadSegmentsFit DEF LoadsCode
  <2>4. StaticBytesAt(BootElf, pc, requested) =
          <<h.at + pc - h.address, IF held < requested THEN held ELSE requested>>
    BY <1>3 DEF StaticBytesAt
  <2> HIDE DEF h
  <2> QED BY <2>3, <2>4, <1>1
<1> QED BY <1>2, <1>3

(* Asked for less, it is the same code.                                    *)
LEMMA StaticBytesOfSamePlace ==
  ASSUME ElfStatus(BootElf) = "Ok", NEW pc \in Nat, NEW few \in Nat, NEW many \in Nat, few <= many
  PROVE  LET less == StaticBytesAt(BootElf, pc, few)
             more == StaticBytesAt(BootElf, pc, many)
         IN less[1] = more[1] /\ less[2] = Lesser(more[2], few)
<1> DEFINE covering == {i \in LoadSegments(BootElf) : LoadsCode(BootElf.headers[i], pc)}
           h == BootElf.headers[Min(covering)]
           held == h.address + h.size - pc
<1>2. CASE covering = {}
  BY <1>2 DEF StaticBytesAt, Lesser
<1>3. CASE covering # {}
  <2>1. covering \in SUBSET Nat
    BY OverlayCoherenceAssumption, LenProperties DEF LoadSegments
  <2>2. Min(covering) \in covering
    <3> HIDE DEF covering
    <3> QED BY <1>3, <2>1, MinIsLeast
  <2>3. /\ h.address \in Nat /\ h.size \in Nat
    BY <2>2, LoadSegmentsFit DEF LoadsCode
  <2>4. /\ StaticBytesAt(BootElf, pc, few) =
             <<h.at + pc - h.address, IF held < few THEN held ELSE few>>
        /\ StaticBytesAt(BootElf, pc, many) =
             <<h.at + pc - h.address, IF held < many THEN held ELSE many>>
    BY <1>3 DEF StaticBytesAt
  <2> HIDE DEF h
  <2> QED BY <2>3, <2>4 DEF Lesser
<1> QED BY <1>2, <1>3

----------------------------------------------------------------------------
(* The boot path.                                                          *)

(* Every word inspectRac1BootProgress reads is inside the guest memory it  *)
(* was given, whatever pointer the guest left there.                       *)
LEMMA BootSound ==
  ASSUME NEW guest \in BootSnapshots
  PROVE  Sound(BootSteps(guest))
<1>1. guest.bytes \in Nat
  BY OverlayCoherenceAssumption
<1>2. ASSUME NEW a PROVE Word(guest, a) \in Int
  BY OverlayCoherenceAssumption DEF Word
<1>3. Word(guest, kSharedLoaderPointerAddress) \in Nat /\ Word(guest, kCallback2195OwnerAddress) \in Nat
  <2> DEFINE signed == {kState15F600Address, kState13D364Address, kState13D36CAddress}
  <2>1. kSharedLoaderPointerAddress \notin signed /\ kCallback2195OwnerAddress \notin signed
    BY SMT DEF kSharedLoaderPointerAddress, kCallback2195OwnerAddress, kState15F600Address,
               kState13D364Address, kState13D36CAddress
  <2>2. \A a \in DOMAIN guest.words : a \notin signed => guest.words[a] \in Nat
    BY OverlayCoherenceAssumption
  <2> HIDE DEF signed
  <2> QED BY <2>1, <2>2 DEF Word
<1>4. \A read \in WalkReads(guest) : InRange(read)
  <2>1. ASSUME NEW a, Readable32(guest, a) PROVE InRange(Bytes(a, 4, guest.bytes))
    BY <2>1 DEF Readable32, InRange, Bytes, RangeFits
  <2>2. TableReadable(guest) =>
          InRange(Bytes(CallbackTable(guest), 4 * kCallback2195SlotCount, guest.bytes))
    BY <1>1, <1>3 DEF TableReadable, CallbackTable, InRange, Bytes, RangeFits, kCallback2195TableOffset
  <2>3. \A slot \in ReadableSlots(guest) : Readable32(guest, Object(guest, slot))
    BY DEF ReadableSlots
  <2> QED BY <2>1, <2>2, <2>3 DEF WalkReads, Words
<1> DEFINE loader == Word(guest, kSharedLoaderPointerAddress)
           record == loader + kFirstGenerationRecordOffset
           payload == <<record + 16, Word(guest, record + 4)>>
           header == [i \in 1 .. 4 |-> Word(guest, record + 4 * (i - 1))]
           small == \A a \in kFixedReads : Readable32(guest, a)
           fixed == Words(guest, kFixedReads) \union WalkReads(guest)
           stream == Word(guest, loader) = kFirstGenerationRecordOffset
           match == header = kWad158FirstRecord
           fits == RangeFits(payload, guest.bytes)
<1>5. small => \A read \in fixed : InRange(read)
  BY <1>4 DEF Words, Readable32, InRange, Bytes
<1>6. Readable32(guest, loader) => \A read \in Words(guest, {loader}) : InRange(read)
  BY DEF Words, Readable32, InRange, Bytes
<1>7. RangeFits(<<record, 16>>, guest.bytes) => InRange(Bytes(record, 16, guest.bytes))
  BY <1>3 DEF InRange, Bytes, kFirstGenerationRecordOffset
<1>8. BootSteps(guest) =
        <<Require("GuestMemoryTooSmall", small, fixed),
          Require("SharedLoaderPointerUnavailable", loader # 0, {}),
          Require("SharedLoaderHeaderOutOfRange", Readable32(guest, loader), Words(guest, {loader})),
          Require("FirstGenerationStreamSignatureAbsent", stream, {}),
          Require("FirstRecordOutOfRange", RangeFits(<<record, 16>>, guest.bytes),
                  {Bytes(record, 16, guest.bytes)}),
          Require("Wad158FirstRecordHeaderMismatch", match, {}),
          Require("FirstPayloadOutOfRange", fits, {})>>
  BY DEF BootSteps
<1> HIDE DEF loader, record, payload, header, small, fixed, stream, match, fits
<1> QED
  BY <1>5, <1>6, <1>7, <1>8 DEF Require, Sound, IsSteps, FailuresNamed, Verdicts, Guarded

----------------------------------------------------------------------------
(* The inspection of a level's overlay.                                    *)

(* Overlays are typed, and their payloads are in them.                     *)
LEMMA SegmentFacts ==
  ASSUME NEW o \in Overlays \union {NoOverlay}
  PROVE  /\ o.bytes \in Nat /\ Len(o.segments) \in Nat /\ DOMAIN o.segments = 1 .. Len(o.segments)
         /\ \A i \in DOMAIN o.segments :
              /\ o.segments[i].at \in Nat /\ o.segments[i].destination \in Nat
              /\ o.segments[i].size \in Nat
              /\ o.segments[i].at + o.segments[i].size <= o.bytes
<1>1. CASE o = NoOverlay
  BY <1>1 DEF NoOverlay
<1>2. CASE o \in Overlays
  <2>1. o.segments \in Seq(OverlaySegment) /\ o.bytes \in Nat
        /\ \A i \in DOMAIN o.segments :
             RangeFits(<<o.segments[i].at, o.segments[i].size>>, o.bytes)
    BY <1>2, OverlayCoherenceAssumption
  <2>2. ASSUME NEW i \in DOMAIN o.segments PROVE o.segments[i] \in OverlaySegment
    BY <2>1, ElementOfSeq, LenProperties
  <2> QED BY <2>1, <2>2, LenProperties DEF OverlaySegment, RangeFits
<1> QED BY <1>1, <1>2

(* The segment found for a pc covers it.                                   *)
LEMMA SegmentForPcFacts ==
  ASSUME NEW o \in Overlays \union {NoOverlay}, NEW pc \in Nat, SegmentsForPc(o, pc) # {}
  PROVE  \E n \in DOMAIN o.segments :
           SegmentForPc(o, pc) = o.segments[n] /\ Covers(o.segments[n], pc)
<1>1. SegmentsForPc(o, pc) \in SUBSET Nat
  BY SegmentFacts DEF SegmentsForPc
<1>2. Min(SegmentsForPc(o, pc)) \in SegmentsForPc(o, pc)
  BY <1>1, MinIsLeast
<1> QED BY <1>2 DEF SegmentForPc, SegmentsForPc

(* What is compared at a pc is in the payload, in the ELF and, once the    *)
(* overlay is materialized, in memory there.                               *)
LEMMA ProbeFacts ==
  ASSUME NEW o \in Overlays \union {NoOverlay}, NEW pc \in Nat, ElfStatus(BootElf) = "Ok",
         SegmentsForPc(o, pc) # {}
  PROVE  LET s == SegmentForPc(o, pc)
             p == Probe(o, pc)
             left == s.destination + s.size - pc
         IN /\ p.bytes \in Nat /\ p.at \in Nat /\ p.static \in Nat
            /\ left \in Nat /\ pc - s.destination \in Nat
            /\ p.at = s.at + (pc - s.destination) /\ p.bytes <= left
            /\ p.at + p.bytes <= o.bytes
            /\ p.static + p.bytes <= BootElf.bytes
            /\ LET static == StaticBytesAt(BootElf, pc, left) IN
                 p.static = static[1] /\ p.bytes <= static[2]
            /\ LET static == StaticBytesAt(BootElf, pc, 4) IN
                 /\ p.static = static[1]
                 /\ left >= 4 /\ static[2] = 4 => p.bytes >= 4
<1> DEFINE s == SegmentForPc(o, pc)
           left == s.destination + s.size - pc
           inOverlay == Lesser(kConflictProbeBytes, left)
           static == StaticBytesAt(BootElf, pc, inOverlay)
           p == Probe(o, pc)
<1>1. PICK n \in DOMAIN o.segments : s = o.segments[n] /\ Covers(o.segments[n], pc)
  BY SegmentForPcFacts
<1>2. /\ s.at \in Nat /\ s.destination \in Nat /\ s.size \in Nat /\ s.at + s.size <= o.bytes
      /\ s.destination <= pc /\ pc < s.destination + s.size /\ o.bytes \in Nat
  BY <1>1, SegmentFacts DEF Covers
<1>3. /\ p.at = s.at + pc - s.destination /\ p.static = static[1]
      /\ p.bytes = IF inOverlay < 4 \/ static[2] < 4 THEN 0 ELSE Lesser(inOverlay, static[2])
  BY DEF Probe
<1> HIDE DEF s, p
<1>4. left \in Nat /\ inOverlay \in Nat /\ inOverlay <= left /\ inOverlay <= 16
      /\ (left >= 4 => inOverlay >= 4)
  BY <1>2 DEF Lesser, kConflictProbeBytes
<1> HIDE DEF left, inOverlay
<1>5. static[1] \in Nat /\ static[2] \in Nat /\ static[2] <= inOverlay
      /\ static[1] + static[2] <= BootElf.bytes
  BY <1>4, StaticBytesFit
<1>6. LET all == StaticBytesAt(BootElf, pc, left) IN
        all[1] = static[1] /\ all[2] \in Nat /\ static[2] = Lesser(all[2], inOverlay)
  BY <1>4, StaticBytesOfSamePlace, StaticBytesFit
<1>7. LET four == StaticBytesAt(BootElf, pc, 4) IN
        four[1] = static[1] /\ (inOverlay >= 4 => four[2] = Lesser(static[2], 4))
  <2>1. CASE inOverlay >= 4
    BY <1>4, <2>1, StaticBytesOfSamePlace
  <2>2. CASE ~(inOverlay >= 4)
    <3>1. inOverlay <= 4
      BY <1>4, <2>2
    <3> QED BY <1>4, <2>2, <3>1, StaticBytesOfSamePlace
  <2> QED BY <2>1, <2>2
<1> HIDE DEF static
<1>8. /\ p.bytes \in Nat /\ p.at \in Nat /\ p.static \in Nat /\ pc - s.destination \in Nat
      /\ p.at = s.at + (pc - s.destination) /\ p.bytes <= inOverlay /\ p.bytes <= static[2]
  BY <1>2, <1>3, <1>4, <1>5 DEF Lesser
<1>9. p.bytes <= left /\ p.at + p.bytes <= o.bytes /\ p.static + p.bytes <= BootElf.bytes
  <2>0. BootElf.bytes \in Nat
    BY OverlayCoherenceAssumption
  <2>1. p.bytes <= left /\ p.static + p.bytes <= BootElf.bytes
    <3>1. p.bytes <= left
      BY <1>4, <1>8
    <3>2. p.static = static[1]
      BY <1>3
    <3> QED BY <2>0, <3>1, <3>2, <1>5, <1>8
  <2>2. p.at + left = s.at + s.size
    BY <1>2, <1>3 DEF left
  <2> QED BY <2>1, <2>2, <1>2, <1>4, <1>8
<1>10. LET all == StaticBytesAt(BootElf, pc, left) IN p.static = all[1] /\ p.bytes <= all[2]
  BY <1>3, <1>5, <1>6, <1>8, <1>4 DEF Lesser
<1>11. LET four == StaticBytesAt(BootElf, pc, 4) IN
         p.static = four[1] /\ (left >= 4 /\ four[2] = 4 => p.bytes >= 4)
  BY <1>3, <1>4, <1>5, <1>7 DEF Lesser
<1> QED BY <1>4, <1>8, <1>9, <1>10, <1>11 DEF s, left, p

(* The inspection is sound for any level and any fallback places.          *)
LEMMA CoherenceSound ==
  ASSUME NEW o \in Overlays \union {NoOverlay}, NEW pcs \in SUBSET DOMAIN StaticPcs
  PROVE  /\ Sound(CoherenceSteps(o, pcs))
         /\ Outcome(CoherenceSteps(o, pcs)) = "Ok" => ElfStatus(BootElf) = "Ok"
<1> DEFINE elf == <<Require("StaticElfUnavailable", ElfStatus(BootElf) = "Ok", {})>>
           segments == [i \in DOMAIN o.segments |-> SegmentSteps(o, o.segments[i])]
           probes == [p \in DOMAIN StaticPcs |->
                        IF p \in pcs THEN ProbeSteps(o, StaticPcs[p]) ELSE <<>>]
<1>1. Sound(elf) /\ (AllHold(elf) <=> ElfStatus(BootElf) = "Ok")
  <2>1. Sound(elf)
    BY DEF Require, Sound, IsSteps, FailuresNamed, Verdicts, Guarded
  <2>2. AllHold(elf) <=> Require("StaticElfUnavailable", ElfStatus(BootElf) = "Ok", {}).holds
    BY OneHolds, Zenon
  <2> QED BY <2>1, <2>2 DEF Require
<1>2. Sound(ForEach(segments))
  <2>1. ASSUME NEW i \in DOMAIN o.segments PROVE Sound(SegmentSteps(o, o.segments[i]))
    <3> DEFINE s == o.segments[i]
    <3>1. s.at \in Nat /\ s.destination \in Nat /\ s.size \in Nat
      BY SegmentFacts
    <3> HIDE DEF s
    <3>2. Sound(SegmentSteps(o, s))
      BY <3>1 DEF SegmentSteps, Require, Sound, IsSteps, FailuresNamed, Verdicts, Guarded, InRange, Bytes, RangeFits
    <3> QED BY <3>2 DEF s
  <2>2. /\ DOMAIN o.segments = 1 .. Len(o.segments) /\ Len(o.segments) \in Nat
        /\ segments = [i \in 1 .. Len(o.segments) |-> segments[i]]
        /\ \A i \in DOMAIN o.segments : segments[i] = SegmentSteps(o, o.segments[i])
    BY SegmentFacts
  <2> HIDE DEF segments
  <2> QED BY <2>1, <2>2, ForEachSound
<1>3. ASSUME ElfStatus(BootElf) = "Ok" PROVE Sound(ForEach(probes))
  <2>1. ASSUME NEW pc \in Nat PROVE Sound(ProbeSteps(o, pc))
    <3>1. CASE IsComparable(o, pc)
      <4> DEFINE p == Probe(o, pc)
      <4>1. p.at \in Nat /\ p.bytes \in Nat /\ p.static \in Nat
            /\ p.at + p.bytes <= o.bytes /\ p.static + p.bytes <= BootElf.bytes
        BY <1>3, <3>1, ProbeFacts DEF IsComparable
      <4>2. ProbeSteps(o, pc) =
              <<Require("SegmentPayloadOutOfRange", RangeFits(<<p.at, p.bytes>>, o.bytes),
                        {Bytes(p.at, p.bytes, o.bytes), Bytes(p.static, p.bytes, BootElf.bytes)})>>
        BY <3>1 DEF ProbeSteps
      <4> HIDE DEF p
      <4> QED
        BY <4>1, <4>2 DEF Require, Sound, IsSteps, FailuresNamed, Verdicts, Guarded, InRange, Bytes, RangeFits
    <3>2. CASE ~IsComparable(o, pc)
      BY <3>2, NoStepsSound DEF ProbeSteps
    <3> QED BY <3>1, <3>2
  <2>2. StaticPcs \in Seq(Nat)
    BY OverlayCoherenceAssumption
  <2>3. ASSUME NEW p \in DOMAIN StaticPcs PROVE Sound(probes[p])
    <3>1. StaticPcs[p] \in Nat
      BY <2>2, ElementOfSeq
    <3> QED BY <2>1, <3>1, NoStepsSound
  <2>4. /\ DOMAIN StaticPcs = 1 .. Len(StaticPcs) /\ Len(StaticPcs) \in Nat
        /\ probes = [p \in 1 .. Len(StaticPcs) |-> probes[p]]
    BY <2>2, LenProperties
  <2> HIDE DEF probes
  <2> QED BY <2>3, <2>4, ForEachSound
<1>4. CoherenceSteps(o, pcs) = Then(elf, ForEach(segments) \o ForEach(probes))
  BY DEF CoherenceSteps
<1> HIDE DEF elf, segments, probes
<1>5. AllHold(elf) => Sound(ForEach(segments) \o ForEach(probes))
  BY <1>1, <1>2, <1>3, ConcatSound DEF Sound
<1>6. Sound(CoherenceSteps(o, pcs)) /\ (AllHold(CoherenceSteps(o, pcs)) => AllHold(elf))
  BY <1>1, <1>4, <1>5, ThenSound
<1> QED BY <1>1, <1>6, OutcomeOk

----------------------------------------------------------------------------
(* The inspector's state: the overlay the renderer keeps is of a level, or *)
(* none; while it is of one, the fallback places are those in it.          *)
CoherenceInv ==
  /\ memory \in [0 .. MemoryBytes - 1 -> {0, 1}]
  /\ overlay \in Overlays \union {NoOverlay}
  /\ fallbackPcs \subseteq DOMAIN StaticPcs
  /\ overlay # NoOverlay => fallbackPcs = PcsIn(overlay.segments)
  /\ ConflictVerdictIsReal

(* The verdict of one inspection, against the memory it was made over: a   *)
(* conflict proved is one in bytes of the payload, and the payload is in   *)
(* memory; where no conflict is seen, the first instruction is the one in  *)
(* memory.                                                                 *)
LEMMA VerdictOfInspection ==
  ASSUME NEW o \in Overlays, NEW pcs, pcs = PcsIn(o.segments)
  PROVE  /\ CoherenceStatus(o, pcs) = "StaleFallbackConflictProved" =>
              /\ \A n \in DOMAIN o.segments :
                   LET s == o.segments[n] IN
                   \A i \in 0 .. s.size - 1 : memory[s.destination + i] = ByteOf(o, s.at + i)
              /\ FirstConflict(o, pcs) \in Range(StaticPcs)
              /\ RunsStaleCode(o, memory, FirstConflict(o, pcs))
         /\ CoherenceStatus(o, pcs) = "NoStaticConflictObserved" =>
              \A p \in PcsIn(o.segments) :
                LET pc == StaticPcs[p]
                    s == SegmentForPc(o, pc)
                    static == StaticBytesAt(BootElf, pc, 4)
                IN s.destination + s.size - pc >= 4 /\ static[2] = 4 =>
                     \A i \in 0 .. 3 : memory[pc + i] = ByteOf(BootElf, static[1] + i)
<1> DEFINE verdictOf == CoherenceStatus(o, pcs)
<1>1. StaticPcs \in Seq(Nat) /\ pcs \in SUBSET DOMAIN StaticPcs
      /\ \A p \in DOMAIN StaticPcs : p \in Nat /\ StaticPcs[p] \in Nat
  <2>1. StaticPcs \in Seq(Nat)
    BY OverlayCoherenceAssumption
  <2>2. DOMAIN StaticPcs = 1 .. Len(StaticPcs) /\ Len(StaticPcs) \in Nat
    BY <2>1, LenProperties
  <2> QED BY <2>1, <2>2, ElementOfSeq DEF PcsIn
<1>2. ASSUME verdictOf \in {"StaleFallbackConflictProved", "NoStaticConflictObserved"}
      PROVE  /\ Outcome(CoherenceSteps(o, pcs)) = "Ok" /\ ElfStatus(BootElf) = "Ok"
             /\ \A n \in DOMAIN o.segments : IsMaterialized(o, o.segments[n])
  <2>1. /\ Sound(CoherenceSteps(o, pcs))
        /\ Outcome(CoherenceSteps(o, pcs)) = "Ok" => ElfStatus(BootElf) = "Ok"
    BY <1>1, CoherenceSound
  <2>2. Outcome(CoherenceSteps(o, pcs)) = "Ok"
    BY <1>2, <2>1, OutcomeOk DEF CoherenceStatus, Verdicts
  <2> QED BY <1>2, <2>1, <2>2 DEF CoherenceStatus
<1>3. ASSUME NEW s, IsMaterialized(o, s), s.destination \in Nat, s.size \in Nat, s.at \in Nat,
             NEW pc \in Nat, NEW i \in Nat, s.destination <= pc,
             pc + i < s.destination + s.size
      PROVE  memory[pc + i] = ByteOf(o, s.at + (pc - s.destination) + i)
  <2> DEFINE k == pc - s.destination + i
  <2>1. k \in 0 .. s.size - 1 /\ s.destination + k = pc + i /\ s.at + k = s.at + (pc - s.destination) + i
    BY <1>3
  <2> HIDE DEF k
  <2> QED BY <1>3, <2>1 DEF IsMaterialized
<1>4. ASSUME NEW p \in pcs, ElfStatus(BootElf) = "Ok",
             \A n \in DOMAIN o.segments : IsMaterialized(o, o.segments[n])
      PROVE  LET pc == StaticPcs[p]
                 s == SegmentForPc(o, pc)
                 probe == Probe(o, pc)
             IN /\ SegmentsForPc(o, pc) # {}
                /\ \E n \in DOMAIN o.segments : s = o.segments[n] /\ Covers(s, pc)
                /\ \A i \in 0 .. probe.bytes - 1 : memory[pc + i] = ByteOf(o, probe.at + i)
  <2> DEFINE pc == StaticPcs[p]
             s == SegmentForPc(o, pc)
             probe == Probe(o, pc)
             left == s.destination + s.size - pc
  <2>1. pc \in Nat
    BY <1>1
  <2>2. SegmentsForPc(o, pc) # {}
    BY DEF PcsIn, SegmentsForPc
  <2>3. PICK n \in DOMAIN o.segments : s = o.segments[n] /\ Covers(s, pc)
    BY <2>1, <2>2, SegmentForPcFacts
  <2>4. /\ probe.bytes \in Nat /\ probe.at = s.at + (pc - s.destination) /\ probe.bytes <= left
    BY <1>4, <2>1, <2>2, ProbeFacts
  <2>5. s.destination \in Nat /\ s.size \in Nat /\ s.at \in Nat /\ s.destination <= pc
    BY <2>3, SegmentFacts DEF Covers
  <2>6. IsMaterialized(o, s)
    BY <1>4, <2>3
  <2> HIDE DEF pc, s, probe
  <2>7. ASSUME NEW i \in 0 .. probe.bytes - 1 PROVE memory[pc + i] = ByteOf(o, probe.at + i)
    <3>1. i \in Nat /\ pc + i < s.destination + s.size
      BY <2>1, <2>4, <2>5
    <3> QED BY <1>3, <2>1, <2>4, <2>5, <2>6, <3>1
  <2> QED BY <2>2, <2>3, <2>7 DEF pc, s, probe
<1>5. ASSUME verdictOf = "StaleFallbackConflictProved"
      PROVE  /\ \A n \in DOMAIN o.segments :
                  LET s == o.segments[n] IN
                  \A i \in 0 .. s.size - 1 : memory[s.destination + i] = ByteOf(o, s.at + i)
             /\ FirstConflict(o, pcs) \in Range(StaticPcs)
             /\ RunsStaleCode(o, memory, FirstConflict(o, pcs))
  <2> DEFINE conflicting == {p \in pcs : Conflicts(o, StaticPcs[p])}
  <2>1. conflicting # {} /\ conflicting \in SUBSET Nat
    BY <1>1, <1>2, <1>5 DEF CoherenceStatus
  <2>2. PICK p \in pcs : p = Min(conflicting) /\ Conflicts(o, StaticPcs[p])
    <3>1. Min(conflicting) \in conflicting
      <4> HIDE DEF conflicting
      <4> QED BY <2>1, MinIsLeast
    <3> QED BY <3>1
  <2> DEFINE pc == StaticPcs[p]
             s == SegmentForPc(o, pc)
             probe == Probe(o, pc)
             left == s.destination + s.size - pc
             shared == StaticBytesAt(BootElf, pc, left)
  <2>3. FirstConflict(o, pcs) = pc /\ pc \in Range(StaticPcs) /\ pc \in Nat
    BY <1>1, <1>2, <1>5, <2>1, <2>2 DEF FirstConflict, Range
  <2>4. PICK i \in 0 .. probe.bytes - 1 : ByteOf(BootElf, probe.static + i) # ByteOf(o, probe.at + i)
    BY <2>2 DEF Conflicts
  <2>5. PICK n \in DOMAIN o.segments : s = o.segments[n] /\ Covers(s, pc)
    BY <1>2, <1>4, <1>5
  <2>6. memory[pc + i] = ByteOf(o, probe.at + i)
    BY <1>2, <1>4, <1>5
  <2>7. probe.static = shared[1] /\ probe.bytes <= shared[2] /\ probe.bytes \in Nat
    BY <1>2, <1>4, <1>5, <2>3, ProbeFacts
  <2>8. shared[2] \in Nat
    <3>1. left \in Nat
      BY <1>2, <1>4, <1>5, <2>3, ProbeFacts
    <3> HIDE DEF left
    <3> QED BY <1>2, <1>5, <2>3, <3>1, StaticBytesFit
  <2>9. RunsStaleCode(o, memory, pc)
    <3>1. i \in 0 .. shared[2] - 1 /\ memory[pc + i] # ByteOf(BootElf, shared[1] + i)
      <4> HIDE DEF pc, s, probe, shared
      <4> QED BY <2>4, <2>6, <2>7, <2>8
    <3>2. shared = StaticBytesAt(BootElf, pc, o.segments[n].destination + o.segments[n].size - pc)
          /\ Covers(o.segments[n], pc)
      BY <2>5
    <3> HIDE DEF pc, s, probe, shared
    <3> QED BY <3>1, <3>2 DEF RunsStaleCode
  <2> QED BY <1>2, <1>5, <2>3, <2>9 DEF IsMaterialized
<1>6. ASSUME verdictOf = "NoStaticConflictObserved", NEW p \in pcs
      PROVE  LET pc == StaticPcs[p]
                 s == SegmentForPc(o, pc)
                 static == StaticBytesAt(BootElf, pc, 4)
             IN s.destination + s.size - pc >= 4 /\ static[2] = 4 =>
                  \A i \in 0 .. 3 : memory[pc + i] = ByteOf(BootElf, static[1] + i)
  <2> DEFINE pc == StaticPcs[p]
             s == SegmentForPc(o, pc)
             probe == Probe(o, pc)
             left == s.destination + s.size - pc
             static == StaticBytesAt(BootElf, pc, 4)
  <2>1. SUFFICES ASSUME left >= 4, static[2] = 4, NEW i \in 0 .. 3
                 PROVE  memory[pc + i] = ByteOf(BootElf, static[1] + i)
    OBVIOUS
  <2>2. pc \in Nat /\ SegmentsForPc(o, pc) # {}
    BY <1>1, <1>2, <1>4, <1>6
  <2>3. probe.static = static[1] /\ probe.bytes >= 4 /\ probe.bytes \in Nat
    BY <1>2, <1>6, <2>1, <2>2, ProbeFacts
  <2>4. i \in 0 .. probe.bytes - 1
    <3> HIDE DEF probe
    <3> QED BY <2>3
  <2>5. ByteOf(BootElf, probe.static + i) = ByteOf(o, probe.at + i)
    <3>1. IsComparable(o, pc)
      BY <2>2, <2>3 DEF IsComparable
    <3>2. ~Conflicts(o, pc)
      BY <1>2, <1>6 DEF CoherenceStatus
    <3> QED BY <2>4, <3>1, <3>2 DEF Conflicts
  <2>6. memory[pc + i] = ByteOf(o, probe.at + i)
    BY <1>2, <1>4, <1>6, <2>4
  <2> QED BY <2>3, <2>5, <2>6
<1> QED BY <1>5, <1>6

LEMMA CoherenceInitially == CoherenceInit => CoherenceInv
<1>1. ASSUME CoherenceInit PROVE memory \in [0 .. MemoryBytes - 1 -> {0, 1}]
  BY <1>1 DEF CoherenceInit
<1>2. ASSUME CoherenceInit PROVE overlay = NoOverlay /\ fallbackPcs = {} /\ ConflictVerdictIsReal
  BY <1>2 DEF CoherenceInit, NoVerdict, ConflictVerdictIsReal
<1> QED BY <1>1, <1>2 DEF CoherenceInv

LEMMA CoherenceStep ==
  ASSUME CoherenceInv, [CoherenceNext]_coherenceVars
  PROVE  CoherenceInv'
<1> USE DEF CoherenceInv
<1>1. CASE MapLevelOverlay
  <2>1. UNCHANGED memory
    BY <1>1 DEF MapLevelOverlay
  <2>2. CASE \E o \in Overlays \union {NoOverlay} :
               overlay' = o /\ fallbackPcs' = PcsIn(o.segments) /\ verdict' = NoVerdict
    <3>1. PICK o \in Overlays \union {NoOverlay} :
            overlay' = o /\ fallbackPcs' = PcsIn(o.segments) /\ verdict' = NoVerdict
      BY <2>2
    <3>2. ConflictVerdictIsReal'
      BY <3>1 DEF ConflictVerdictIsReal, NoVerdict
    <3> QED BY <2>1, <3>1, <3>2 DEF PcsIn
  <2>3. CASE overlay' = NoOverlay /\ UNCHANGED <<fallbackPcs, verdict>>
    <3>1. ConflictVerdictIsReal'
      BY <2>3 DEF ConflictVerdictIsReal
    <3> QED BY <2>1, <2>3, <3>1
  <2> QED BY <1>1, <2>2, <2>3 DEF MapLevelOverlay
<1>2. CASE InspectOverlay
  <2>1. PICK guest \in BootSnapshots :
          verdict' = [status |-> CoherenceStatus(overlay, fallbackPcs), memory |-> memory,
                      firstConflict |-> FirstConflict(overlay, fallbackPcs),
                      boot |-> BootProgressOf(guest),
                      reads |-> ReadsOf(CoherenceSteps(overlay, fallbackPcs))
                                  \union ReadsOf(BootSteps(guest))]
    BY <1>2 DEF InspectOverlay
  <2>2. UNCHANGED <<memory, overlay, fallbackPcs>> /\ overlay \in Overlays
        /\ fallbackPcs = PcsIn(overlay.segments)
    BY <1>2 DEF InspectOverlay, NoOverlay
  <2>3. \A read \in verdict'.reads : InRange(read)
    <3>1. Sound(CoherenceSteps(overlay, fallbackPcs)) /\ Sound(BootSteps(guest))
      BY CoherenceSound, BootSound
    <3>2. verdict'.reads = ReadsOf(CoherenceSteps(overlay, fallbackPcs))
                             \union ReadsOf(BootSteps(guest))
      BY <2>1
    <3> QED BY <3>1, <3>2, ReadsOfSteps
  <2>4. /\ verdict'.status = CoherenceStatus(overlay, fallbackPcs) /\ verdict'.memory = memory
        /\ verdict'.firstConflict = FirstConflict(overlay, fallbackPcs)
    BY <2>1
  <2>5. ConflictVerdictIsReal'
    BY <2>2, <2>3, <2>4, VerdictOfInspection DEF ConflictVerdictIsReal, InRange
  <2> QED BY <2>2, <2>5
<1>3. CASE GuestMaterializes
  <2>1. PICK o \in Overlays : \E n \in DOMAIN o.segments :
          memory' = [a \in DOMAIN memory |->
                       IF Covers(o.segments[n], a)
                       THEN ByteOf(o, o.segments[n].at + a - o.segments[n].destination)
                       ELSE memory[a]]
    BY <1>3 DEF GuestMaterializes
  <2>2. UNCHANGED <<overlay, fallbackPcs, verdict>>
    BY <1>3 DEF GuestMaterializes
  <2>3. memory' \in [0 .. MemoryBytes - 1 -> {0, 1}]
    BY <2>1 DEF ByteOf
  <2>4. ConflictVerdictIsReal'
    BY <2>2 DEF ConflictVerdictIsReal
  <2> QED BY <2>2, <2>3, <2>4
<1>4. CASE GuestOverwrites
  <2>1. memory' \in [0 .. MemoryBytes - 1 -> {0, 1}]
    BY <1>4 DEF GuestOverwrites
  <2>2. UNCHANGED <<overlay, fallbackPcs, verdict>> /\ ConflictVerdictIsReal'
    BY <1>4 DEF GuestOverwrites, ConflictVerdictIsReal
  <2> QED BY <2>1, <2>2
<1>5. CASE UNCHANGED coherenceVars
  BY <1>5 DEF coherenceVars, ConflictVerdictIsReal
<1> QED
  BY <1>1, <1>2, <1>3, <1>4, <1>5 DEF CoherenceNext

(* The verdict inspectRac1OverlayCoherence gives is true of the guest      *)
(* memory it was given over, for every ELF, list of static functions, set  *)
(* of levels and boot path, and through every later mapping of a level     *)
(* until the next inspection: a proved conflict names a static function    *)
(* compiled from other code than is in memory, and no read leaves its file *)
(* or memory.                                                              *)
THEOREM InspectorSaysTheTruth == CoherenceSpec => []ConflictVerdictIsReal
<1>1. CoherenceInit => CoherenceInv
  BY CoherenceInitially
<1>2. CoherenceInv /\ [CoherenceNext]_coherenceVars => CoherenceInv'
  BY CoherenceStep
<1>3. CoherenceInv => ConflictVerdictIsReal
  BY DEF CoherenceInv
<1> QED
  BY <1>1, <1>2, <1>3, PTL DEF CoherenceSpec

----------------------------------------------------------------------------
(* Collision blocks.                                                       *)

(* The elements of a sequence.                                             *)
LEMMA ElementsOfSeq ==
  ASSUME NEW S, NEW s \in Seq(S)
  PROVE  /\ Len(s) \in Nat /\ DOMAIN s = 1 .. Len(s)
         /\ \A i \in DOMAIN s : s[i] \in S
         /\ \A e \in Range(s) : e \in S
BY LenProperties, ElementOfSeq DEF Range

(* A loop over a sequence, one turn for each of its elements.              *)
LEMMA ForEachOfSound ==
  ASSUME NEW S, NEW s \in Seq(S), NEW turns, turns = [i \in DOMAIN s |-> turns[i]],
         \A i \in DOMAIN s : Sound(turns[i])
  PROVE  /\ Sound(ForEach(turns))
         /\ AllHold(ForEach(turns)) => \A i \in DOMAIN s : AllHold(turns[i])
<1>1. Len(s) \in Nat /\ DOMAIN s = 1 .. Len(s)
  BY ElementsOfSeq
<1> QED BY <1>1, ForEachSound

(* The cells of an axis: an empty one is skipped.                          *)
LEMMA CellStepsSound ==
  ASSUME NEW S, NEW cells \in Seq(S), NEW steps,
         \A i \in DOMAIN cells : cells[i] # EmptyCell => Sound(steps[i])
  PROVE  Sound(CellSteps(cells, steps))
<1> DEFINE turns == [i \in DOMAIN cells |-> IF cells[i] = EmptyCell THEN <<>> ELSE steps[i]]
<1>1. \A i \in DOMAIN cells : Sound(turns[i])
  BY NoStepsSound
<1>2. turns = [i \in DOMAIN cells |-> turns[i]] /\ CellSteps(cells, steps) = ForEach(turns)
  BY DEF CellSteps
<1> HIDE DEF turns
<1> QED BY <1>1, <1>2, ForEachOfSound

(* An axis, of any width and over any cells.                               *)
LEMMA AxisStepsSound ==
  ASSUME NEW S, NEW axis \in AxisOver(S), NEW width \in Nat, NEW mesh \in Int
  PROVE  Sound(AxisSteps(axis, width, mesh))
<1> DEFINE bytes == width * Len(axis.cells)
<1>1. axis.at \in Int /\ bytes \in Nat
  <2>1. axis.at \in Int /\ axis.cells \in Seq(S \union {EmptyCell})
    BY DEF AxisOver
  <2>2. Len(axis.cells) \in Nat
    BY <2>1, LenProperties
  <2> QED BY <2>1, <2>2
<1> DEFINE start == axis.at >= 0 /\ RangeFits(<<axis.at, 4>>, mesh)
           first == <<<<axis.at, 4>>, mesh>>
           rest == <<axis.at + 4, bytes>>
<1>2. AxisSteps(axis, width, mesh) =
        <<Require("AxisOutOfRange", start, {first}),
          Require("AxisOutOfRange", RangeFits(rest, mesh), {<<rest, mesh>>})>>
  BY DEF AxisSteps
<1>3. start => InRange(first)
  BY DEF InRange
<1>4. start /\ RangeFits(rest, mesh) => InRange(<<rest, mesh>>)
  BY <1>1 DEF InRange
<1> HIDE DEF start, first, rest
<1> QED
  BY <1>2, <1>3, <1>4 DEF Require, Sound, IsSteps, FailuresNamed, Verdicts, Guarded

(* No face looks up a vertex past the vertices there are.                  *)
LEMMA FaceStepsSound ==
  ASSUME NEW faces \in Seq(Seq(Nat)), NEW vertices \in Nat
  PROVE  Sound(CollisionFaceSteps(faces, vertices))
<1> DEFINE turn(f) ==
      <<Require("FaceIndexOutOfRange", FaceIsValid(faces[f], vertices),
                {Element(index, vertices) : index \in Range(faces[f])})>>
           turns == [f \in DOMAIN faces |-> turn(f)]
<1>1. ASSUME NEW f \in DOMAIN faces PROVE Sound(turn(f))
  <2>1. faces[f] \in Seq(Nat)
    BY ElementsOfSeq
  <2>2. FaceIsValid(faces[f], vertices) =>
          \A read \in {Element(index, vertices) : index \in Range(faces[f])} : InRange(read)
    BY <2>1, ElementsOfSeq DEF FaceIsValid, Element, InRange, RangeFits, Range
  <2> QED
    BY <2>2 DEF Require, Sound, IsSteps, FailuresNamed, Verdicts, Guarded
<1>2. turns = [f \in DOMAIN faces |-> turns[f]] /\ \A f \in DOMAIN faces : Sound(turns[f])
  BY <1>1
<1>3. CollisionFaceSteps(faces, vertices) = ForEach(turns)
  BY DEF CollisionFaceSteps
<1> HIDE DEF turns
<1> QED BY <1>2, <1>3, ForEachOfSound

(* An octant's vertices, faces and quad flags follow one another in the    *)
(* mesh.                                                                   *)
LEMMA OctantStepsSound ==
  ASSUME NEW o \in Octant, NEW mesh \in Int
  PROVE  Sound(OctantSteps(o, mesh))
<1> DEFINE vertices == <<o.at + 4, 4 * o.vertices>>
           faces == <<vertices[1] + vertices[2], 4 * Len(o.faces)>>
           quads == <<faces[1] + faces[2], o.quads>>
           whole == o.units = Units16(quads[1] + quads[2] - o.at)
           header ==
             <<Require("OctantOutOfRange", o.at > 0 /\ o.units # 0 /\ RangeFits(<<o.at, 4>>, mesh),
                       {Bytes(o.at, 4, mesh)}),
               Require("OctantOutOfRange", o.quads <= Len(o.faces), {}),
               Require("OctantOutOfRange", RangeFits(vertices, mesh), {<<vertices, mesh>>}),
               Require("OctantOutOfRange", RangeFits(faces, mesh), {<<faces, mesh>>}),
               Require("OctantOutOfRange", RangeFits(quads, mesh), {<<quads, mesh>>}),
               Require("OctantOutOfRange", whole, {})>>
<1>1. o.at \in Int /\ o.vertices \in Nat /\ o.quads \in Nat /\ Len(o.faces) \in Nat
      /\ o.faces \in Seq(Seq(Nat))
  BY LenProperties DEF Octant
<1> DEFINE start == o.at > 0 /\ o.units # 0 /\ RangeFits(<<o.at, 4>>, mesh)
           enough == o.quads <= Len(o.faces)
<1>2. start => InRange(Bytes(o.at, 4, mesh))
  BY <1>1 DEF InRange, Bytes
<1>3. start => vertices[1] >= 0 /\ faces[1] >= 0 /\ quads[1] >= 0
  BY <1>1, SMTT(30)
<1>4. Sound(header)
  <2>1. header =
          <<Require("OctantOutOfRange", start, {Bytes(o.at, 4, mesh)}),
            Require("OctantOutOfRange", enough, {}),
            Require("OctantOutOfRange", RangeFits(vertices, mesh), {<<vertices, mesh>>}),
            Require("OctantOutOfRange", RangeFits(faces, mesh), {<<faces, mesh>>}),
            Require("OctantOutOfRange", RangeFits(quads, mesh), {<<quads, mesh>>}),
            Require("OctantOutOfRange", whole, {})>>
    OBVIOUS
  <2> HIDE DEF vertices, faces, quads, whole, start, enough, header
  <2>2. /\ start /\ RangeFits(vertices, mesh) => InRange(<<vertices, mesh>>)
        /\ start /\ RangeFits(faces, mesh) => InRange(<<faces, mesh>>)
        /\ start /\ RangeFits(quads, mesh) => InRange(<<quads, mesh>>)
    BY <1>3 DEF InRange
  <2> QED BY <1>2, <2>1, <2>2, SMTT(30) DEF Require, Sound, IsSteps, FailuresNamed, Verdicts, Guarded
<1>5. Sound(CollisionFaceSteps(o.faces, o.vertices))
  BY <1>1, FaceStepsSound
<1>6. OctantSteps(o, mesh) = header \o CollisionFaceSteps(o.faces, o.vertices)
  BY DEF OctantSteps
<1> HIDE DEF header
<1> QED BY <1>4, <1>5, <1>6, ConcatSound DEF Sound

LEMMA XAxisStepsSound ==
  ASSUME NEW x \in AxisOver(Octant), NEW mesh \in Int
  PROVE  Sound(XAxisSteps(x, mesh))
<1> DEFINE steps == [i \in DOMAIN x.cells |-> OctantSteps(x.cells[i], mesh)]
<1>1. x.cells \in Seq(Octant \union {EmptyCell})
  BY DEF AxisOver
<1>2. \A i \in DOMAIN x.cells : x.cells[i] # EmptyCell => Sound(steps[i])
  BY <1>1, ElementsOfSeq, OctantStepsSound
<1>3. Sound(AxisSteps(x, 4, mesh))
  BY AxisStepsSound
<1>4. XAxisSteps(x, mesh) = Then(AxisSteps(x, 4, mesh), CellSteps(x.cells, steps))
  BY DEF XAxisSteps
<1> HIDE DEF steps
<1>5. Sound(CellSteps(x.cells, steps))
  BY <1>1, <1>2, CellStepsSound
<1> QED BY <1>3, <1>4, <1>5, ThenSound

LEMMA YAxisStepsSound ==
  ASSUME NEW y \in AxisOver(AxisOver(Octant)), NEW mesh \in Int
  PROVE  Sound(YAxisSteps(y, mesh))
<1> DEFINE steps == [i \in DOMAIN y.cells |-> XAxisSteps(y.cells[i], mesh)]
<1>1. y.cells \in Seq(AxisOver(Octant) \union {EmptyCell})
  BY DEF AxisOver
<1>2. \A i \in DOMAIN y.cells : y.cells[i] # EmptyCell => Sound(steps[i])
  BY <1>1, ElementsOfSeq, XAxisStepsSound
<1>3. Sound(AxisSteps(y, 4, mesh))
  BY AxisStepsSound
<1>4. YAxisSteps(y, mesh) = Then(AxisSteps(y, 4, mesh), CellSteps(y.cells, steps))
  BY DEF YAxisSteps
<1> HIDE DEF steps
<1>5. Sound(CellSteps(y.cells, steps))
  BY <1>1, <1>2, CellStepsSound
<1> QED BY <1>3, <1>4, <1>5, ThenSound

LEMMA MeshStepsSound ==
  ASSUME NEW z \in AxisOver(AxisOver(AxisOver(Octant))), NEW mesh \in Int
  PROVE  Sound(MeshSteps(z, mesh))
<1> DEFINE steps == [i \in DOMAIN z.cells |-> YAxisSteps(z.cells[i], mesh)]
<1>1. z.cells \in Seq(AxisOver(AxisOver(Octant)) \union {EmptyCell})
  BY DEF AxisOver
<1>2. \A i \in DOMAIN z.cells : z.cells[i] # EmptyCell => Sound(steps[i])
  BY <1>1, ElementsOfSeq, YAxisStepsSound
<1>3. Sound(AxisSteps(z, 2, mesh))
  BY AxisStepsSound
<1>4. MeshSteps(z, mesh) = Then(AxisSteps(z, 2, mesh), CellSteps(z.cells, steps))
  BY DEF MeshSteps
<1> HIDE DEF steps
<1>5. Sound(CellSteps(z.cells, steps))
  BY <1>1, <1>2, CellStepsSound
<1> QED BY <1>3, <1>4, <1>5, ThenSound

LEMMA GroupStepsSound ==
  ASSUME NEW g \in HeroGroup, NEW hero \in Int
  PROVE  Sound(GroupSteps(g, hero))
<1> DEFINE data == <<g.data, 8 * g.vertices + 4 * Len(g.faces)>>
           range == <<Require("HeroGroupsOutOfRange", RangeFits(data, hero), {<<data, hero>>})>>
<1>1. g.data \in Nat /\ g.vertices \in Nat /\ g.faces \in Seq(Seq(Nat)) /\ Len(g.faces) \in Nat
  BY LenProperties DEF HeroGroup
<1>2. RangeFits(data, hero) => InRange(<<data, hero>>)
  BY <1>1 DEF RangeFits, InRange
<1>3. Sound(range)
  <2> HIDE DEF data
  <2> QED BY <1>2 DEF Require, Sound, IsSteps, FailuresNamed, Verdicts, Guarded
<1>4. GroupSteps(g, hero) = Then(range, CollisionFaceSteps(g.faces, g.vertices))
  BY DEF GroupSteps
<1> HIDE DEF range
<1> QED BY <1>1, <1>3, <1>4, FaceStepsSound, ThenSound

LEMMA HeroStepsSound ==
  ASSUME NEW c, c.hero \in Int, c.groups \in Seq(HeroGroup), NEW bytes \in Int
  PROVE  Sound(HeroSteps(c, bytes))
<1> DEFINE hero == bytes - c.hero
           table == <<16, 16 * Len(c.groups)>>
           header ==
             <<Require("HeroGroupsOutOfRange", c.hero >= 0 /\ RangeFits(<<c.hero, 16>>, bytes), {}),
               Require("HeroGroupsOutOfRange", RangeFits(table, hero), {<<table, hero>>})>>
           turns == [i \in DOMAIN c.groups |-> GroupSteps(c.groups[i], hero)]
<1>1. RangeFits(table, hero) => InRange(<<table, hero>>)
  BY DEF InRange
<1>2. Sound(header)
  <2> HIDE DEF table, hero
  <2> QED BY <1>1 DEF Require, Sound, IsSteps, FailuresNamed, Verdicts, Guarded
<1>3. turns = [i \in DOMAIN c.groups |-> turns[i]] /\ \A i \in DOMAIN c.groups : Sound(turns[i])
  BY ElementsOfSeq, GroupStepsSound
<1>4. HeroSteps(c, bytes) = IF c.hero = 0 THEN <<>> ELSE Then(header, ForEach(turns))
  BY DEF HeroSteps
<1> HIDE DEF header, turns
<1>5. Sound(ForEach(turns))
  BY <1>3, ForEachOfSound
<1> QED BY <1>2, <1>4, <1>5, ThenSound, NoStepsSound

LEMMA CollisionStepsSound ==
  ASSUME NEW b \in Collisions
  PROVE  Sound(CollisionSteps(b[1], b[2]))
<1> DEFINE core == b[1]
           c == b[2]
           bytes == core - c.offset
           header ==
             <<Require("OffsetOutOfRange", RangeFits(<<c.offset, 8>>, core), {Bytes(c.offset, 8, core)}),
               Require("HeaderOutOfRange", c.mesh >= 0, {}),
               Require("MeshOutOfRange", RangeFits(<<c.mesh, 4>>, bytes), {})>>
           last == <<Require("EmptyMesh", CollisionTriangles(c) > 0, {})>>
<1>1. /\ core \in Nat /\ c.offset \in Nat /\ c.mesh \in Int /\ c.hero \in Int
      /\ c.axis \in AxisOver(AxisOver(AxisOver(Octant))) /\ c.groups \in Seq(HeroGroup)
  BY CollisionsAssumption
<1>2. RangeFits(<<c.offset, 8>>, core) => InRange(Bytes(c.offset, 8, core))
  BY <1>1 DEF InRange, Bytes
<1>3. CollisionSteps(b[1], b[2]) =
        Then(Then(Then(header, MeshSteps(c.axis, bytes - c.mesh)), HeroSteps(c, bytes)), last)
  BY DEF CollisionSteps
<1>4. bytes \in Int /\ bytes - c.mesh \in Int
  BY <1>1
<1> HIDE DEF core, c, bytes
<1>5. Sound(header)
  BY <1>2 DEF Require, Sound, IsSteps, FailuresNamed, Verdicts, Guarded
<1>6. Sound(last)
  BY DEF Require, Sound, IsSteps, FailuresNamed, Verdicts, Guarded
<1>7. Sound(MeshSteps(c.axis, bytes - c.mesh))
  BY <1>1, <1>4, MeshStepsSound
<1>8. Sound(HeroSteps(c, bytes))
  BY <1>1, <1>4, HeroStepsSound
<1> HIDE DEF header, last
<1>9. Sound(Then(header, MeshSteps(c.axis, bytes - c.mesh)))
  BY <1>5, <1>7, ThenSound
<1>10. Sound(Then(Then(header, MeshSteps(c.axis, bytes - c.mesh)), HeroSteps(c, bytes)))
  BY <1>8, <1>9, ThenSound
<1> QED BY <1>3, <1>6, <1>10, ThenSound

(* decodeRac1Collision reads every axis, octant, hero group and vertex     *)
(* inside the core, mesh or list it is in, for every block a caller may    *)
(* give it, accepted or not.                                               *)
THEOREM CollisionIsReadInRange == CollisionSpec => []CollisionReadsStayInRange
<1>1. CollisionInit => CollisionReadsStayInRange
  BY DEF CollisionInit, NoCollision, CollisionReadsStayInRange
<1>2. ASSUME CollisionReadsStayInRange, [DecodeCollision]_collision
      PROVE  CollisionReadsStayInRange'
  <2>1. CASE DecodeCollision
    <3>1. PICK b \in Collisions : collision' = CollisionDecoded[b]
      BY <2>1 DEF DecodeCollision
    <3>2. collision'.reads = ReadsOf(CollisionSteps(b[1], b[2]))
      BY <3>1 DEF CollisionDecoded
    <3>3. \A read \in collision'.reads : InRange(read)
      BY <3>2, CollisionStepsSound, ReadsOfSteps
    <3> QED BY <3>3 DEF CollisionReadsStayInRange, InRange
  <2>2. CASE UNCHANGED collision
    BY <1>2, <2>2 DEF CollisionReadsStayInRange
  <2> QED BY <1>2, <2>1, <2>2
<1> QED
  BY <1>1, <1>2, PTL DEF CollisionSpec

----------------------------------------------------------------------------
(* Loops whose turns rely on the turns before them, and runs of a loop.    *)

(* If no turn is the first bad one, none is bad.                           *)
LEMMA NoFirstBad ==
  ASSUME NEW n \in Nat, NEW Bad \in SUBSET (0 .. n), 0 \notin Bad,
         \A i \in 1 .. n : i \in Bad => i - 1 \in Bad
  PROVE  Bad = {}
<1>1. SUFFICES ASSUME Bad # {} PROVE FALSE
  OBVIOUS
<1>2. PICK m \in Bad : \A k \in Bad : m <= k
  BY <1>1, LeastNatural
<1>3. m \in 1 .. n /\ ~(m <= m - 1)
  BY <1>2
<1> QED BY <1>2, <1>3

(* A loop whose turns may rely on the turns before them.                   *)
LEMMA LoopSound ==
  ASSUME NEW turns, NEW n \in Nat, turns = [i \in 1 .. n |-> turns[i]],
         \A i \in 1 .. n : (\A j \in 1 .. i - 1 : AllHold(turns[j])) => Sound(turns[i])
  PROVE  /\ Sound(ForEach(turns))
         /\ AllHold(ForEach(turns)) => \A i \in 1 .. n : AllHold(turns[i])
<1> DEFINE upTo == CHOOSE f : f = [i \in 0 .. n |-> IF i = 0 THEN <<>> ELSE Then(f[i - 1], turns[i])]
<1>1. ForEach(turns) = upTo[n]
  BY LenOfFunction DEF ForEach
<1>2. Unfolds(upTo, turns, n)
  BY UnfoldsExists DEF Unfolds
<1> HIDE DEF upTo
<1>3. upTo[0] = <<>> /\ \A i \in 1 .. n : upTo[i] = Then(upTo[i - 1], turns[i])
  BY <1>2 DEF Unfolds
<1> DEFINE Good(i) == /\ Sound(upTo[i])
                      /\ AllHold(upTo[i]) => \A j \in 1 .. i : AllHold(turns[j])
           Bad == {i \in 0 .. n : ~Good(i)}
<1>4. Good(0)
  BY <1>3, NoStepsSound
<1>5. ASSUME NEW i \in 1 .. n, Good(i - 1) PROVE Good(i)
  <2>1. upTo[i] = Then(upTo[i - 1], turns[i])
    BY <1>3
  <2>2. AllHold(upTo[i - 1]) => Sound(turns[i])
    BY <1>5
  <2>3. Sound(upTo[i]) /\ (AllHold(upTo[i]) => AllHold(upTo[i - 1]) /\ AllHold(turns[i]))
    BY <2>1, <2>2, <1>5, ThenSound
  <2>4. ASSUME AllHold(upTo[i]), NEW j \in 1 .. i PROVE AllHold(turns[j])
    <3>1. j = i \/ j \in 1 .. i - 1
      OBVIOUS
    <3> QED BY <3>1, <1>5, <2>3, <2>4
  <2> QED BY <2>3, <2>4
<1>6. Bad = {}
  <2> HIDE DEF Good
  <2>1. Bad \in SUBSET (0 .. n) /\ 0 \notin Bad /\ \A i \in 1 .. n : i \in Bad => i - 1 \in Bad
    BY <1>4, <1>5
  <2> HIDE DEF Bad
  <2> QED BY <2>1, NoFirstBad
<1>7. Good(n)
  <2> HIDE DEF Good
  <2> QED BY <1>6
<1> QED BY <1>1, <1>7

(* The steps of a call, seen from outside as one status.                   *)
LEMMA WithinSound ==
  ASSUME NEW s, Sound(s), NEW status, status \notin Verdicts
  PROVE  /\ Sound(Within(status, s))
         /\ AllHold(Within(status, s)) <=> AllHold(s)
<1> DEFINE w == [i \in DOMAIN s |-> Require(status, s[i].holds, s[i].reads)]
<1>1. Within(status, s) = w
  BY DEF Within
<1>2. DOMAIN s = 1 .. Len(s) /\ Len(s) \in Nat
  BY DEF Sound, IsSteps
<1>3. w = [i \in 1 .. Len(s) |-> w[i]]
  BY <1>2
<1>4. \A i \in DOMAIN s : /\ w[i].failure = status /\ (w[i].holds <=> s[i].holds)
                          /\ w[i].holds => w[i].reads = s[i].reads
                          /\ ~w[i].holds => w[i].reads = {}
  BY DEF Require
<1> HIDE DEF w
<1>5. Len(w) = Len(s) /\ DOMAIN w = DOMAIN s
  BY <1>2, <1>3, LenOfFunction
<1>6. FailuresNamed(w) /\ IsSteps(w)
  BY <1>2, <1>3, <1>4, <1>5 DEF FailuresNamed, IsSteps
<1>7. AllHold(w) <=> AllHold(s)
  BY <1>4, <1>5 DEF AllHold
<1>8. ASSUME NEW i \in DOMAIN w, \A j \in 1 .. i : w[j].holds, NEW read \in w[i].reads
      PROVE  InRange(read)
  <2>1. i \in DOMAIN s /\ \A j \in 1 .. i : j \in DOMAIN s
    BY <1>2, <1>5
  <2>2. \A j \in 1 .. i : s[j].holds
    BY <2>1, <1>8, <1>4
  <2>3. i \in 1 .. i
    BY <2>1, <1>2
  <2>4. read \in s[i].reads
    BY <2>1, <2>3, <1>8, <1>4
  <2> QED BY <2>1, <2>2, <2>4 DEF Sound, Guarded
<1> QED BY <1>1, <1>6, <1>7, <1>8 DEF Sound, Guarded

----------------------------------------------------------------------------
(* A bounded set of integers has a greatest element.                       *)
LEMMA MaxIsGreatest ==
  ASSUME NEW S \in SUBSET Int, S # {}, NEW n \in Int, \A k \in S : k <= n
  PROVE  Max(S) \in S /\ \A k \in S : k <= Max(S)
<1> DEFINE T == {n - k : k \in S}
<1>1. T \in SUBSET Nat /\ T # {}
  <2>1. \A k \in S : n - k \in Nat
    OBVIOUS
  <2> QED BY <2>1
<1>2. PICK t \in T : \A u \in T : t <= u
  <2> HIDE DEF T
  <2> QED BY <1>1, LeastNatural
<1>3. PICK m \in S : t = n - m
  BY <1>2
<1>4. \A k \in S : m >= k
  <2> TAKE k \in S
  <2>1. n - k \in T
    OBVIOUS
  <2>2. t <= n - k
    BY <1>2, <2>1
  <2> QED BY <1>3, <2>2
<1>5. \E x \in S : \A y \in S : x >= y
  BY <1>4
<1>6. Max(S) \in S /\ \A y \in S : Max(S) >= y
  BY <1>5 DEF Max
<1> QED BY <1>6

\* A loop of n turns over values of S, and a run of it.
IsLoop(S, n, start, next) == n \in Nat /\ start \in S /\ next \in [1 .. n -> [S -> S]]

IsRun(g, S, n, start, next) ==
  g \in [0 .. n -> S] /\ g[0] = start /\ \A i \in 1 .. n : g[i] = next[i][g[i - 1]]

(* Such a loop has a run.                                                  *)
LEMMA RunExists ==
  ASSUME NEW S, NEW n, NEW start, NEW next, IsLoop(S, n, start, next)
  PROVE  \E g : IsRun(g, S, n, start, next)
<1> DEFINE Runs(k, g) == /\ g \in [0 .. k -> S] /\ g[0] = start
                         /\ \A i \in 1 .. k : g[i] = next[i][g[i - 1]]
           Bad == {k \in 0 .. n : ~ \E g : Runs(k, g)}
<1>0. n \in Nat /\ start \in S /\ next \in [1 .. n -> [S -> S]]
  BY DEF IsLoop
<1>1. 0 \notin Bad
  <2> DEFINE g == [i \in 0 .. 0 |-> start]
  <2>1. Runs(0, g)
    BY <1>0
  <2> HIDE DEF g, Runs
  <2> QED BY <2>1
<1>2. ASSUME NEW m \in 1 .. n, m - 1 \notin Bad PROVE m \notin Bad
  <2>1. m - 1 \in 0 .. n /\ m \in Nat
    BY <1>0
  <2>2. PICK f : Runs(m - 1, f)
    <3> HIDE DEF Runs
    <3> QED BY <2>1, <1>2
  <2> DEFINE g == [i \in 0 .. m |-> IF i = m THEN next[m][f[m - 1]] ELSE f[i]]
  <2>3. f[m - 1] \in S /\ next[m][f[m - 1]] \in S
    <3>1. m - 1 \in 0 .. m - 1
      BY <1>0
    <3>2. f[m - 1] \in S /\ next[m] \in [S -> S]
      BY <3>1, <2>2, <1>0
    <3> QED BY <3>2
  <2>4. g \in [0 .. m -> S]
    <3>1. ASSUME NEW i \in 0 .. m PROVE (IF i = m THEN next[m][f[m - 1]] ELSE f[i]) \in S
      <4>1. i = m \/ i \in 0 .. m - 1
        BY <2>1
      <4> QED BY <4>1, <2>2, <2>3
    <3> QED BY <3>1
  <2>5. g[0] = start
    BY <2>2
  <2>6. ASSUME NEW i \in 1 .. m PROVE g[i] = next[i][g[i - 1]]
    <3>1. i - 1 \in 0 .. m /\ i - 1 # m /\ g[i - 1] = f[i - 1]
      BY <2>1
    <3>2. CASE i = m
      BY <3>1, <3>2
    <3>3. CASE i # m
      <4>1. i \in 1 .. m - 1 /\ g[i] = f[i]
        BY <3>3, <2>1
      <4>2. f[i] = next[i][f[i - 1]]
        BY <4>1, <2>2
      <4> HIDE DEF g
      <4> QED BY <3>1, <4>1, <4>2
    <3> QED BY <3>2, <3>3
  <2>7. Runs(m, g)
    <3> HIDE DEF g
    <3> QED BY <2>4, <2>5, <2>6
  <2> HIDE DEF g, Runs
  <2> QED BY <2>7
<1>3. Bad = {}
  <2> HIDE DEF Runs
  <2>1. Bad \in SUBSET (0 .. n)
    OBVIOUS
  <2> HIDE DEF Bad
  <2> QED BY <2>1, <1>0, <1>1, <1>2, NoFirstBad
<1>4. \E g : Runs(n, g)
  <2>1. n \in 0 .. n
    BY <1>0
  <2>2. n \in Bad \/ \E g : Runs(n, g)
    <3> HIDE DEF Runs
    <3> QED BY <2>1, Zenon
  <2> HIDE DEF Bad, Runs
  <2> QED BY <1>3, <2>2
<1> QED BY <1>4 DEF IsRun

(* An invariant of a run.                                                  *)
LEMMA RunStaysIn ==
  ASSUME NEW S, NEW n \in Nat, NEW f, f[0] \in S, \A i \in 1 .. n : f[i - 1] \in S => f[i] \in S
  PROVE  \A i \in 0 .. n : f[i] \in S
<1> DEFINE Bad == {k \in 0 .. n : f[k] \notin S}
<1>1. Bad \in SUBSET (0 .. n) /\ 0 \notin Bad /\ \A i \in 1 .. n : i \in Bad => i - 1 \in Bad
  OBVIOUS
<1>2. Bad = {}
  <2> HIDE DEF Bad
  <2> QED BY <1>1, NoFirstBad
<1> QED BY <1>2

(* Selecting from a sequence, one element after the other.                 *)
IsSelecting(upTo, s, places) ==
  /\ upTo[0] = <<>>
  /\ \A i \in 1 .. Len(s) :
       upTo[i] = IF i \in places THEN Append(upTo[i - 1], s[i]) ELSE upTo[i - 1]

(* A selection is where such a run ends.                                   *)
LEMMA SelectRun ==
  ASSUME NEW S, NEW s \in Seq(S), NEW places
  PROVE  \E upTo : IsSelecting(upTo, s, places) /\ Select(s, places) = upTo[Len(s)]
<1> DEFINE n == Len(s)
           next == [i \in 1 .. n |-> [x \in Seq(S) |-> IF i \in places THEN Append(x, s[i]) ELSE x]]
           upTo == CHOOSE f : f = [i \in 0 .. n |-> IF i = 0 THEN <<>> ELSE
                                     IF i \in places THEN Append(f[i - 1], s[i]) ELSE f[i - 1]]
<1>1. n \in Nat /\ DOMAIN s = 1 .. n /\ \A i \in 1 .. n : s[i] \in S
  BY ElementsOfSeq
<1>2. Select(s, places) = upTo[n]
  BY DEF Select
<1> HIDE DEF n
<1>3. next \in [1 .. n -> [Seq(S) -> Seq(S)]] /\ <<>> \in Seq(S)
  BY <1>1, AppendProperties, EmptySeq
<1>4. PICK g : IsRun(g, Seq(S), n, <<>>, next)
  BY <1>1, <1>3, RunExists DEF IsLoop
<1>5. \A i \in 1 .. n : g[i] = IF i \in places THEN Append(g[i - 1], s[i]) ELSE g[i - 1]
  <2> TAKE i \in 1 .. n
  <2>1. i - 1 \in 0 .. n
    BY <1>1
  <2> QED BY <1>4, <2>1 DEF IsRun
<1>6. g = [i \in 0 .. n |-> IF i = 0 THEN <<>> ELSE
                              IF i \in places THEN Append(g[i - 1], s[i]) ELSE g[i - 1]]
  <2>1. \A i \in 0 .. n : i # 0 => i \in 1 .. n
    BY <1>1
  <2>2. g = [i \in 0 .. n |-> g[i]] /\ g[0] = <<>>
    BY <1>4 DEF IsRun
  <2> HIDE DEF next
  <2> QED BY <2>1, <2>2, <1>5
<1>7. upTo = [i \in 0 .. n |-> IF i = 0 THEN <<>> ELSE
                                 IF i \in places THEN Append(upTo[i - 1], s[i]) ELSE upTo[i - 1]]
  BY <1>6
<1> HIDE DEF upTo, next
<1>8. upTo[0] = <<>> /\ \A i \in 1 .. n : upTo[i] = IF i \in places THEN Append(upTo[i - 1], s[i])
                                                     ELSE upTo[i - 1]
  <2>1. 0 \in 0 .. n /\ \A i \in 1 .. n : i \in 0 .. n /\ i # 0
    BY <1>1
  <2> QED BY <1>7, <2>1
<1> QED BY <1>2, <1>8 DEF IsSelecting, n

(* The elements of s at some places, and the values of s.                  *)
LEMMA SelectFacts ==
  ASSUME NEW S, NEW s \in Seq(S), NEW places
  PROVE  /\ Select(s, places) \in Seq(S)
         /\ \A k \in DOMAIN Select(s, places) :
              \E i \in DOMAIN s : i \in places /\ Select(s, places)[k] = s[i]
         /\ \A i \in DOMAIN s : i \in places =>
              \E k \in DOMAIN Select(s, places) : Select(s, places)[k] = s[i]
<1> DEFINE n == Len(s)
<1>1. n \in Nat /\ DOMAIN s = 1 .. n /\ \A i \in 1 .. n : s[i] \in S
  BY ElementsOfSeq
<1>2. PICK upTo : IsSelecting(upTo, s, places) /\ Select(s, places) = upTo[n]
  BY SelectRun
<1>3. upTo[0] = <<>> /\ \A i \in 1 .. n : upTo[i] = IF i \in places THEN Append(upTo[i - 1], s[i])
                                                     ELSE upTo[i - 1]
  BY <1>2 DEF IsSelecting
<1> HIDE DEF n
<1> DEFINE Good(i) == /\ upTo[i] \in Seq(S)
                      /\ \A k \in DOMAIN upTo[i] : \E j \in 1 .. i : j \in places /\ upTo[i][k] = s[j]
                      /\ \A j \in 1 .. i : j \in places => \E k \in DOMAIN upTo[i] : upTo[i][k] = s[j]
           Bad == {i \in 0 .. n : ~Good(i)}
<1>4. Good(0)
  <2>1. upTo[0] = <<>> /\ DOMAIN <<>> = {} /\ 1 .. 0 = {}
    BY <1>3
  <2> QED BY <2>1, EmptySeq
<1>5. ASSUME NEW i \in 1 .. n, Good(i - 1) PROVE Good(i)
  <2>1. upTo[i - 1] \in Seq(S) /\ s[i] \in S
    BY <1>5, <1>1
  <2> DEFINE u == upTo[i - 1]
  <2>2. CASE i \notin places
    <3>1. upTo[i] = u
      BY <1>3, <2>2
    <3>2. \A j \in 1 .. i : j \in places => j \in 1 .. i - 1
      BY <2>2, <1>1
    <3>3. \A j \in 1 .. i - 1 : j \in 1 .. i
      BY <1>1
    <3> HIDE DEF u
    <3> QED BY <3>1, <3>2, <3>3, <2>1, <1>5 DEF u
  <2>3. CASE i \in places
    <3>1. upTo[i] = Append(u, s[i])
      BY <1>3, <2>3
    <3>2. /\ Append(u, s[i]) \in Seq(S) /\ Len(u) \in Nat
          /\ Len(Append(u, s[i])) = Len(u) + 1 /\ DOMAIN u = 1 .. Len(u)
          /\ \A k \in 1 .. Len(u) : Append(u, s[i])[k] = u[k]
          /\ Append(u, s[i])[Len(u) + 1] = s[i]
      BY <2>1, AppendProperties, LenProperties
    <3>3. DOMAIN upTo[i] = 1 .. Len(u) + 1
      BY <3>1, <3>2, LenProperties
    <3>4. ASSUME NEW k \in DOMAIN upTo[i] PROVE \E j \in 1 .. i : j \in places /\ upTo[i][k] = s[j]
      <4>1. CASE k = Len(u) + 1
        <5>1. i \in 1 .. i
          BY <1>1
        <5> QED BY <5>1, <4>1, <2>3, <3>1, <3>2
      <4>2. CASE k # Len(u) + 1
        <5>1. k \in 1 .. Len(u)
          BY <3>2, <3>3, <4>2
        <5>2. PICK j \in 1 .. i - 1 : j \in places /\ u[k] = s[j]
          BY <5>1, <3>2, <1>5
        <5>3. j \in 1 .. i
          BY <1>1
        <5> QED BY <5>1, <5>2, <5>3, <3>1, <3>2
      <4> QED BY <4>1, <4>2
    <3>5. ASSUME NEW j \in 1 .. i, j \in places PROVE \E k \in DOMAIN upTo[i] : upTo[i][k] = s[j]
      <4>1. CASE j = i
        <5>1. Len(u) + 1 \in DOMAIN upTo[i]
          BY <3>2, <3>3
        <5> QED BY <5>1, <4>1, <3>1, <3>2
      <4>2. CASE j # i
        <5>1. j \in 1 .. i - 1
          BY <1>1, <4>2
        <5>2. PICK k \in DOMAIN u : u[k] = s[j]
          BY <5>1, <3>5, <1>5
        <5>3. k \in DOMAIN upTo[i] /\ k \in 1 .. Len(u)
          BY <3>2, <3>3
        <5> QED BY <5>2, <5>3, <3>1, <3>2
      <4> QED BY <4>1, <4>2
    <3> QED BY <3>1, <3>2, <3>4, <3>5
  <2> QED BY <2>2, <2>3
<1>6. Bad = {}
  <2> HIDE DEF Good
  <2>1. Bad \in SUBSET (0 .. n) /\ 0 \notin Bad /\ \A i \in 1 .. n : i \in Bad => i - 1 \in Bad
    BY <1>1, <1>4, <1>5
  <2> HIDE DEF Bad
  <2> QED BY <2>1, <1>1, NoFirstBad
<1>7. Good(n)
  <2> HIDE DEF Good
  <2> QED BY <1>6, <1>1
<1> QED BY <1>1, <1>2, <1>7

----------------------------------------------------------------------------
(* Lists: ascending numbers, and lists one after the other.                *)

(* A function on 1 .. n, as a sequence of elements of S.                   *)
LEMMA FunctionIsSeq ==
  ASSUME NEW S, NEW n \in Nat, NEW f, f = [i \in 1 .. n |-> f[i]], \A i \in 1 .. n : f[i] \in S
  PROVE  f \in Seq(S) /\ Len(f) = n /\ DOMAIN f = 1 .. n
<1>1. f \in [1 .. n -> S]
  OBVIOUS
<1>2. f \in Seq(S)
  BY <1>1, SeqDef
<1> QED BY <1>2, LenOfFunction

(* A sequence is one in any larger set.                                    *)
LEMMA SeqWiden ==
  ASSUME NEW S, NEW T, NEW s \in Seq(S), \A i \in DOMAIN s : s[i] \in T
  PROVE  s \in Seq(T)
<1>1. s = [i \in 1 .. Len(s) |-> s[i]] /\ Len(s) \in Nat /\ DOMAIN s = 1 .. Len(s)
  BY LenProperties
<1> QED BY <1>1, FunctionIsSeq

(* What IsSequence says of a value.                                        *)
LEMMA SequenceFacts ==
  ASSUME NEW s, IsSequence(s)
  PROVE  /\ Len(s) \in Nat /\ DOMAIN s = 1 .. Len(s) /\ s = [i \in 1 .. Len(s) |-> s[i]]
         /\ \A i \in DOMAIN s : s[i] \in Range(s)
         /\ s \in Seq(Range(s))
BY LenProperties DEF IsSequence, Range

(* A set of integers with a lower bound has a least element.               *)
LEMMA MinIsLeastInt ==
  ASSUME NEW S \in SUBSET Int, S # {}, NEW n \in Int, \A k \in S : n <= k
  PROVE  Min(S) \in S /\ \A k \in S : Min(S) <= k
<1> DEFINE T == {k - n : k \in S}
<1>1. T \in SUBSET Nat /\ T # {}
  <2>1. \A k \in S : k - n \in Nat
    OBVIOUS
  <2> QED BY <2>1
<1>2. PICK t \in T : \A u \in T : t <= u
  <2> HIDE DEF T
  <2> QED BY <1>1, LeastNatural
<1>3. PICK m \in S : t = m - n
  BY <1>2
<1>4. \A k \in S : m <= k
  <2> TAKE k \in S
  <2>1. k - n \in T
    OBVIOUS
  <2>2. t <= k - n
    BY <1>2, <2>1
  <2> QED BY <1>3, <2>2
<1>5. \E x \in S : \A y \in S : x =< y
  BY <1>4
<1>6. Min(S) \in S /\ \A y \in S : Min(S) =< y
  BY <1>5 DEF Min
<1> QED BY <1>6

(* The elements of a list are finitely many.                               *)
LEMMA ListIsFinite ==
  ASSUME NEW n \in Nat, NEW f, f = [i \in 1 .. n |-> f[i]]
  PROVE  IsFiniteSet({f[i] : i \in 1 .. n})
<1> DEFINE S == {f[i] : i \in 1 .. n}
<1>1. f \in Seq(S) /\ Len(f) = n
  BY FunctionIsSeq
<1>2. \A e \in S : \E i \in 1 .. Len(f) : f[i] = e
  BY <1>1
<1> HIDE DEF S
<1>3. IsFiniteSet(S)
  BY <1>1, <1>2 DEF IsFiniteSet
<1> QED BY <1>3 DEF S

(* Every element of a finite set of numbers is in its ascending list.      *)
LEMMA AscendingFacts ==
  ASSUME NEW S \in SUBSET Int, IsFiniteSet(S)
  PROVE  /\ Cardinality(S) \in Nat
         /\ Ascending(S) = [n \in 1 .. Cardinality(S) |-> Ascending(S)[n]]
         /\ \A c \in S : \E n \in 1 .. Cardinality(S) : Ascending(S)[n] = c
<1> DEFINE below(c) == {d \in S : d < c}
<1>1. Cardinality(S) \in Nat /\ \A c \in S : IsFiniteSet(below(c)) /\ Cardinality(below(c)) \in Nat
  BY FS_Subset, FS_CardinalityType
<1>2. ASSUME NEW c \in S PROVE Cardinality(below(c)) < Cardinality(S)
  <2>1. below(c) \in SUBSET S /\ c \notin below(c)
    OBVIOUS
  <2>2. Cardinality(below(c)) <= Cardinality(S) /\ Cardinality(S) # Cardinality(below(c))
    <3> HIDE DEF below
    <3> QED BY <2>1, FS_Subset
  <2> HIDE DEF below
  <2> QED BY <2>2, <1>1
<1>3. ASSUME NEW c \in S, NEW d \in S, d < c PROVE Cardinality(below(d)) < Cardinality(below(c))
  <2>1. below(d) \in SUBSET below(c) /\ d \in below(c) /\ d \notin below(d)
    <3>1. c \in Int /\ d \in Int /\ d < c /\ ~(d < d) /\ \A e \in S : e \in Int
      BY <1>3
    <3>2. \A e \in S : e < d => e < c
      BY <3>1
    <3> QED BY <3>1, <3>2
  <2>2. IsFiniteSet(below(c))
    BY <1>1
  <2>3. /\ Cardinality(below(d)) <= Cardinality(below(c))
        /\ Cardinality(below(c)) # Cardinality(below(d))
    <3> HIDE DEF below
    <3> QED BY <2>1, <2>2, FS_Subset
  <2> HIDE DEF below
  <2> QED BY <2>3, <1>1
<1> DEFINE count == Cardinality(S)
           size(c) == Cardinality(below(c))
           list == [n \in 1 .. count |-> CHOOSE c \in S : size(c) = n - 1]
<1>4. Ascending(S) = list
  BY DEF Ascending
<1>5. ASSUME NEW c \in S PROVE \E n \in 1 .. count : list[n] = c
  <2> HIDE DEF below
  <2>1. size(c) \in Nat /\ count \in Nat /\ size(c) < count
    BY <1>1, <1>2
  <2>2. \A d \in S : size(d) = size(c) => d = c
    <3> TAKE d \in S
    <3>1. d = c \/ d < c \/ c < d
      OBVIOUS
    <3>2. size(d) \in Nat /\ (d < c => size(d) < size(c)) /\ (c < d => size(c) < size(d))
      BY <1>1, <1>3
    <3> HIDE DEF size
    <3> QED BY <2>1, <3>1, <3>2
  <2> DEFINE m == size(c) + 1
  <2>3. m \in 1 .. count /\ m - 1 = size(c)
    <3> HIDE DEF size, count
    <3> QED BY <2>1
  <2> HIDE DEF m, size, count
  <2>4. list[m] = CHOOSE d \in S : size(d) = m - 1
    BY <2>3
  <2>5. list[m] \in S /\ size(list[m]) = m - 1
    BY <2>3, <2>4
  <2>6. list[m] = c
    BY <2>2, <2>3, <2>5
  <2> QED BY <2>3, <2>6
<1>6. list = [n \in 1 .. count |-> list[n]]
  BY SMTT(30)
<1> HIDE DEF list
<1> QED BY <1>1, <1>4, <1>5, <1>6

(* Sequences one after the other.                                          *)
LEMMA FlattenTyped ==
  ASSUME NEW S, NEW seqs \in Seq(Seq(S))
  PROVE  FlattenSeq(seqs) \in Seq(S)
<1>1. Len(seqs) \in Nat /\ \A i \in 1 .. Len(seqs) : seqs[i] \in Seq(S)
  BY ElementsOfSeq
<1>2. CASE Len(seqs) = 0
  <2>1. FlattenSeq(seqs) = seqs
    BY <1>2 DEF FlattenSeq
  <2>2. seqs = <<>>
    BY <1>2, EmptySeq
  <2> QED BY <2>1, <2>2, EmptySeq
<1>3. CASE Len(seqs) # 0
  <2> DEFINE n == Len(seqs) - 1
             Q == Seq(S)
             next == [i \in 1 .. n |-> [x \in Q |-> x \o seqs[i + 1]]]
             flat == CHOOSE f : f = [i \in 1 .. Len(seqs) |->
                                       IF i = 1 THEN seqs[i] ELSE f[i - 1] \o seqs[i]]
  <2>1. FlattenSeq(seqs) = flat[Len(seqs)]
    BY <1>3 DEF FlattenSeq
  <2>2. n \in Nat /\ n + 1 = Len(seqs) /\ seqs[1] \in Q
    BY <1>1, <1>3
  <2>3. IsLoop(Q, n, seqs[1], next)
    <3>1. ASSUME NEW i \in 1 .. n, NEW x \in Q PROVE x \o seqs[i + 1] \in Q
      <4>1. seqs[i + 1] \in Seq(S)
        BY <2>2, <1>1
      <4> QED BY <4>1, ConcatProperties
    <3> HIDE DEF Q, n
    <3> QED BY <3>1, <2>2 DEF IsLoop
  <2>4. PICK g : IsRun(g, Q, n, seqs[1], next)
    <3> HIDE DEF next, Q, n
    <3> QED BY <2>3, RunExists
  <2>5. g \in [0 .. n -> Q] /\ g[0] = seqs[1] /\ \A i \in 1 .. n : g[i] = g[i - 1] \o seqs[i + 1]
    <3>1. \A i \in 1 .. n : i - 1 \in 0 .. n
      BY <2>2
    <3> HIDE DEF Q, n
    <3> QED BY <2>4, <3>1 DEF IsRun
  <2> DEFINE h == [i \in 1 .. Len(seqs) |-> g[i - 1]]
  <2>6. h = [i \in 1 .. Len(seqs) |-> IF i = 1 THEN seqs[i] ELSE h[i - 1] \o seqs[i]]
    <3>1. ASSUME NEW i \in 1 .. Len(seqs)
          PROVE  h[i] = IF i = 1 THEN seqs[i] ELSE h[i - 1] \o seqs[i]
      <4>1. CASE i = 1
        <5>1. h[i] = g[0]
          BY <4>1
        <5> HIDE DEF h
        <5> QED BY <4>1, <5>1, <2>5
      <4>2. CASE i # 1
        <5>1. i - 1 \in 1 .. n /\ i - 1 \in 1 .. Len(seqs) /\ h[i] = g[i - 1]
              /\ h[i - 1] = g[i - 1 - 1] /\ i - 1 + 1 = i
          BY <4>2, <2>2
        <5>2. g[i - 1] = g[i - 1 - 1] \o seqs[i - 1 + 1]
          <6> HIDE DEF n, h
          <6> QED BY <5>1, <2>5
        <5> HIDE DEF h, n
        <5> QED BY <4>2, <5>1, <5>2
      <4> QED BY <4>1, <4>2
    <3>2. h = [i \in 1 .. Len(seqs) |-> h[i]]
      OBVIOUS
    <3> HIDE DEF h
    <3> QED BY <3>1, <3>2
  <2>7. flat = [i \in 1 .. Len(seqs) |-> IF i = 1 THEN seqs[i] ELSE flat[i - 1] \o seqs[i]]
    <3> HIDE DEF h
    <3> QED BY <2>6
  <2> HIDE DEF flat
  <2> DEFINE Bad == {i \in 0 .. n : flat[i + 1] \notin Q}
  <2>8. Bad = {}
    <3>1. 0 \notin Bad
      <4>1. flat[1] = seqs[1]
        BY <2>7, <2>2
      <4> HIDE DEF Q
      <4> QED BY <4>1, <2>2
    <3>2. ASSUME NEW i \in 1 .. n, i - 1 \notin Bad PROVE i \notin Bad
      <4>1. i - 1 \in 0 .. n /\ i - 1 + 1 = i /\ i + 1 \in 1 .. Len(seqs) /\ i + 1 # 1 /\ i + 1 - 1 = i
        BY <2>2
      <4>2. flat[i] \in Q
        <5> HIDE DEF Q, n
        <5> QED BY <4>1, <3>2
      <4>3. flat[i + 1] = flat[i] \o seqs[i + 1]
        <5> DEFINE k == i + 1
        <5>1. k \in 1 .. Len(seqs) /\ k # 1 /\ k - 1 = i
          BY <4>1
        <5> HIDE DEF k, n, Q, Bad
        <5>2. flat[k] = flat[k - 1] \o seqs[k]
          BY <5>1, <2>7
        <5>3. flat[k] = flat[i] \o seqs[k]
          BY <5>1, <5>2
        <5> QED BY <5>3 DEF k
      <4>4. flat[i] \o seqs[i + 1] \in Seq(S)
        BY <4>1, <4>2, <1>1, ConcatProperties
      <4> QED BY <4>3, <4>4
    <3>3. Bad \in SUBSET (0 .. n)
      OBVIOUS
    <3> HIDE DEF Bad, n
    <3> QED BY <2>2, <3>1, <3>2, <3>3, NoFirstBad
  <2>9. n \in 0 .. n
    BY <2>2
  <2>10. flat[n + 1] \in Q
    <3> HIDE DEF Q, n
    <3> QED BY <2>8, <2>9
  <2> QED BY <2>1, <2>2, <2>10
<1> QED BY <1>2, <1>3

----------------------------------------------------------------------------
(* A level's file and its core: sections, overlay, index, textures.        *)

(* A single step.                                                          *)
LEMMA StepSound ==
  ASSUME NEW failure, NEW holds, NEW reads, failure \notin Verdicts \/ holds,
         holds => \A read \in reads : InRange(read)
  PROVE  /\ Sound(<<Require(failure, holds, reads)>>)
         /\ AllHold(<<Require(failure, holds, reads)>>) <=> holds
<1> DEFINE step == Require(failure, holds, reads)
<1>1. /\ step.failure = failure /\ (step.holds <=> holds)
      /\ step.holds => \A read \in step.reads : InRange(read)
  BY DEF Require
<1> HIDE DEF step
<1>2. Sound(<<step>>)
  BY <1>1 DEF Sound, IsSteps, FailuresNamed, Guarded
<1>3. AllHold(<<step>>) <=> holds
  BY <1>1, OneHolds
<1> QED BY <1>2, <1>3 DEF step

(* The parsed records of an overlay lie in it.                             *)
LEMMA OverlayParseFacts ==
  ASSUME NEW size \in Nat, NEW records \in Seq(Nat \X Nat)
  PROVE  /\ OverlayParse(size, records).segments \in
              Seq({s \in [at : Nat, destination : Nat, size : Nat] : s.at + s.size <= size})
<1> DEFINE Segment == {s \in [at : Nat, destination : Nat, size : Nat] : s.at + s.size <= size}
           Status == {"Ok", "TruncatedHeader", "PayloadOutOfRange", "DestinationOverflow"}
           Parse == [status : Status, cursor : Nat, segments : Seq(Segment)]
           zeroes == [i \in 1 .. size \div kRecordHeaderBytes + 1 |-> <<0, 0>>]
           all == records \o zeroes
           start == [status |-> "Ok", cursor |-> 0, segments |-> <<>>]
           n == Len(all)
           next == [i \in 1 .. n |-> [x \in Parse |-> OverlayRecord(size, x, all[i])]]
           upTo == CHOOSE f : f = [i \in 0 .. n |->
                                     IF i = 0 THEN start ELSE OverlayRecord(size, f[i - 1], all[i])]
<1>1. OverlayParse(size, records) = upTo[n]
  BY DEF OverlayParse
<1>2. n \in Nat /\ \A i \in 1 .. n : all[i] \in Nat \X Nat
  <2>1. size \div kRecordHeaderBytes + 1 \in Nat
    BY DEF kRecordHeaderBytes
  <2>2. zeroes \in Seq(Nat \X Nat)
    <3> DEFINE k == size \div kRecordHeaderBytes + 1
    <3>1. k \in Nat
      BY <2>1
    <3> HIDE DEF k
    <3>2. [i \in 1 .. k |-> <<0, 0>>] \in Seq(Nat \X Nat)
      BY <3>1, SeqDef
    <3> QED BY <3>2 DEF k
  <2> HIDE DEF zeroes
  <2>3. all \in Seq(Nat \X Nat)
    BY <2>2, ConcatProperties
  <2> HIDE DEF all
  <2> QED BY <2>3, ElementsOfSeq
<1> HIDE DEF all
<1>3. start \in Parse
  BY EmptySeq
<1>4. ASSUME NEW x \in Parse, NEW r \in Nat \X Nat PROVE OverlayRecord(size, x, r) \in Parse
  <2> DEFINE payload == x.cursor + kRecordHeaderBytes
             segment == [at |-> payload, destination |-> r[1], size |-> r[2]]
             more == Append(x.segments, segment)
  <2>1. payload \in Nat /\ x.cursor \in Nat /\ x.status \in Status /\ x.segments \in Seq(Segment)
    BY DEF kRecordHeaderBytes
  <2>2. CASE /\ x.status = "Ok" /\ x.cursor < size /\ ~(size - x.cursor < kRecordHeaderBytes)
             /\ ~(r[2] > size - payload) /\ ~(r[1] > AddressLimit - r[2])
    <3>1. segment \in Segment
      BY <2>1, <2>2
    <3>2. more \in Seq(Segment)
      <4> HIDE DEF segment, Segment
      <4> QED BY <2>1, <3>1, AppendProperties
    <3>3. OverlayRecord(size, x, r) = [x EXCEPT !.cursor = payload + r[2], !.segments = more]
      BY <2>1, <2>2 DEF OverlayRecord
    <3>4. payload + r[2] \in Nat
      BY <2>1
    <3> HIDE DEF more, payload, Segment, Status
    <3> QED BY <3>2, <3>3, <3>4
  <2>3. ASSUME NEW s \in Status PROVE [x EXCEPT !.status = s] \in Parse
    <3> HIDE DEF Segment, Status
    <3> QED BY <2>3
  <2>4. \/ OverlayRecord(size, x, r) = x
        \/ \E s \in Status : OverlayRecord(size, x, r) = [x EXCEPT !.status = s]
        \/ /\ x.status = "Ok" /\ x.cursor < size /\ ~(size - x.cursor < kRecordHeaderBytes)
           /\ ~(r[2] > size - payload) /\ ~(r[1] > AddressLimit - r[2])
    <3>1. x.cursor >= size <=> ~(x.cursor < size)
      BY <2>1
    <3> QED BY <3>1 DEF OverlayRecord
  <2> HIDE DEF Parse, payload
  <2> QED BY <2>2, <2>3, <2>4
<1>5. next \in [1 .. n -> [Parse -> Parse]]
  <2> HIDE DEF Parse, n
  <2> QED BY <1>2, <1>4
<1>6. PICK g : IsRun(g, Parse, n, start, next)
  <2> HIDE DEF Parse, n, start, next
  <2> QED BY <1>2, <1>3, <1>5, RunExists DEF IsLoop
<1>7. g = [i \in 0 .. n |-> IF i = 0 THEN start ELSE OverlayRecord(size, g[i - 1], all[i])]
  <2>1. g \in [0 .. n -> Parse] /\ g[0] = start /\ \A i \in 1 .. n : g[i] = next[i][g[i - 1]]
    BY <1>6 DEF IsRun
  <2> HIDE DEF Parse, n, start
  <2>2. \A i \in 0 .. n : i # 0 => i \in 1 .. n /\ i - 1 \in 0 .. n
    BY <1>2
  <2>3. ASSUME NEW i \in 1 .. n PROVE g[i] = OverlayRecord(size, g[i - 1], all[i])
    <3>1. g[i - 1] \in Parse /\ next[i] = [x \in Parse |-> OverlayRecord(size, x, all[i])]
      BY <2>1, <2>2, <1>2
    <3> HIDE DEF next
    <3> QED BY <2>1, <3>1
  <2>4. g = [i \in 0 .. n |-> g[i]]
    BY <2>1
  <2> HIDE DEF next
  <2> QED BY <2>1, <2>2, <2>3, <2>4
<1>8. upTo = [i \in 0 .. n |-> IF i = 0 THEN start ELSE OverlayRecord(size, upTo[i - 1], all[i])]
  <2> HIDE DEF n, start
  <2> QED BY <1>7
<1> HIDE DEF upTo
<1>9. upTo[0] \in Parse /\ \A i \in 1 .. n : upTo[i - 1] \in Parse => upTo[i] \in Parse
  <2> HIDE DEF Parse, n, start
  <2>1. 0 \in 0 .. n /\ \A i \in 1 .. n : i \in 0 .. n /\ i # 0
    BY <1>2
  <2>2. upTo[0] = start
    BY <1>8, <2>1
  <2>3. \A i \in 1 .. n : upTo[i] = OverlayRecord(size, upTo[i - 1], all[i])
    BY <1>8, <2>1
  <2> QED BY <1>2, <1>3, <1>4, <2>2, <2>3
<1>10. upTo[n] \in Parse
  <2> HIDE DEF Parse, n
  <2>1. \A i \in 0 .. n : upTo[i] \in Parse
    BY <1>2, <1>9, RunStaysIn
  <2> QED BY <2>1, <1>2
<1> QED BY <1>1, <1>10

(* What is in a section is in the file.                                    *)
LEMMA WadStepsSound ==
  ASSUME NEW file, FileBytes(file) \in Int, NEW section, NEW at \in Nat, NEW capacity \in Int,
         at + capacity <= FileBytes(file), NEW archive, archive.encoded \in Nat,
         NEW invalid, NEW undecodable, invalid \notin Verdicts, undecodable \notin Verdicts
  PROVE  Sound(WadSteps(file, section, at, capacity, archive, invalid, undecodable))
<1> DEFINE encoded == <<at, archive.encoded>>
           header == Reads(file, section, <<at, kWadHeaderBytes>>) /\ archive.magic
           long == kWadHeaderBytes <= archive.encoded /\ archive.encoded <= capacity
           first == Bytes(at, kWadHeaderBytes, FileBytes(file))
           whole == <<encoded, FileBytes(file)>>
<1>1. WadSteps(file, section, at, capacity, archive, invalid, undecodable) =
        <<Require(invalid, header, {first}), Require(invalid, long, {whole}),
          Require(undecodable, archive.decodes, {})>>
  BY DEF WadSteps
<1>2. header => InRange(first)
  BY DEF Reads, InRange, Bytes
<1>3. long => InRange(whole)
  BY DEF InRange, RangeFits
<1> HIDE DEF header, long, first, whole
<1> QED BY <1>1, <1>2, <1>3 DEF Require, Sound, IsSteps, FailuresNamed, Guarded

(* Where a section of a level's file is.                                   *)
LEMMA FileFacts ==
  ASSUME NEW file, IsFile(file)
  PROVE  /\ FileBytes(file) \in Nat /\ file.start \in Nat /\ file.header \in Nat
         /\ \A range \in Nat \X Nat : range[1] >= file.start =>
              FileRange(file, range)[1] \in Nat /\ FileRange(file, range)[2] \in Nat
         /\ DataBytes(file) \in Nat
<1>1. /\ file.sectors \in Nat /\ file.start \in Nat /\ file.header \in Nat
      /\ file.data[1] \in Nat /\ file.data[2] \in Nat
  BY DEF IsFile
<1>2. ASSUME NEW range \in Nat \X Nat, range[1] >= file.start
      PROVE  FileRange(file, range)[1] \in Nat /\ FileRange(file, range)[2] \in Nat
  BY <1>1, <1>2 DEF FileRange, kSectorBytes
<1>3. FileBytes(file) \in Nat /\ DataBytes(file) \in Nat
  BY <1>1 DEF FileBytes, FileRange, DataBytes, kSectorBytes
<1> QED BY <1>1, <1>2, <1>3

(* loadRac1LevelCore: the file's header and its sections.                  *)
LEMMA FileStepsSound ==
  ASSUME NEW file, IsFile(file)
  PROVE  Sound(FileSteps(file))
<1> DEFINE header == <<(file.header - file.start) * kSectorBytes, kAmalgamatedHeaderBytes>>
           capacity == FileBytes(file)
           after == capacity >= kAmalgamatedHeaderBytes /\ file.header >= file.start
           same == file.sectors = file.expected
           read == Reads(file, "header", header)
           fits == RangeFits(header, capacity)
           range == <<header, capacity>>
<1>1. FileSteps(file) =
        <<Require("FileOpenFailed", file.exists, {}), Require("FileSizeMismatch", same, {}),
          Require("HeaderTooSmall", after, {}), Require("HeaderTooSmall", fits, {}),
          Require("HeaderTooSmall", read, {range}), Require("InvalidHeaderSize", file.headerSize, {})>>
  BY DEF FileSteps
<1>2. after /\ fits => InRange(range)
  BY FileFacts DEF InRange, kSectorBytes
<1> HIDE DEF after, same, read, fits, range
<1> QED BY <1>1, <1>2 DEF Require, Sound, IsSteps, FailuresNamed, Verdicts, Guarded

(* Once its sections are checked, the data section is in the file, and so  *)
(* are the core index and the core in it.                                  *)
LEMMA SectionStepsSound ==
  ASSUME NEW file, IsFile(file)
  PROVE  /\ Sound(SectionSteps(file))
         /\ AllHold(SectionSteps(file)) =>
              /\ FileRange(file, file.data)[1] \in Nat
              /\ RangeFits(FileRange(file, file.data), FileBytes(file))
              /\ file.coreIndex[2] >= kLevelCoreHeaderBytes
              /\ RangeFits(file.coreData, DataBytes(file))
<1> DEFINE data == DataBytes(file)
           header == InData(file, <<0, kLevelDataHeaderBytes>>)
           optional(range) == range[2] = 0 \/ RangeFits(range, data)
           atLeast(range, size) == range[2] >= size /\ RangeFits(range, data)
           fits == SectorRangeFits(file, file.data)
           holds == fits /\ data >= kLevelDataHeaderBytes
           read == Reads(file, "data", header)
           range == <<header, FileBytes(file)>>
           overlayReads == optional(file.overlay)
           index == atLeast(file.coreIndex, kLevelCoreHeaderBytes)
           gsRam == optional(file.gsRam)
           core == atLeast(file.coreData, kWadHeaderBytes)
<1>1. SectionSteps(file) =
        <<Require("InvalidDataRange", holds, {}), Require("InvalidLevelDataHeader", read, {range}),
          Require("InvalidOverlayRange", overlayReads, {}), Require("InvalidCoreIndexRange", index, {}),
          Require("InvalidGsRamRange", gsRam, {}), Require("InvalidCoreDataRange", core, {})>>
  BY DEF SectionSteps
<1>2. fits => /\ FileRange(file, file.data)[1] \in Nat
              /\ RangeFits(FileRange(file, file.data), FileBytes(file))
  BY FileFacts DEF IsFile, SectorRangeFits
<1>3. fits /\ read => InRange(range)
  <2>1. fits => FileRange(file, file.data)[1] + 0 >= 0
    BY <1>2
  <2> QED BY <2>1 DEF Reads, InRange, InData
<1>4. /\ index => file.coreIndex[2] >= kLevelCoreHeaderBytes
      /\ core => RangeFits(file.coreData, DataBytes(file))
      /\ holds => fits
  OBVIOUS
<1> HIDE DEF fits, holds, read, range, overlayReads, index, gsRam, core
<1>5. Sound(SectionSteps(file))
  BY <1>1, <1>3, <1>4 DEF Require, Sound, IsSteps, FailuresNamed, Verdicts, Guarded
<1>6. AllHold(SectionSteps(file)) => holds /\ index /\ core
  BY <1>1 DEF AllHold, Require
<1> QED BY <1>2, <1>4, <1>5, <1>6

(* The overlay's records, when the file has one.                           *)
LEMMA OverlayStepsSound ==
  ASSUME NEW file, IsFile(file), FileRange(file, file.data)[1] \in Nat
  PROVE  Sound(OverlaySteps(file))
<1> DEFINE range == InData(file, file.overlay)
           size == file.overlay[2]
           read == Reads(file, "overlay", range)
           whole == <<range, FileBytes(file)>>
           valid == OverlayParse(size, file.records).status = "Ok"
           segments == {Bytes(s.at, s.size, size) : s \in Range(OverlaySegments(file))}
<1>1. CASE size = 0
  BY <1>1, NoStepsSound DEF OverlaySteps
<1>2. CASE size # 0
  <2>1. OverlaySteps(file) =
          <<Require("InvalidOverlayRange", read, {whole}),
            Require("InvalidOverlayContainer", valid, segments)>>
    BY <1>2 DEF OverlaySteps
  <2>2. file.overlay[1] \in Nat /\ size \in Nat /\ file.records \in Seq(Nat \X Nat)
    BY DEF IsFile
  <2>3. read => InRange(whole)
    BY <2>2 DEF Reads, InRange, InData
  <2>4. \A r \in segments : InRange(r)
    <3>1. OverlaySegments(file) = OverlayParse(size, file.records).segments
      BY <1>2 DEF OverlaySegments
    <3> DEFINE Segment == {s \in [at : Nat, destination : Nat, size : Nat] :
                             s.at + s.size <= file.overlay[2]}
    <3>2. OverlaySegments(file) \in Seq(Segment)
      <4> HIDE DEF Segment
      <4>1. OverlayParse(size, file.records).segments \in Seq(Segment)
        BY <2>2, OverlayParseFacts DEF Segment
      <4> QED BY <4>1, <3>1
    <3>3. \A s \in Range(OverlaySegments(file)) : s \in Segment
      <4> HIDE DEF Segment
      <4> QED BY <3>2, ElementsOfSeq
    <3> QED BY <3>3 DEF Bytes, InRange, RangeFits
  <2> HIDE DEF read, whole, valid, segments
  <2> QED BY <2>1, <2>3, <2>4 DEF Require, Sound, IsSteps, FailuresNamed, Verdicts, Guarded
<1> QED BY <1>1, <1>2

(* The core index, and the list it may have of textures in GS memory.      *)
LEMMA IndexStepsSound ==
  ASSUME NEW file, IsFile(file), FileRange(file, file.data)[1] \in Nat,
         file.coreIndex[2] >= kLevelCoreHeaderBytes
  PROVE  Sound(IndexSteps(file))
<1> DEFINE index == InData(file, file.coreIndex)
           gsRam == InData(file, file.gsRam)
           readIndex == Reads(file, "coreIndex", index)
           whole == <<index, FileBytes(file)>>
           header == Bytes(0, kLevelCoreHeaderBytes, file.coreIndex[2])
           readGs == file.gsRam[2] = 0 \/ Reads(file, "gsRam", gsRam)
           gs == IF file.gsRam[2] = 0 THEN {} ELSE {<<gsRam, FileBytes(file)>>}
           fit == \A t \in file.tables : TableFits(t, file.coreIndex[2])
           tables == {<<t, file.coreIndex[2]>> : t \in {u \in file.tables : u[2] # 0}}
<1>1. IndexSteps(file) =
        <<Require("InvalidCoreHeader", readIndex, {whole, header}),
          Require("InvalidGsRamRange", readGs, gs), Require("InvalidIndexArrays", fit, tables)>>
  BY DEF IndexSteps
<1>2. /\ file.coreIndex[1] \in Nat /\ file.coreIndex[2] \in Nat /\ file.gsRam[1] \in Nat
      /\ file.gsRam[2] \in Nat /\ \A t \in file.tables : t[1] \in Nat /\ t[2] \in Nat
  BY DEF IsFile
<1>3. readIndex => InRange(whole)
  BY <1>2 DEF Reads, InRange, InData
<1>4. InRange(header)
  BY DEF InRange, Bytes, RangeFits, kLevelCoreHeaderBytes
<1>5. readGs => \A r \in gs : InRange(r)
  BY <1>2 DEF Reads, InRange, InData
<1>6. fit => \A r \in tables : InRange(r)
  BY <1>2 DEF TableFits, InRange
<1> HIDE DEF readIndex, whole, header, readGs, gs, fit, tables
<1> QED BY <1>1, <1>3, <1>4, <1>5, <1>6 DEF Require, Sound, IsSteps, FailuresNamed, Verdicts, Guarded

(* The names of a section's failures, before anything else is known of it. *)
LEMMA WadStepsNamed ==
  ASSUME NEW file, NEW section, NEW at, NEW capacity, NEW archive,
         NEW invalid, NEW undecodable, invalid \notin Verdicts, undecodable \notin Verdicts
  PROVE  /\ IsSteps(WadSteps(file, section, at, capacity, archive, invalid, undecodable))
         /\ FailuresNamed(WadSteps(file, section, at, capacity, archive, invalid, undecodable))
BY DEF WadSteps, Require, IsSteps, FailuresNamed

(* What follows steps that hold, in one list with them.                    *)
LEMMA ConcatSoundAllHold ==
  ASSUME NEW a, NEW b, Sound(a), IsSteps(b), FailuresNamed(b), AllHold(a) => Sound(b)
  PROVE  Sound(a \o b) /\ (AllHold(a \o b) <=> AllHold(a) /\ AllHold(b))
BY ConcatSound, ConcatAllHold DEF Sound

(* A level's file is read where it is.                                     *)
LEMMA LevelCoreStepsSound ==
  ASSUME NEW file, IsFile(file)
  PROVE  Sound(LevelCoreSteps(file))
<1> DEFINE gameplay == FileRange(file, file.gameplay)
           at == InData(file, file.coreData)[1]
           core == WadSteps(file, "core", at, file.coreData[2],
                            file.coreWad, "InvalidCoreWad", "CoreDecompressionFailed")
           fits == SectorRangeFits(file, file.gameplay) /\ gameplay[2] >= kWadHeaderBytes
           range == <<Require("InvalidGameplayWad", fits, {})>>
           instances == WadSteps(file, "gameplay", gameplay[1], gameplay[2], file.gameplayWad,
                                 "InvalidGameplayWad", "GameplayDecompressionFailed")
           inside == \A o \in file.offsets : o < file.coreWad.bytes
           offsets == <<Require("InvalidRenderOffsets", inside, {})>>
           sections == Then(FileSteps(file), SectionSteps(file))
           overlayReads == Then(sections, OverlaySteps(file))
<1>1. LevelCoreSteps(file) = Then(overlayReads, IndexSteps(file) \o core \o range \o instances \o offsets)
  BY DEF LevelCoreSteps
<1>2. Sound(sections) /\ (AllHold(sections) => AllHold(SectionSteps(file)))
  BY FileStepsSound, SectionStepsSound, ThenSound
<1>3. Sound(overlayReads) /\ (AllHold(overlayReads) => AllHold(SectionSteps(file)))
  <2> HIDE DEF sections
  <2>1. AllHold(sections) => Sound(OverlaySteps(file))
    BY <1>2, SectionStepsSound, OverlayStepsSound
  <2> QED BY <1>2, <2>1, ThenSound
<1> HIDE DEF overlayReads
<1>4. ASSUME AllHold(SectionSteps(file))
      PROVE  Sound(IndexSteps(file) \o core \o range \o instances \o offsets)
  <2>1. Sound(IndexSteps(file))
    BY <1>4, SectionStepsSound, IndexStepsSound
  <2>2. Sound(core)
    <3>1. /\ file.coreData[1] \in Nat /\ file.coreData[2] \in Nat /\ file.coreWad.encoded \in Nat
          /\ file.data \in Nat \X Nat
      BY DEF IsFile
    <3>2. /\ FileRange(file, file.data)[1] \in Nat
          /\ RangeFits(FileRange(file, file.data), FileBytes(file))
          /\ RangeFits(file.coreData, FileRange(file, file.data)[2])
      BY <1>4, SectionStepsSound DEF DataBytes
    <3>3. FileBytes(file) \in Nat /\ FileRange(file, file.data)[2] \in Nat
      BY FileFacts DEF DataBytes
    <3> DEFINE from == FileRange(file, file.data)[1]
               bytes == FileRange(file, file.data)[2]
    <3>4. at = from + file.coreData[1]
      BY DEF InData
    <3>5. from + bytes <= FileBytes(file) /\ file.coreData[1] + file.coreData[2] <= bytes
          /\ from \in Nat /\ bytes \in Nat
      BY <3>2, <3>3 DEF RangeFits
    <3> HIDE DEF from, bytes, at
    <3>6. at \in Nat /\ at + file.coreData[2] <= FileBytes(file)
      BY <3>1, <3>3, <3>4, <3>5
    <3> QED BY <3>1, <3>3, <3>6, WadStepsSound DEF Verdicts
  <2>3. Sound(range) /\ (AllHold(range) <=> fits)
    <3> HIDE DEF fits
    <3> QED BY StepSound DEF Verdicts
  <2>4. IsSteps(instances) /\ FailuresNamed(instances)
    BY WadStepsNamed DEF Verdicts
  <2>5. ASSUME fits PROVE Sound(instances)
    <3>1. /\ file.gameplay \in Nat \X Nat /\ file.gameplayWad.encoded \in Nat
          /\ file.gameplay[1] >= file.start
          /\ gameplay[1] + gameplay[2] <= FileBytes(file) /\ FileBytes(file) \in Nat
      BY <2>5, FileFacts DEF IsFile, SectorRangeFits, RangeFits
    <3>2. gameplay[1] \in Nat /\ gameplay[2] \in Nat
      BY <3>1, FileFacts
    <3> QED BY <3>1, <3>2, WadStepsSound DEF Verdicts
  <2>6. Sound(offsets)
    <3> HIDE DEF inside
    <3> QED BY StepSound DEF Verdicts
  <2> HIDE DEF core, range, instances, offsets, fits
  <2>7. Sound(IndexSteps(file) \o core)
    BY <2>1, <2>2, ConcatSound DEF Sound
  <2> DEFINE a == IndexSteps(file) \o core
  <2> HIDE DEF a
  <2>8. Sound(a \o range) /\ (AllHold(a \o range) => AllHold(range))
    BY <2>3, <2>7, ConcatSoundAllHold DEF Sound, a
  <2> DEFINE b == a \o range
  <2> HIDE DEF b
  <2>9. Sound(b \o instances)
    BY <2>3, <2>4, <2>5, <2>8, ConcatSoundAllHold DEF b
  <2> DEFINE c == b \o instances
  <2>10. Sound(c \o offsets)
    <3> HIDE DEF c
    <3> QED BY <2>6, <2>9, ConcatSound DEF Sound, c
  <2> QED BY <2>10 DEF a, b
<1>5. AllHold(overlayReads) => Sound(IndexSteps(file) \o core \o range \o instances \o offsets)
  BY <1>3, <1>4
<1> HIDE DEF core, range, instances, offsets
<1> QED BY <1>1, <1>3, <1>5, ThenSound

----------------------------------------------------------------------------
(* Textures and the sky.                                                   *)

(* A palette of 256 colours is read only where it fits.                    *)
LEMMA PaletteReadsFacts ==
  ASSUME NEW palette \in Int, palette >= 0, NEW capacity \in Int,
         RangeFits(<<palette, kPaletteBytes>>, capacity), NEW read \in PaletteReads(palette, capacity)
  PROVE  InRange(read)
<1>1. \A index \in {0, 8, 16, 255} : MapPaletteIndex(index) \in 0 .. 255
  BY DEF MapPaletteIndex, Bit
<1>2. PICK index \in {0, 8, 16, 255} : read = Bytes(palette + 4 * MapPaletteIndex(index), 4, capacity)
  BY DEF PaletteReads
<1> DEFINE i == MapPaletteIndex(index)
<1>3. i \in 0 .. 255
  BY <1>1
<1> HIDE DEF i
<1>4. palette + 4 * i >= 0 /\ palette + 4 * i + 4 <= capacity
  BY <1>3 DEF RangeFits, kPaletteBytes
<1> QED BY <1>2, <1>4 DEF Bytes, InRange, RangeFits, i

(* One texture: its pixels in the core, its palette in GS memory.          *)
LEMMA EntryStepsSound ==
  ASSUME NEW core \in Int, NEW gsRam \in Int, NEW base \in Nat, NEW e,
         {e.data, e.width, e.height, e.palette} \subseteq Int
  PROVE  Sound(EntrySteps(core, gsRam, base, e))
<1> DEFINE pixels == <<base + e.data, e.width * e.height>>
           palette == e.palette * 256
           header == e.data >= 0 /\ SideIsValid(e.width) /\ SideIsValid(e.height) /\ e.palette >= 0
           fits == RangeFits(pixels, core)
           colours == RangeFits(<<palette, kPaletteBytes>>, gsRam)
           reads == {<<pixels, core>>} \union PaletteReads(palette, gsRam)
<1>1. EntrySteps(core, gsRam, base, e) =
        <<Require("InvalidEntry", header, {}), Require("PixelDataOutOfRange", fits, {}),
          Require("PaletteOutOfRange", colours, reads)>>
  BY DEF EntrySteps
<1>2. palette \in Int /\ (header => base + e.data >= 0 /\ palette >= 0)
  OBVIOUS
<1>3. header /\ fits => InRange(<<pixels, core>>)
  <2> HIDE DEF header, palette
  <2> QED BY <1>2 DEF InRange
<1>4. header /\ fits /\ colours => \A r \in reads : InRange(r)
  <2> HIDE DEF header, palette, fits, pixels
  <2> QED BY <1>2, <1>3, PaletteReadsFacts
<1> HIDE DEF header, fits, colours, reads
<1> QED BY <1>1, <1>4 DEF Require, Sound, IsSteps, FailuresNamed, Verdicts, Guarded

(* A texture table, its pixels and its palettes.                           *)
LEMMA TextureStepsSound ==
  ASSUME NEW core \in Int, NEW coreIndex \in Int, NEW gsRam \in Int, NEW table, IsTextureTable(table),
         NEW base \in Nat
  PROVE  Sound(TextureSteps(core, coreIndex, gsRam, table, base))
<1> DEFINE bytes == <<table.at, Len(table.entries) * kTextureEntryBytes>>
           fits == RangeFits(bytes, coreIndex) /\ base <= core
           header == <<Require("IndexTableOutOfRange", fits, {<<bytes, coreIndex>>})>>
           turns == [i \in DOMAIN table.entries |-> EntrySteps(core, gsRam, base, table.entries[i])]
<1>1. IsSequence(table.entries) /\ table.at \in Nat
  BY DEF IsTextureTable
<1>2. Sound(header)
  <2>1. fits => InRange(<<bytes, coreIndex>>)
    BY <1>1 DEF InRange
  <2> HIDE DEF fits, bytes
  <2> QED BY <2>1, StepSound DEF Verdicts
<1>3. ASSUME NEW i \in DOMAIN table.entries PROVE Sound(turns[i])
  <2>1. table.entries[i] \in Range(table.entries)
    BY <1>1, SequenceFacts
  <2> QED BY <2>1, EntryStepsSound DEF IsTextureTable
<1>4. turns = [i \in 1 .. Len(table.entries) |-> turns[i]] /\ Len(table.entries) \in Nat
      /\ DOMAIN table.entries = 1 .. Len(table.entries)
  BY <1>1, SequenceFacts
<1>5. TextureSteps(core, coreIndex, gsRam, table, base) =
        IF table.entries = <<>> THEN <<>> ELSE Then(header, ForEach(turns))
  BY DEF TextureSteps
<1> HIDE DEF header, turns
<1>6. Sound(ForEach(turns))
  BY <1>3, <1>4, ForEachSound
<1> QED BY <1>2, <1>5, <1>6, ThenSound, NoStepsSound

----------------------------------------------------------------------------
(* The sky.                                                                *)

(* A sky texture and its palette.                                          *)
LEMMA SkyTextureStepsSound ==
  ASSUME NEW w, w.pixels \in Nat, SkyBytes(w) \in Int, NEW t, t.palette \in Int, t.pixels \in Int
  PROVE  Sound(SkyTextureSteps(w, t))
<1> DEFINE palette == w.pixels + t.palette
           pixels == <<w.pixels + t.pixels, t.width * t.height>>
           sky == SkyBytes(w)
           header == t.palette >= 0 /\ t.pixels >= 0 /\ SideIsValid(t.width) /\ SideIsValid(t.height)
           fits == RangeFits(<<palette, kPaletteBytes>>, sky) /\ RangeFits(pixels, sky)
           reads == {<<pixels, sky>>} \union PaletteReads(palette, sky)
<1>1. SkyTextureSteps(w, t) =
        <<Require("InvalidTexture", header, {}), Require("InvalidTexture", fits, reads)>>
  BY DEF SkyTextureSteps
<1>2. header /\ fits => \A r \in reads : InRange(r)
  <2>1. header => palette \in Int /\ palette >= 0 /\ w.pixels + t.pixels >= 0
    OBVIOUS
  <2>2. header /\ fits => InRange(<<pixels, sky>>)
    <3> HIDE DEF header, sky
    <3> QED BY <2>1 DEF InRange
  <2> HIDE DEF header, pixels, palette, sky
  <2> QED BY <2>1, <2>2, PaletteReadsFacts DEF sky
<1> HIDE DEF header, fits, reads
<1> QED BY <1>1, <1>2 DEF Require, Sound, IsSteps, FailuresNamed, Verdicts, Guarded

(* A sky face: its texture, and its three corners.                         *)
LEMMA SkyFaceStepsSound ==
  ASSUME NEW w, NEW shell, NEW c, c.vertexCount \in Int, NEW face \in Nat \X Nat \X Nat \X Nat
  PROVE  Sound(FaceSteps(w, shell, c, face))
<1> DEFINE corners == {face[i] : i \in 1 .. 3}
           inside == \A i \in corners : i < c.vertexCount
           reads == {Element(i, c.vertexCount) : i \in corners}
           textured == IF Textured(shell) THEN face[4] < w.textureCount ELSE face[4] = kUntextured
<1>1. FaceSteps(w, shell, c, face) =
        <<Require("InvalidFace", inside, reads), Require("InvalidFace", textured, {})>>
  BY DEF FaceSteps
<1>2. inside => \A r \in reads : InRange(r)
  <2>1. face[1] \in Nat /\ face[2] \in Nat /\ face[3] \in Nat
    OBVIOUS
  <2>2. \A i \in corners : i \in Nat
    BY <2>1
  <2> HIDE DEF corners
  <2> QED BY <2>2 DEF Element, InRange, RangeFits
<1> HIDE DEF inside, reads, textured
<1> QED BY <1>1, <1>2 DEF Require, Sound, IsSteps, FailuresNamed, Verdicts, Guarded

(* A cluster of a sky shell: its tables, then its faces.                   *)
LEMMA ClusterStepsSound ==
  ASSUME NEW w, NEW shell, NEW c, IsCluster(c)
  PROVE  Sound(ClusterSteps(w, shell, c))
<1> DEFINE sky == SkyBytes(w)
           vertices == <<c.data + c.vertexAt, 8 * c.vertexCount>>
           attributes == <<c.data + c.attributeAt, 4 * c.vertexCount>>
           faces == <<c.data + c.faceAt, 4 * c.faceCount>>
           fields == {c.data, c.vertexCount, c.faceCount, c.vertexAt, c.attributeAt, c.faceAt, c.size}
           known == \A f \in fields : f >= 0
           counts == c.vertexCount <= 255 /\ c.faceCount <= kMaxSkyCount /\ RangeFits(<<c.data, c.size>>, sky)
           fit == \A r \in {vertices, attributes, faces} : RangeFits(r, sky)
           reads == {<<r, sky>> : r \in {vertices, attributes, faces}}
           header == <<Require("InvalidCluster", known, {}), Require("InvalidCluster", counts, {}),
                       Require("InvalidCluster", fit, reads)>>
           turns == [i \in DOMAIN c.faces |-> FaceSteps(w, shell, c, c.faces[i])]
<1>1. ClusterSteps(w, shell, c) = header \o ForEach(turns)
  BY DEF ClusterSteps
<1>2. known /\ fit => \A r \in reads : InRange(r)
  <2>1. c.data \in Int /\ c.vertexAt \in Int /\ c.attributeAt \in Int /\ c.faceAt \in Int
    BY DEF IsCluster
  <2>2. known => c.data >= 0 /\ c.vertexAt >= 0 /\ c.attributeAt >= 0 /\ c.faceAt >= 0
    OBVIOUS
  <2>3. known => vertices[1] >= 0 /\ attributes[1] >= 0 /\ faces[1] >= 0
    BY <2>1, <2>2
  <2> HIDE DEF known, vertices, attributes, faces, sky
  <2> QED BY <2>3 DEF InRange
<1>3. Sound(header)
  <2> HIDE DEF known, counts, fit, reads
  <2> QED BY <1>2 DEF Require, Sound, IsSteps, FailuresNamed, Verdicts, Guarded
<1>4. c.faces \in Seq(Nat \X Nat \X Nat \X Nat) /\ c.vertexCount \in Int
  BY DEF IsCluster
<1>5. \A i \in DOMAIN c.faces : Sound(turns[i])
  BY <1>4, ElementsOfSeq, SkyFaceStepsSound
<1> HIDE DEF header
<1>6. Sound(ForEach(turns))
  <2>1. turns = [i \in DOMAIN c.faces |-> turns[i]]
    OBVIOUS
  <2> HIDE DEF turns
  <2> QED BY <1>4, <1>5, <2>1, ForEachOfSound
<1> HIDE DEF turns
<1> QED BY <1>1, <1>3, <1>6, ConcatSound DEF Sound

(* A shell whose offset the header holds.                                  *)
LEMMA ShellStepsSound ==
  ASSUME NEW w, IsWad(w), NEW i \in DOMAIN w.shells, i <= kMaxShells
  PROVE  Sound(ShellSteps(w, i))
<1> DEFINE shell == w.shells[i]
           sky == SkyBytes(w)
           clusters == <<shell.at + 16, 32 * shell.clusterCount>>
           start == shell.at >= 0 /\ RangeFits(<<shell.at, 16>>, sky)
           first == {Bytes(32 + 4 * (i - 1), 4, 64), Bytes(shell.at, 16, sky)}
           count == shell.clusterCount \in 0 .. kMaxSkyCount
           fits == RangeFits(clusters, sky)
           header == <<Require("InvalidShell", start, first), Require("InvalidShell", count, {}),
                       Require("InvalidShell", fits, {<<clusters, sky>>})>>
           turns == [n \in DOMAIN shell.clusters |-> ClusterSteps(w, shell, shell.clusters[n])]
<1>1. ShellSteps(w, i) = header \o ForEach(turns)
  BY DEF ShellSteps
<1>2. /\ i \in Nat /\ i >= 1 /\ shell.at \in Int /\ IsSequence(shell.clusters)
      /\ \A c \in Range(shell.clusters) : IsCluster(c)
  BY SequenceFacts, SMTT(30) DEF IsWad
<1>3. start => \A r \in first : InRange(r)
  <2>1. 32 + 4 * (i - 1) >= 0 /\ 32 + 4 * (i - 1) + 4 <= 64
    BY <1>2 DEF kMaxShells
  <2>2. InRange(Bytes(32 + 4 * (i - 1), 4, 64))
    BY <2>1 DEF InRange, Bytes, RangeFits
  <2>3. start => InRange(Bytes(shell.at, 16, sky))
    BY DEF InRange, Bytes
  <2> HIDE DEF start, shell
  <2> QED BY <2>2, <2>3
<1>4. start /\ fits => InRange(<<clusters, sky>>)
  BY <1>2 DEF InRange
<1>5. Sound(header)
  <2> HIDE DEF start, first, count, fits, clusters, sky
  <2> QED BY <1>3, <1>4 DEF Require, Sound, IsSteps, FailuresNamed, Verdicts, Guarded
<1> HIDE DEF header
<1>6. /\ turns = [n \in 1 .. Len(shell.clusters) |-> turns[n]] /\ Len(shell.clusters) \in Nat
      /\ \A n \in 1 .. Len(shell.clusters) : Sound(turns[n])
  <2> HIDE DEF shell
  <2> QED BY <1>2, SequenceFacts, ClusterStepsSound
<1> HIDE DEF turns
<1>7. Sound(ForEach(turns))
  BY <1>6, ForEachSound
<1> QED BY <1>1, <1>5, <1>7, ConcatSound DEF Sound

(* The sky in the decompressed runtime WAD.                                *)
LEMMA LocateStepsSound ==
  ASSUME NEW w, w.bytes \in Nat
  PROVE  Sound(LocateSteps(w))
<1> DEFINE header == w.bytes >= 24
           reads == {Bytes(4, 4, w.bytes), Bytes(20, 4, w.bytes)}
           data == w.data <= w.bytes
           sky == RangeFits(<<SkyOffset(w), 64>>, w.bytes)
<1>1. LocateSteps(w) =
        <<Require("HeaderTooSmall", header, reads), Require("DataOffsetOutOfRange", data, {}),
          Require("SkyOffsetOutOfRange", sky, {})>>
  BY DEF LocateSteps
<1>2. header => \A r \in reads : InRange(r)
  BY DEF Bytes, InRange, RangeFits
<1> HIDE DEF header, reads, data, sky
<1> QED BY <1>1, <1>2 DEF Require, Sound, IsSteps, FailuresNamed, Verdicts, Guarded

(* decodeRac1Sky: the header, its textures and its shells.                 *)
LEMMA SkyStepsSound ==
  ASSUME NEW w, IsWad(w)
  PROVE  Sound(SkySteps(w))
<1> DEFINE sky == SkyBytes(w)
           offset == RangeFits(<<SkyOffset(w), 64>>, w.bytes)
           counts == /\ w.shellCount \in 0 .. kMaxShells /\ w.textureCount \in 0 .. kMaxSkyCount
                     /\ w.definitions >= 0 /\ w.pixels >= 0
           definitions == <<w.definitions, 16 * w.textureCount>>
           fit == RangeFits(definitions, sky) /\ w.pixels <= sky
           header == <<Require("OffsetOutOfRange", offset, {}), Require("InvalidHeader", counts, {}),
                       Require("InvalidHeader", fit, {<<definitions, sky>>})>>
           textures == [i \in DOMAIN w.textures |-> SkyTextureSteps(w, w.textures[i])]
           shells == [i \in DOMAIN w.shells |-> ShellSteps(w, i)]
           some == w.shellCount = 0 \/ SkyFaces(w) # <<>>
           triangles == <<Require("EmptySky", some, {})>>
<1>1. SkySteps(w) = Then(Then(Then(header, ForEach(textures)), ForEach(shells)), triangles)
  BY DEF SkySteps, HeaderSteps, Bytes
<1>2. /\ w.bytes \in Nat /\ SkyOffset(w) \in Nat /\ w.pixels \in Int /\ w.definitions \in Int
      /\ w.shellCount = Len(w.shells) /\ IsSequence(w.textures) /\ IsSequence(w.shells)
      /\ \A t \in Range(w.textures) : t.palette \in Int /\ t.pixels \in Int
  BY DEF IsWad, SkyOffset
<1>3. sky \in Int
  BY <1>2 DEF SkyBytes
<1>4. counts => w.pixels \in Nat /\ w.definitions >= 0 /\ Len(w.shells) <= kMaxShells
  <2>1. w.shellCount \in 0 .. kMaxShells => Len(w.shells) <= kMaxShells
    BY <1>2
  <2>2. w.pixels >= 0 => w.pixels \in Nat
    BY <1>2
  <2> QED BY <2>1, <2>2
<1>5. Sound(header) /\ (AllHold(header) => counts)
  <2>1. counts /\ fit => InRange(<<definitions, sky>>)
    <3> HIDE DEF sky
    <3> QED BY <1>2 DEF InRange
  <2> HIDE DEF offset, counts, fit, definitions, sky
  <2>2. Sound(header)
    BY <2>1 DEF Require, Sound, IsSteps, FailuresNamed, Verdicts, Guarded
  <2>3. AllHold(header) => counts
    BY DEF AllHold, Require
  <2> QED BY <2>2, <2>3
<1>6. ASSUME counts PROVE Sound(ForEach(textures)) /\ Sound(ForEach(shells))
  <2> HIDE DEF counts
  <2>1. /\ textures = [i \in 1 .. Len(w.textures) |-> textures[i]] /\ Len(w.textures) \in Nat
        /\ \A i \in 1 .. Len(w.textures) : Sound(textures[i])
    BY <1>2, <1>3, <1>4, <1>6, SequenceFacts, SkyTextureStepsSound
  <2>2. /\ shells = [i \in 1 .. Len(w.shells) |-> shells[i]] /\ Len(w.shells) \in Nat
    BY <1>2, SequenceFacts
  <2>3. \A i \in 1 .. Len(w.shells) : Sound(shells[i])
    <3> TAKE i \in 1 .. Len(w.shells)
    <3>1. i \in DOMAIN w.shells /\ i <= kMaxShells
      BY <2>2, <1>2, <1>4, <1>6, SequenceFacts DEF kMaxShells
    <3> QED BY <3>1, ShellStepsSound
  <2> HIDE DEF textures, shells
  <2> QED BY <2>1, <2>2, <2>3, ForEachSound
<1>7. Sound(triangles)
  <2> HIDE DEF some
  <2> QED BY StepSound DEF Verdicts
<1> HIDE DEF header, textures, shells, triangles, counts
<1>8. Sound(Then(header, ForEach(textures))) /\ (AllHold(Then(header, ForEach(textures))) => counts)
  BY <1>5, <1>6, ThenSound
<1>9. Sound(Then(Then(header, ForEach(textures)), ForEach(shells)))
  BY <1>6, <1>8, ThenSound
<1> QED BY <1>1, <1>7, <1>9, ThenSound

----------------------------------------------------------------------------
(* VIF packets, and the terrain they hold.                                 *)

(* How long a command and its payload are.                                 *)
LEMMA CommandFacts ==
  ASSUME NEW commands, IsPacket(commands), NEW c \in Range(commands)
  PROVE  PayloadBits(c) \in Nat /\ LogicalBytes(c) \in Nat /\ CommandWords(c) \in Nat
<1>1. c.num \in Nat /\ c.layout[1] \in Nat /\ c.layout[2] \in Nat /\ c.quads \in Nat
  BY DEF IsPacket
<1>2. PayloadBits(c) \in Nat
  BY <1>1 DEF PayloadBits
<1> DEFINE bits == PayloadBits(c)
<1>3. (bits + 7) \div 8 \in Nat /\ (bits + 31) \div 32 \in Nat
  <2> HIDE DEF bits
  <2> QED BY <1>2 DEF bits
<1> QED BY <1>1, <1>2, <1>3 DEF LogicalBytes, CommandWords

(* A VIF packet is parsed, or refused with one of two statuses.            *)
LEMMA VifParseFacts ==
  ASSUME NEW bytes \in Int, NEW commands, IsPacket(commands), NEW cycles
  PROVE  /\ VifStatus(bytes, commands, cycles) \in {"Ok", "InvalidVifLayout", "UnsupportedVifCycle"}
         /\ Unpacks(bytes, commands, cycles) \in Seq(Range(commands))
         /\ VifParse(bytes, commands, cycles).commands \in Seq(Range(commands))
<1> DEFINE C == Range(commands)
           Status == {"Ok", "InvalidVifLayout", "UnsupportedVifCycle"}
           Parse == [status : Status, at : Nat, cl : Nat, wl : Nat, commands : Seq(C), unpacks : Seq(C)]
           n == Len(commands)
           start == [status |-> "Ok", at |-> 0, cl |-> 1, wl |-> 1, commands |-> <<>>, unpacks |-> <<>>]
           next == [i \in 1 .. n |-> [x \in Parse |-> VifCommand(bytes, cycles, x, commands[i])]]
           upTo == CHOOSE f : f = [i \in 0 .. n |->
                     IF i = 0 THEN start ELSE VifCommand(bytes, cycles, f[i - 1], commands[i])]
<1>1. n \in Nat /\ \A i \in 1 .. n : commands[i] \in C
  BY SequenceFacts DEF IsPacket
<1>2. start \in Parse
  <2> HIDE DEF C
  <2> QED BY EmptySeq
<1>3. ASSUME NEW x \in Parse, NEW c \in C PROVE VifCommand(bytes, cycles, x, c) \in Parse
  <2> DEFINE end == x.at + 4 * CommandWords(c)
             unpacks == IF c.form = "unpack" THEN Append(x.unpacks, c) ELSE x.unpacks
             cl == IF c.form = "stcycl" THEN c.cl ELSE x.cl
             wl == IF c.form = "stcycl" THEN c.wl ELSE x.wl
             all == Append(x.commands, c)
  <2>1. end \in Nat
    BY CommandFacts
  <2>2. all \in Seq(C) /\ unpacks \in Seq(C)
    <3> HIDE DEF C
    <3> QED BY AppendProperties
  <2>3. cl \in Nat /\ wl \in Nat
    <3>1. c.cl \in Nat /\ c.wl \in Nat
      BY DEF IsPacket
    <3> QED BY <3>1
  <2>4. ASSUME NEW s \in Status PROVE [x EXCEPT !.status = s] \in Parse
    <3> HIDE DEF C, Status
    <3> QED BY <2>4
  <2>5. [x EXCEPT !.at = end, !.commands = all, !.unpacks = unpacks, !.cl = cl, !.wl = wl] \in Parse
    <3> HIDE DEF C, Status, end, all, unpacks, cl, wl
    <3> QED BY <2>1, <2>2, <2>3
  <2>6. \/ VifCommand(bytes, cycles, x, c) = x
        \/ \E s \in Status : VifCommand(bytes, cycles, x, c) = [x EXCEPT !.status = s]
        \/ VifCommand(bytes, cycles, x, c) =
             [x EXCEPT !.at = end, !.commands = all, !.unpacks = unpacks, !.cl = cl, !.wl = wl]
    BY DEF VifCommand
  <2> HIDE DEF Parse, end, all, unpacks, cl, wl
  <2> QED BY <2>4, <2>5, <2>6
<1>4. next \in [1 .. n -> [Parse -> Parse]]
  <2> HIDE DEF Parse, n, start, C
  <2> QED BY <1>1, <1>3
<1>5. PICK g : IsRun(g, Parse, n, start, next)
  <2> HIDE DEF Parse, n, start, C, next
  <2> QED BY <1>1, <1>2, <1>4, RunExists DEF IsLoop
<1>6. g = [i \in 0 .. n |-> IF i = 0 THEN start ELSE VifCommand(bytes, cycles, g[i - 1], commands[i])]
  <2>1. g \in [0 .. n -> Parse] /\ g[0] = start /\ \A i \in 1 .. n : g[i] = next[i][g[i - 1]]
    BY <1>5 DEF IsRun
  <2> HIDE DEF Parse, n, start, C
  <2>2. \A i \in 0 .. n : i # 0 => i \in 1 .. n /\ i - 1 \in 0 .. n
    BY <1>1
  <2>3. ASSUME NEW i \in 1 .. n PROVE g[i] = VifCommand(bytes, cycles, g[i - 1], commands[i])
    <3>1. g[i - 1] \in Parse /\ next[i] = [x \in Parse |-> VifCommand(bytes, cycles, x, commands[i])]
      BY <2>1, <2>2, <1>1
    <3> HIDE DEF next
    <3> QED BY <2>1, <3>1
  <2>4. g = [i \in 0 .. n |-> g[i]]
    BY <2>1
  <2> HIDE DEF next
  <2> QED BY <2>1, <2>2, <2>3, <2>4
<1>7. upTo = [i \in 0 .. n |-> IF i = 0 THEN start ELSE VifCommand(bytes, cycles, upTo[i - 1], commands[i])]
  <2> HIDE DEF Parse, n, start, C
  <2> QED BY <1>6
<1> HIDE DEF upTo
<1>8. upTo[0] = start /\ \A i \in 1 .. n : upTo[i] = VifCommand(bytes, cycles, upTo[i - 1], commands[i])
  <2> HIDE DEF Parse, n, start, C
  <2>1. 0 \in 0 .. n /\ \A i \in 1 .. n : i \in 0 .. n /\ i # 0
    BY <1>1
  <2> QED BY <1>7, <2>1
<1>9. upTo[0] \in Parse /\ \A i \in 1 .. n : upTo[i - 1] \in Parse => upTo[i] \in Parse
  <2> HIDE DEF Parse, n, start, C
  <2> QED BY <1>1, <1>2, <1>3, <1>8
<1>10. \A i \in 0 .. n : upTo[i] \in Parse
  <2> HIDE DEF Parse, n, start, C
  <2> QED BY <1>1, <1>9, RunStaysIn
<1>11. upTo[n] \in Parse
  <2> HIDE DEF Parse, n
  <2> QED BY <1>1, <1>10
<1>12. /\ VifParse(bytes, commands, cycles).status \in Status
       /\ VifParse(bytes, commands, cycles).unpacks = upTo[n].unpacks
       /\ VifParse(bytes, commands, cycles).commands = upTo[n].commands
  <2>1. VifParse(bytes, commands, cycles) =
          IF bytes % 4 # 0 THEN [upTo[n] EXCEPT !.status = "InvalidVifLayout"] ELSE upTo[n]
    BY DEF VifParse, upTo
  <2> HIDE DEF C, n
  <2> QED BY <1>11, <2>1
<1> HIDE DEF C
<1> QED BY <1>11, <1>12 DEF VifStatus, Unpacks, C

(* The elements an unpack holds are a list, however many are listed.       *)
LEMMA ElementsFacts ==
  ASSUME NEW c, LogicalBytes(c) \in Nat, NEW size \in Nat \ {0}, NEW zero
  PROVE  /\ IsSteps(Elements(c, size, zero)) /\ Len(Elements(c, size, zero)) \in Nat
         /\ Len(Elements(c, size, zero)) = LogicalBytes(c) \div size
<1> DEFINE n == LogicalBytes(c) \div size
           all == [i \in 1 .. n |-> IF i <= Len(c.data) THEN c.data[i] ELSE zero]
<1>1. n \in Nat
  <2> DEFINE b == LogicalBytes(c)
  <2>1. b \in Nat
    OBVIOUS
  <2> HIDE DEF b
  <2>2. b \div size \in Nat
    BY <2>1
  <2> QED BY <2>2 DEF b
<1>2. Elements(c, size, zero) = all /\ all = [i \in 1 .. n |-> all[i]]
  BY DEF Elements
<1> HIDE DEF all, n
<1>3. Len(all) = n
  BY <1>1, <1>2, LenOfFunction
<1> QED BY <1>1, <1>2, <1>3 DEF IsSteps, n

(* A part of a list.                                                       *)
LEMMA PartIsList ==
  ASSUME NEW s, IsSteps(s), NEW from \in Int, NEW to \in Int
  PROVE  /\ SubSeq(s, from, to) = [i \in 1 .. (to - from + 1) |-> s[i + from - 1]]
         /\ from \in 1 .. Len(s) + 1 /\ to \in from - 1 .. Len(s) => IsSteps(SubSeq(s, from, to))
<1>1. SubSeq(s, from, to) = [i \in 1 .. (to - from + 1) |-> s[i + from - 1]]
  BY DEF IsSteps
<1>2. ASSUME from \in 1 .. Len(s) + 1, to \in from - 1 .. Len(s) PROVE IsSteps(SubSeq(s, from, to))
  <2> DEFINE n == to - from + 1
             t == [i \in 1 .. n |-> s[i + from - 1]]
  <2>1. n \in Nat
    BY <1>2
  <2>2. t = [i \in 1 .. n |-> t[i]]
    OBVIOUS
  <2> HIDE DEF n, t
  <2>3. Len(t) = n
    BY <2>1, <2>2, LenOfFunction
  <2>4. IsSteps(t)
    BY <2>1, <2>2, <2>3 DEF IsSteps
  <2> QED BY <2>4, <1>1 DEF t, n
<1> QED BY <1>1, <1>2

(* The strips up to the one that ends them.                                *)
LEMMA BeforeSentinelIsList ==
  ASSUME NEW strips, IsSteps(strips)
  PROVE  IsSteps(BeforeSentinel(strips))
<1> DEFINE I == {i \in 1 .. Len(strips) : strips[i].end = kSentinel}
           sentinel == IF I # {} THEN Min(I) ELSE 0
<1>1. BeforeSentinel(strips) = IF sentinel = 0 THEN strips ELSE SubSeq(strips, 1, sentinel - 1)
  BY DEF BeforeSentinel, SelectInSeq
<1>2. Len(strips) \in Nat
  BY DEF IsSteps
<1>3. CASE I = {}
  BY <1>1, <1>3
<1>4. CASE I # {}
  <2>1. I \in SUBSET Nat /\ \A i \in I : i \in 1 .. Len(strips)
    BY <1>2
  <2>2. sentinel \in I
    <3> HIDE DEF I
    <3> QED BY <1>4, <2>1, MinIsLeast
  <2>3. sentinel \in 1 .. Len(strips)
    BY <2>1, <2>2
  <2> HIDE DEF sentinel
  <2>4. BeforeSentinel(strips) = SubSeq(strips, 1, sentinel - 1)
    BY <1>1, <2>3
  <2>5. 1 \in 1 .. Len(strips) + 1 /\ sentinel - 1 \in 1 - 1 .. Len(strips) /\ sentinel - 1 \in Int
    BY <2>3, <1>2
  <2> QED BY <2>4, <2>5, PartIsList
<1> QED BY <1>3, <1>4

----------------------------------------------------------------------------
(* The strips of a fragment.  A mesh is as its packets give it: lists.     *)
IsMesh(m) ==
  /\ IsSteps(m.infos) /\ IsSteps(m.primitives) /\ IsSteps(m.strips) /\ IsSteps(m.indices)
  /\ m.positions \in Nat /\ m.colours \in Nat

(* A strip's corners are in the fragment's vertex table.                   *)
LEMMA CornerStepsSound ==
  ASSUME NEW m, IsMesh(m), NEW index
  PROVE  Sound(CornerSteps(m, index))
<1> DEFINE vertex == m.infos[index + 1]
           position == vertex \div 2
           inside == index \in 0 .. Len(m.infos) - 1
           valid == inside /\ vertex \in Nat /\ vertex % 2 = 0
                      /\ position < m.positions /\ position < m.colours
           first == Element(index, Len(m.infos))
           reads == {Element(position, m.positions), Bytes(4 * position, 4, 4 * m.colours)}
<1>1. CornerSteps(m, index) =
        <<Require("InvalidVertexIndex", inside, {first}), Require("InvalidVertexIndex", valid, reads)>>
  BY DEF CornerSteps
<1>2. inside => InRange(first)
  <2>1. Len(m.infos) \in Nat
    BY DEF IsMesh, IsSteps
  <2> QED BY <2>1 DEF Element, InRange, RangeFits
<1>3. valid => \A r \in reads : InRange(r)
  <2>1. valid => position \in Nat /\ position < m.positions /\ position < m.colours
    OBVIOUS
  <2>2. m.positions \in Nat /\ m.colours \in Nat
    BY DEF IsMesh
  <2> HIDE DEF valid, position
  <2> QED BY <2>1, <2>2 DEF Element, Bytes, InRange, RangeFits
<1> HIDE DEF inside, valid, first, reads
<1> QED BY <1>1, <1>2, <1>3 DEF Require, Sound, IsSteps, FailuresNamed, Verdicts, Guarded

(* The index the strip begins at, after strips with a count.               *)
LEMMA IndexCursorFacts ==
  ASSUME NEW m, NEW i \in Nat \ {0}, \A j \in 1 .. i - 1 : m.strips[j].count \in Nat
  PROVE  IndexCursor(m, i) \in Nat
<1> DEFINE n == i - 1
           next == [j \in 1 .. n |-> [x \in Nat |-> x + m.strips[j].count]]
           upTo == CHOOSE f : f = [j \in 0 .. n |-> IF j = 0 THEN 0 ELSE f[j - 1] + m.strips[j].count]
<1>1. n \in Nat
  OBVIOUS
<1>2. IndexCursor(m, i) = upTo[n]
  BY DEF IndexCursor
<1>3. \A j \in 1 .. n : m.strips[j].count \in Nat
  OBVIOUS
<1>4. 0 \in Nat
  OBVIOUS
<1>5. \A x \in Nat : \A c \in Nat : x + c \in Nat
  OBVIOUS
<1>6. next \in [1 .. n -> [Nat -> Nat]]
  <2> HIDE DEF n
  <2> QED BY <1>1, <1>3, <1>5
<1>7. PICK g : IsRun(g, Nat, n, 0, next)
  <2> HIDE DEF n, next
  <2> QED BY <1>1, <1>3, <1>4, <1>6, RunExists DEF IsLoop
<1>8. g = [k \in 0 .. n |-> IF k = 0 THEN 0 ELSE g[k - 1] + m.strips[k].count]
  <2>1. g \in [0 .. n -> Nat] /\ g[0] = 0 /\ \A k \in 1 .. n : g[k] = next[k][g[k - 1]]
    BY <1>7 DEF IsRun
  <2> HIDE DEF n
  <2>2. \A k \in 0 .. n : k # 0 => k \in 1 .. n /\ k - 1 \in 0 .. n
    BY <1>1, <1>3
  <2>3. ASSUME NEW k \in 1 .. n PROVE g[k] = g[k - 1] + m.strips[k].count
    <3>1. g[k - 1] \in Nat /\ next[k] = [x \in Nat |-> x + m.strips[k].count]
      BY <2>1, <2>2, <1>1, <1>3
    <3> HIDE DEF next
    <3> QED BY <2>1, <3>1
  <2>4. g = [k \in 0 .. n |-> g[k]]
    BY <2>1
  <2> HIDE DEF next
  <2> QED BY <2>1, <2>2, <2>3, <2>4
<1>9. upTo = [k \in 0 .. n |-> IF k = 0 THEN 0 ELSE upTo[k - 1] + m.strips[k].count]
  <2> HIDE DEF n
  <2> QED BY <1>8
<1> HIDE DEF upTo
<1>10. upTo[0] = 0 /\ \A k \in 1 .. n : upTo[k] = upTo[k - 1] + m.strips[k].count
  <2> HIDE DEF n
  <2>1. 0 \in 0 .. n /\ \A k \in 1 .. n : k \in 0 .. n /\ k # 0
    BY <1>1, <1>3
  <2> QED BY <1>9, <2>1
<1>11. upTo[0] \in Nat /\ \A k \in 1 .. n : upTo[k - 1] \in Nat => upTo[k] \in Nat
  <2> HIDE DEF n
  <2> QED BY <1>1, <1>3, <1>4, <1>5, <1>10
<1>12. \A k \in 0 .. n : upTo[k] \in Nat
  <2> HIDE DEF n
  <2> QED BY <1>1, <1>3, <1>11, RunStaysIn
<1>13. upTo[n] \in Nat
  <2> HIDE DEF n
  <2> QED BY <1>1, <1>12
<1> QED BY <1>2, <1>13

(* The material active at a strip is one the fragment has.                 *)
LEMMA ActiveMaterialFacts ==
  ASSUME NEW m, NEW i \in Nat, \A j \in 1 .. i : NamedMaterialIsValid(m, m.strips[j])
  PROVE  ActiveMaterial(m, i) \in Nat
<1> DEFINE naming == {j \in 1 .. i : Names(m.strips[j])}
<1>1. ActiveMaterial(m, i) = IF naming = {} THEN 0 ELSE Named(m, m.strips[Max(naming)])
  BY DEF ActiveMaterial
<1>2. CASE naming = {}
  BY <1>1, <1>2
<1>3. CASE naming # {}
  <2>1. naming \in SUBSET Int /\ \A j \in naming : j <= i
    OBVIOUS
  <2>2. Max(naming) \in naming
    <3> HIDE DEF naming
    <3> QED BY <1>3, <2>1, MaxIsGreatest
  <2> DEFINE k == Max(naming)
  <2>3. k \in 1 .. i /\ Names(m.strips[k])
    BY <2>2
  <2> HIDE DEF k, naming
  <2>4. Named(m, m.strips[k]) \in Nat
    BY <2>3 DEF NamedMaterialIsValid
  <2> QED BY <1>1, <1>3, <2>4 DEF k
<1> QED BY <1>2, <1>3

(* A strip, after strips that were accepted.                               *)
LEMMA StripStepsSound ==
  ASSUME NEW m, IsMesh(m), NEW textureCount \in Nat, NEW i \in Nat \ {0},
         \A j \in 1 .. i - 1 :
           m.strips[j].count \in Nat /\ NamedMaterialIsValid(m, m.strips[j])
  PROVE  /\ Sound(StripSteps(m, i, textureCount))
         /\ AllHold(StripSteps(m, i, textureCount)) =>
              m.strips[i].count \in Nat /\ NamedMaterialIsValid(m, m.strips[i])
<1> DEFINE s == m.strips[i]
           first == IndexCursor(m, i)
           end == s.end \in {0, 128}
           valid == NamedMaterialIsValid(m, s)
           named == <<Require("InvalidStrip", end, {}), Require("InvalidMaterialIndex", valid, {})>>
           material == ActiveMaterial(m, i)
           known == material < textureCount
           texture == Element(material, textureCount)
           enough == s.count \in 0 .. Len(m.indices) - first
           indices == <<<<first, s.count>>, Len(m.indices)>>
           fits == <<Require("InvalidMaterialIndex", known, {texture}),
                     Require("InvalidStrip", enough, {indices})>>
           corners == IF s.count < 3 THEN <<>> ELSE SubSeq(m.indices, first + 1, first + s.count)
           turns == [n \in DOMAIN corners |-> CornerSteps(m, corners[n])]
<1>1. StripSteps(m, i, textureCount) = Then(Then(named, fits), ForEach(turns))
  BY DEF StripSteps
<1>2. Len(m.indices) \in Nat /\ first \in Nat
  BY IndexCursorFacts DEF IsMesh, IsSteps
<1>3. Sound(named) /\ (AllHold(named) => valid)
  <2> HIDE DEF end, valid
  <2>1. Sound(named)
    BY DEF Require, Sound, IsSteps, FailuresNamed, Verdicts, Guarded
  <2>2. AllHold(named) => valid
    BY DEF AllHold, Require
  <2> QED BY <2>1, <2>2
<1>4. ASSUME valid PROVE Sound(fits) /\ (AllHold(fits) => enough)
  <2>1. \A j \in 1 .. i : NamedMaterialIsValid(m, m.strips[j])
    <3> TAKE j \in 1 .. i
    <3>1. j = i \/ j \in 1 .. i - 1
      OBVIOUS
    <3> QED BY <3>1, <1>4
  <2>2. material \in Nat
    BY <2>1, ActiveMaterialFacts
  <2>3. known => InRange(texture)
    <3> HIDE DEF material
    <3> QED BY <2>2 DEF Element, InRange, RangeFits
  <2>4. enough => InRange(indices)
    <3> HIDE DEF first
    <3> QED BY <1>2 DEF InRange, RangeFits
  <2> HIDE DEF known, texture, enough, indices
  <2>5. Sound(fits)
    BY <2>3, <2>4 DEF Require, Sound, IsSteps, FailuresNamed, Verdicts, Guarded
  <2>6. AllHold(fits) => enough
    BY DEF AllHold, Require
  <2> QED BY <2>5, <2>6
<1>5. ASSUME enough PROVE Sound(ForEach(turns)) /\ s.count \in Nat
  <2>1. s.count \in Nat /\ first + s.count <= Len(m.indices)
    BY <1>2, <1>5
  <2>2. \E k \in Nat : DOMAIN corners = 1 .. k
    <3>1. CASE s.count < 3
      <4>1. DOMAIN corners = 1 .. 0
        BY <3>1
      <4> QED BY <4>1
    <3>2. CASE ~(s.count < 3)
      <4> DEFINE from == first + 1
                 to == first + s.count
      <4>1. from \in Int /\ to \in Int /\ to - from + 1 = s.count
        BY <1>2, <2>1, SMTT(30)
      <4>2. corners = SubSeq(m.indices, from, to)
        BY <3>2
      <4> HIDE DEF from, to, corners
      <4>3. DOMAIN SubSeq(m.indices, from, to) = 1 .. (to - from + 1)
        BY <4>1, PartIsList DEF IsMesh
      <4> QED BY <4>1, <4>2, <4>3, <2>1
    <3> QED BY <3>1, <3>2
  <2>3. PICK k \in Nat : DOMAIN corners = 1 .. k
    BY <2>2
  <2>4. turns = [n \in 1 .. k |-> turns[n]] /\ \A n \in 1 .. k : Sound(turns[n])
    <3> HIDE DEF corners
    <3> QED BY <2>3, CornerStepsSound
  <2> HIDE DEF turns
  <2> QED BY <2>1, <2>4, ForEachSound
<1> HIDE DEF named, fits, turns, valid, enough
<1>6. Sound(Then(named, fits)) /\ (AllHold(Then(named, fits)) => valid /\ enough)
  <2>1. AllHold(named) => Sound(fits)
    BY <1>3, <1>4
  <2>2. Sound(Then(named, fits)) /\ (AllHold(Then(named, fits)) => AllHold(named) /\ AllHold(fits))
    BY <1>3, <2>1, ThenSound
  <2> QED BY <1>3, <1>4, <2>2
<1> DEFINE a == Then(named, fits)
<1> HIDE DEF a
<1>7. Sound(Then(a, ForEach(turns))) /\ (AllHold(Then(a, ForEach(turns))) => AllHold(a))
  BY <1>5, <1>6, ThenSound DEF a
<1>8. AllHold(a) => s.count \in Nat /\ valid
  BY <1>5, <1>6 DEF a
<1> QED BY <1>1, <1>7, <1>8 DEF a, valid

(* A fragment's strips, one after the other.                               *)
LEMMA DrawStepsSound ==
  ASSUME NEW m, IsMesh(m), NEW textureCount \in Nat
  PROVE  /\ Sound(DrawSteps(m, textureCount))
         /\ AllHold(DrawSteps(m, textureCount)) => \A i \in DOMAIN m.strips : m.strips[i].count \in Nat
<1> DEFINE turns == [i \in DOMAIN m.strips |-> StripSteps(m, i, textureCount)]
           n == Len(m.strips)
           last == <<Require("InvalidStrip", m.sentinelFound, {})>>
<1>1. n \in Nat /\ DOMAIN m.strips = 1 .. n
  BY DEF IsMesh, IsSteps
<1>2. turns = [i \in 1 .. n |-> turns[i]] /\ \A i \in 1 .. n : turns[i] = StripSteps(m, i, textureCount)
  BY <1>1
<1> DEFINE Given(i) == m.strips[i].count \in Nat /\ NamedMaterialIsValid(m, m.strips[i])
<1>3. ASSUME NEW i \in 1 .. n, \A j \in 1 .. i - 1 : AllHold(turns[j]) /\ Sound(turns[j]) /\ Given(j)
      PROVE  Sound(turns[i]) /\ (AllHold(turns[i]) => Given(i))
  <2>1. i \in Nat \ {0}
    OBVIOUS
  <2> HIDE DEF n, turns
  <2> QED BY <2>1, <1>2, <1>3, StripStepsSound
<1> DEFINE Bad == {i \in 0 .. n : ~ \A k \in 1 .. i :
                     (\A j \in 1 .. k - 1 : AllHold(turns[j])) =>
                       Sound(turns[k]) /\ (AllHold(turns[k]) => Given(k))}
<1>4. Bad = {}
  <2> HIDE DEF Given, turns, n
  <2>1. 0 \notin Bad
    OBVIOUS
  <2>2. ASSUME NEW i \in 1 .. n, i - 1 \notin Bad PROVE i \notin Bad
    <3>1. \A k \in 1 .. i - 1 : (\A j \in 1 .. k - 1 : AllHold(turns[j])) =>
                       Sound(turns[k]) /\ (AllHold(turns[k]) => Given(k))
      BY <2>2, <1>1
    <3>2. ASSUME NEW k \in 1 .. i, \A j \in 1 .. k - 1 : AllHold(turns[j])
          PROVE  Sound(turns[k]) /\ (AllHold(turns[k]) => Given(k))
      <4>1. CASE k \in 1 .. i - 1
        BY <3>1, <3>2, <4>1
      <4>2. CASE k = i
        <5>1. \A j \in 1 .. i - 1 : \A l \in 1 .. j - 1 : l \in 1 .. i - 1
          OBVIOUS
        <5>2. \A j \in 1 .. i - 1 : AllHold(turns[j]) /\ Sound(turns[j]) /\ Given(j)
          BY <3>1, <3>2, <4>2, <5>1
        <5> QED BY <4>2, <5>2, <1>3
      <4> QED BY <4>1, <4>2
    <3> QED BY <3>2
  <2>3. Bad \in SUBSET (0 .. n)
    OBVIOUS
  <2> HIDE DEF Bad
  <2> QED BY <1>1, <2>1, <2>2, <2>3, NoFirstBad
<1>5. \A i \in 1 .. n : (\A j \in 1 .. i - 1 : AllHold(turns[j])) =>
                          Sound(turns[i]) /\ (AllHold(turns[i]) => Given(i))
  <2> HIDE DEF Given, turns, n
  <2>1. n \in 0 .. n /\ n \notin Bad
    BY <1>1, <1>4
  <2> QED BY <2>1
<1> HIDE DEF turns, n, Given
<1>6. /\ Sound(ForEach(turns))
      /\ AllHold(ForEach(turns)) => \A i \in 1 .. n : AllHold(turns[i])
  BY <1>1, <1>2, <1>5, LoopSound
<1>7. (\A i \in 1 .. n : AllHold(turns[i])) => \A i \in 1 .. n : Given(i)
  <2>1. \A i \in 1 .. n : \A j \in 1 .. i - 1 : j \in 1 .. n
    BY <1>1
  <2> QED BY <2>1, <1>5
<1>8. Sound(last)
  BY StepSound DEF Verdicts
<1>9. DrawSteps(m, textureCount) = Then(ForEach(turns), last)
  BY DEF DrawSteps, turns
<1> HIDE DEF last
<1>10. /\ Sound(DrawSteps(m, textureCount))
       /\ AllHold(DrawSteps(m, textureCount)) => AllHold(ForEach(turns))
  BY <1>6, <1>8, <1>9, ThenSound
<1>11. (\A i \in 1 .. n : Given(i)) => \A i \in DOMAIN m.strips : m.strips[i].count \in Nat
  BY <1>1 DEF Given
<1> QED BY <1>6, <1>7, <1>10, <1>11

(* The commands a packet's parse found, and their sizes.                   *)
LEMMA UnpackFacts ==
  ASSUME NEW commands, IsPacket(commands), NEW u \in Seq(Range(commands)), NEW i \in Int,
         1 <= i, i <= Len(u)
  PROVE  /\ LogicalBytes(u[i]) \in Nat /\ CommandWords(u[i]) \in Nat
         /\ \A size \in Nat \ {0} : \A zero :
              /\ IsSteps(Elements(u[i], size, zero)) /\ Len(Elements(u[i], size, zero)) \in Nat
              /\ Len(Elements(u[i], size, zero)) = LogicalBytes(u[i]) \div size
<1>1. Len(u) \in Nat /\ DOMAIN u = 1 .. Len(u) /\ \A k \in DOMAIN u : u[k] \in Range(commands)
  BY ElementsOfSeq
<1>2. u[i] \in Range(commands)
  BY <1>1
<1>3. LogicalBytes(u[i]) \in Nat /\ CommandWords(u[i]) \in Nat
  BY <1>2, CommandFacts
<1> QED BY <1>3, ElementsFacts

(* The five groups of a fragment's data.                                   *)
LEMMA PointerStepsSound ==
  ASSUME NEW f, IsFragment(f), NEW dataBytes \in Int
  PROVE  /\ Sound(PointerSteps(f, dataBytes))
         /\ \A g \in 1 .. 5 : GroupBytes(f, g) \in Int
<1> DEFINE p == Pointers(f)
           ordered == \A i \in 1 .. 5 : p[i] < p[i + 1] /\ p[i + 1] <= dataBytes
           reads == {Bytes(p[i], p[i + 1] - p[i], dataBytes) : i \in 1 .. 5}
<1>1. \A i \in 1 .. 6 : p[i] \in Nat
  <2> DEFINE end(n) == f.shared + 16 * n
  <2>1. /\ f.lod2 \in Nat /\ f.shared \in Nat /\ f.lod0 \in Nat
        /\ f.commonSize \in Nat /\ f.lod1Size \in Nat /\ f.lod0Size \in Nat
    BY DEF IsFragment
  <2>2. p[1] \in Nat /\ p[2] \in Nat /\ p[3] \in Nat /\ p[4] \in Nat /\ p[5] \in Nat /\ p[6] \in Nat
    BY <2>1 DEF Pointers
  <2> HIDE DEF p
  <2> QED BY <2>2
<1>2. \A i \in 1 .. 5 : i \in 1 .. 6 /\ i + 1 \in 1 .. 6
  OBVIOUS
<1> HIDE DEF p
<1>3. ordered => \A r \in reads : InRange(r)
  <2> SUFFICES ASSUME ordered, NEW i \in 1 .. 5
               PROVE  InRange(Bytes(p[i], p[i + 1] - p[i], dataBytes))
    OBVIOUS
  <2>1. p[i] \in Nat /\ p[i + 1] \in Nat /\ p[i + 1] <= dataBytes
    BY <1>1, <1>2
  <2> DEFINE a == p[i]
             b == p[i + 1]
  <2>2. a \in Nat /\ b \in Nat /\ b <= dataBytes
    BY <2>1
  <2> HIDE DEF a, b
  <2>3. InRange(Bytes(a, b - a, dataBytes))
    BY <2>2 DEF InRange, RangeFits, Bytes
  <2> QED BY <2>3 DEF a, b
<1>4. \A g \in 1 .. 5 : GroupBytes(f, g) \in Int
  BY <1>1, <1>2 DEF GroupBytes, p
<1>5. PointerSteps(f, dataBytes) = <<Require("InvalidTfragHeader", ordered, reads)>>
  BY DEF PointerSteps, p
<1> HIDE DEF ordered, reads
<1> QED BY <1>3, <1>4, <1>5, StepSound DEF Verdicts

(* A VIF packet of a fragment is in the fragment's data.                   *)
LEMMA PacketStepsSound ==
  ASSUME NEW f, IsFragment(f), \A g \in 1 .. 5 : GroupBytes(f, g) \in Int
  PROVE  Sound(PacketSteps(f))
<1> DEFINE status(g) == VifStatus(GroupBytes(f, g), f.packets[g], TRUE)
           steps == [g \in 1 .. 5 |-> Require(status(g), status(g) = "Ok", {})]
<1>1. \A g \in 1 .. 5 : status(g) \in {"Ok", "InvalidVifLayout", "UnsupportedVifCycle"}
  BY VifParseFacts DEF IsFragment
<1>2. \A g \in 1 .. 5 : status(g) # "Ok" => status(g) \notin Verdicts
  BY <1>1 DEF Verdicts
<1> HIDE DEF status
<1>3. \A g \in 1 .. 5 : /\ steps[g].reads = {} /\ (steps[g].holds <=> status(g) = "Ok")
                        /\ steps[g].failure = status(g)
  BY DEF Require
<1>4. steps = [g \in 1 .. 5 |-> steps[g]] /\ PacketSteps(f) = steps
  BY DEF PacketSteps, status
<1> HIDE DEF steps
<1>5. Len(steps) = 5 /\ DOMAIN steps = 1 .. 5
  BY <1>4, LenOfFunction
<1> QED BY <1>2, <1>3, <1>4, <1>5 DEF Sound, IsSteps, FailuresNamed, Guarded

(* Group 2, and what its checks make of the fragment's unpacks.            *)
LEMMA Group2StepsSound ==
  ASSUME NEW f, IsFragment(f), NEW commands, IsPacket(commands),
         NEW unpacks \in Seq(Range(commands)), NEW slots \in Seq(Range(commands))
  PROVE  /\ Sound(Group2Steps(f, unpacks, slots))
         /\ AllHold(Group2Steps(f, unpacks, slots)) =>
              Len(unpacks) >= 4 /\ 80 * f.primitives <= LogicalBytes(unpacks[2])
<1> DEFINE row == Len(slots) > 5 /\ slots[6].form = "strow"
           enough == Len(unpacks) >= 4
           rowRead == Bytes(0, 16, 4 * (CommandWords(slots[6]) - 1))
           present == <<Require("MissingVifData", row, {rowRead}), Require("MissingVifData", enough, {})>>
           header == LogicalBytes(unpacks[1]) >= 40
           headerRead == Bytes(0, 10, LogicalBytes(unpacks[1]))
           textures == 80 * f.primitives <= LogicalBytes(unpacks[2])
           texturesRead == Bytes(0, 80 * f.primitives, LogicalBytes(unpacks[2]))
           whole == WholeInfos(unpacks[3])
           fit == PositionsFit(unpacks[4], f.header.common)
           read == <<Require("InvalidVuHeader", header, {headerRead}),
                     Require("MissingVifData", textures, {texturesRead}),
                     Require("MissingVifData", whole, {}), Require("MissingVifData", fit, {})>>
<1>1. Group2Steps(f, unpacks, slots) = Then(present, read)
  BY DEF Group2Steps
<1>2. row => InRange(rowRead)
  <2>1. row => CommandWords(slots[6]) = 5
    BY DEF CommandWords
  <2> HIDE DEF row
  <2>2. row => rowRead = <<<<0, 16>>, 16>>
    BY <2>1 DEF Bytes
  <2> QED BY <2>2 DEF InRange, RangeFits
<1>3. enough => LogicalBytes(unpacks[1]) \in Nat /\ LogicalBytes(unpacks[2]) \in Nat
  <2> SUFFICES ASSUME enough PROVE LogicalBytes(unpacks[1]) \in Nat /\ LogicalBytes(unpacks[2]) \in Nat
    OBVIOUS
  <2>1. Len(unpacks) \in Nat /\ 1 \in Int /\ 2 \in Int /\ 1 <= 1 /\ 1 <= 2
    BY ElementsOfSeq
  <2>2. 1 <= Len(unpacks) /\ 2 <= Len(unpacks)
    BY <2>1
  <2> HIDE DEF present, read, enough, header, textures, whole, fit, row
  <2>3. LogicalBytes(unpacks[1]) \in Nat
    BY <2>1, <2>2, UnpackFacts
  <2>4. LogicalBytes(unpacks[2]) \in Nat
    BY <2>1, <2>2, UnpackFacts
  <2> QED BY <2>3, <2>4
<1>4. f.primitives \in Nat
  BY DEF IsFragment
<1>5. enough => (header => InRange(headerRead)) /\ (textures => InRange(texturesRead))
  <2> DEFINE a == LogicalBytes(unpacks[1])
             b == LogicalBytes(unpacks[2])
  <2> HIDE DEF a, b, enough
  <2> USE DEF a, b
  <2>1. enough => a \in Nat /\ b \in Nat
    BY <1>3
  <2> HIDE DEF a, b
  <2>2. ASSUME enough, a >= 40 PROVE InRange(Bytes(0, 10, a))
    BY <2>1, <2>2 DEF InRange, RangeFits, Bytes
  <2>3. ASSUME enough, 80 * f.primitives <= b PROVE InRange(Bytes(0, 80 * f.primitives, b))
    BY <2>1, <2>3, <1>4 DEF InRange, RangeFits, Bytes
  <2> QED BY <2>2, <2>3 DEF a, b
<1> HIDE DEF row, enough, rowRead, header, headerRead, textures, texturesRead, whole, fit
<1>6. Sound(present) /\ (AllHold(present) => enough)
  <2>1. Sound(present)
    BY <1>2 DEF Require, Sound, IsSteps, FailuresNamed, Verdicts, Guarded
  <2>2. AllHold(present) => enough
    BY DEF AllHold, Require
  <2> QED BY <2>1, <2>2
<1>7. (enough => Sound(read)) /\ (AllHold(read) => textures)
  <2>1. enough => Sound(read)
    BY <1>5 DEF Require, Sound, IsSteps, FailuresNamed, Verdicts, Guarded
  <2>2. AllHold(read) => textures
    BY DEF AllHold, Require
  <2> QED BY <2>1, <2>2
<1> HIDE DEF present, read
<1>8. /\ Sound(Then(present, read))
      /\ AllHold(Then(present, read)) => AllHold(present) /\ AllHold(read)
  BY <1>6, <1>7, ThenSound
<1> QED BY <1>1, <1>6, <1>7, <1>8 DEF enough, textures

(* Group 4: its unpacks hold as many entries as the header counts.         *)
LEMMA Group4StepsSound ==
  ASSUME NEW g, NEW count
  PROVE  Sound(Group4Steps(g, count))
<1> DEFINE a == count = 0 \/ HasLayout(g.unpacks, 1, V4_8)
           b == ~g.hasInfos \/ WholeInfos(g.unpacks[g.infosAt])
           c == IF g.hasPositions THEN PositionsFit(g.unpacks[g.positionsAt], count) ELSE count = 0
<1>1. Group4Steps(g, count) =
        <<Require("MissingVifData", a, {}), Require("MissingVifData", b, {}),
          Require("MissingVifData", c, {})>>
  BY DEF Group4Steps
<1> HIDE DEF a, b, c
<1> QED BY <1>1 DEF Require, Sound, IsSteps, FailuresNamed, Verdicts, Guarded

(* Group 5: so do its own, and the unpack of its strips is there.          *)
LEMMA Group5StepsSound ==
  ASSUME NEW g, NEW count
  PROVE  /\ Sound(Group5Steps(g, count))
         /\ AllHold(Group5Steps(g, count)) =>
              /\ g.stripsAt + 1 <= Len(g.unpacks)
              /\ count > 0 => HasLayout(g.unpacks, g.infosAt, V4_16)
<1> DEFINE a == count = 0 \/ (HasLayout(g.unpacks, 1, V3_16) /\ PositionsFit(g.unpacks[1], count))
           b == g.stripsAt + 1 <= Len(g.unpacks)
           c == LogicalBytes(g.unpacks[g.stripsAt]) % 4 = 0
           d == count > 0 => /\ HasLayout(g.unpacks, g.stripsAt + 2, V4_8)
                             /\ HasLayout(g.unpacks, g.infosAt, V4_16)
                             /\ WholeInfos(g.unpacks[g.infosAt])
           positions == <<Require("MissingVifData", a, {}), Require("MissingVifData", b, {})>>
           strips == <<Require("InvalidStrip", c, {}), Require("MissingVifData", d, {})>>
<1>1. Group5Steps(g, count) = Then(positions, strips)
  BY DEF Group5Steps
<1>2. d => (count > 0 => HasLayout(g.unpacks, g.infosAt, V4_16))
  OBVIOUS
<1> HIDE DEF a, b, c, d
<1>3. Sound(positions) /\ Sound(strips)
  BY DEF Require, Sound, IsSteps, FailuresNamed, Verdicts, Guarded
<1>4. (AllHold(positions) => b) /\ (AllHold(strips) => d)
  BY DEF AllHold, Require
<1> HIDE DEF positions, strips
<1>5. /\ Sound(Then(positions, strips))
      /\ AllHold(Then(positions, strips)) => AllHold(positions) /\ AllHold(strips)
  BY <1>3, ThenSound
<1> QED BY <1>1, <1>2, <1>4, <1>5 DEF b

(* The mesh its accepted groups make of a fragment.                        *)
LEMMA FragmentMeshFacts ==
  ASSUME NEW f, IsFragment(f), \A g \in 1 .. 5 : GroupBytes(f, g) \in Int,
         Len(GroupUnpacks(f, 2)) >= 4, 80 * f.primitives <= LogicalBytes(GroupUnpacks(f, 2)[2]),
         Group5(f).stripsAt + 1 <= Len(Group5(f).unpacks),
         f.header.lod0 > 0 => HasLayout(Group5(f).unpacks, Group5(f).infosAt, V4_16)
  PROVE  IsMesh(FragmentMesh(f))
<1> DEFINE unpacks2 == GroupUnpacks(f, 2)
           unpacks4 == GroupUnpacks(f, 4)
           unpacks5 == GroupUnpacks(f, 5)
           g4 == Group4(f)
           g5 == Group5(f)
           m == FragmentMesh(f)
<1>1. \A g \in 1 .. 5 : /\ IsPacket(f.packets[g])
                        /\ GroupUnpacks(f, g) \in Seq(Range(f.packets[g]))
                        /\ Len(GroupUnpacks(f, g)) \in Nat
  <2> TAKE g \in 1 .. 5
  <2>1. IsPacket(f.packets[g]) /\ GroupBytes(f, g) \in Int
    BY DEF IsFragment
  <2>2. GroupUnpacks(f, g) \in Seq(Range(f.packets[g]))
    BY <2>1, VifParseFacts DEF GroupUnpacks
  <2> QED BY <2>1, <2>2, ElementsOfSeq
<1> DEFINE Lists(c) ==
             /\ LogicalBytes(c) \in Nat
             /\ \A size \in Nat \ {0} : \A zero :
                  /\ IsSteps(Elements(c, size, zero)) /\ Len(Elements(c, size, zero)) \in Nat
                  /\ Len(Elements(c, size, zero)) = LogicalBytes(c) \div size
<1>2. ASSUME NEW g \in 1 .. 5, NEW i \in Int, 1 <= i, i <= Len(GroupUnpacks(f, g))
      PROVE  Lists(GroupUnpacks(f, g)[i])
  BY <1>1, <1>2, UnpackFacts
<1> HIDE DEF Lists
<1>3. /\ \A i \in Int : 1 <= i /\ i <= Len(unpacks2) => Lists(unpacks2[i])
      /\ \A i \in Int : 1 <= i /\ i <= Len(unpacks4) => Lists(unpacks4[i])
      /\ \A i \in Int : 1 <= i /\ i <= Len(unpacks5) => Lists(unpacks5[i])
      /\ Len(unpacks2) \in Nat /\ Len(unpacks5) \in Nat /\ 2 \in 1 .. 5
      /\ IsSteps(<<>>)
  <2>1. 2 \in 1 .. 5 /\ 4 \in 1 .. 5 /\ 5 \in 1 .. 5
    OBVIOUS
  <2>2. IsSteps(<<>>)
    BY DEF IsSteps
  <2> QED BY <1>1, <1>2, <2>1, <2>2
<1>4. /\ g4.unpacks = unpacks4 /\ g4.infosAt \in 1 .. 3
      /\ g4.hasInfos => g4.infosAt <= Len(unpacks4)
  <2>1. /\ g4.unpacks = unpacks4 /\ g4.infosAt \in 1 .. 3
        /\ g4.hasInfos = HasLayout(unpacks4, g4.infosAt, V4_16)
    BY DEF Group4, Group4Of
  <2> QED BY <2>1 DEF HasLayout
<1>5. /\ g5.unpacks = unpacks5 /\ g5.stripsAt \in 1 .. 2 /\ g5.infosAt \in 1 .. 6
  BY DEF Group5, Group5Of
<1> DEFINE infos2 == Elements(unpacks2[3], 8, 0)
           infos4 == IF g4.hasInfos THEN Elements(g4.unpacks[g4.infosAt], 8, 0) ELSE <<>>
           infos5 == IF f.header.lod0 > 0 THEN Elements(g5.unpacks[g5.infosAt], 8, 0) ELSE <<>>
           materials == Elements(unpacks2[2], 80, 0)
           strips == Elements(g5.unpacks[g5.stripsAt], 4, NoStrip)
           indices == Elements(g5.unpacks[g5.stripsAt + 1], 1, 0)
<1>6. /\ m.infos = infos2 \o infos4 \o infos5
      /\ m.positions = f.header.common + f.header.lod0
                         + (IF g4.hasPositions THEN f.header.lod01 ELSE 0)
      /\ m.colours = 4 * f.rgbaSize /\ m.primitives = SubSeq(materials, 1, f.primitives)
      /\ m.strips = BeforeSentinel(strips) /\ m.indices = indices
  BY DEF FragmentMesh, MeshOf
<1> HIDE DEF m, g4, g5
<1>7. Group5(f) = g5 /\ GroupUnpacks(f, 2) = unpacks2
  BY DEF g5
<1> HIDE DEF unpacks2, unpacks4, unpacks5
<1>8. /\ Len(unpacks2) >= 4 /\ 80 * f.primitives <= LogicalBytes(unpacks2[2])
      /\ g5.stripsAt + 1 <= Len(unpacks5)
      /\ f.header.lod0 > 0 => HasLayout(unpacks5, g5.infosAt, V4_16)
  BY <1>7, <1>5
<1>9. IsSteps(infos2) /\ IsSteps(materials) /\ LogicalBytes(unpacks2[2]) \in Nat
      /\ Len(materials) \in Nat /\ Len(materials) = LogicalBytes(unpacks2[2]) \div 80
  <2>1. 3 <= Len(unpacks2) /\ 2 <= Len(unpacks2)
    BY <1>3, <1>8
  <2>2. Lists(unpacks2[3]) /\ Lists(unpacks2[2])
    BY <2>1, <1>3
  <2>3. 8 \in Nat \ {0} /\ 80 \in Nat \ {0}
    OBVIOUS
  <2>4. IsSteps(infos2)
    BY <2>2, <2>3 DEF Lists
  <2>5. IsSteps(materials) /\ Len(materials) \in Nat /\ LogicalBytes(unpacks2[2]) \in Nat
    BY <2>2, <2>3 DEF Lists
  <2>6. Len(materials) = LogicalBytes(unpacks2[2]) \div 80
    BY <2>2, <2>3 DEF Lists
  <2> QED BY <2>4, <2>5, <2>6
<1>10. IsSteps(infos4)
  <2>1. CASE ~g4.hasInfos
    BY <2>1, <1>3
  <2>2. CASE g4.hasInfos
    <3>1. g4.infosAt \in Int /\ 1 <= g4.infosAt /\ g4.infosAt <= Len(unpacks4)
      BY <1>4, <2>2
    <3>2. Lists(unpacks4[g4.infosAt])
      BY <3>1, <1>3
    <3> QED BY <3>2, <2>2, <1>4 DEF Lists
  <2> QED BY <2>1, <2>2
<1>11. IsSteps(infos5)
  <2>1. CASE ~(f.header.lod0 > 0)
    BY <2>1, <1>3
  <2>2. CASE f.header.lod0 > 0
    <3>1. g5.infosAt \in Int /\ 1 <= g5.infosAt /\ g5.infosAt <= Len(unpacks5)
      <4>1. g5.infosAt \in 1 .. 6
        BY <1>5
      <4>2. HasLayout(unpacks5, g5.infosAt, V4_16)
        BY <1>8, <2>2
      <4>3. g5.infosAt <= Len(unpacks5)
        BY <4>2 DEF HasLayout
      <4> QED BY <4>1, <4>3, SMTT(30)
    <3>2. Lists(unpacks5[g5.infosAt])
      BY <3>1, <1>3
    <3> QED BY <3>2, <2>2, <1>5 DEF Lists
  <2> QED BY <2>1, <2>2
<1>12. IsSteps(strips) /\ IsSteps(indices)
  <2>1. g5.stripsAt + 1 <= Len(unpacks5) /\ Len(unpacks5) \in Nat
    BY <1>3, <1>8
  <2>2. /\ g5.stripsAt \in Int /\ 1 <= g5.stripsAt /\ g5.stripsAt <= Len(unpacks5)
        /\ g5.stripsAt + 1 \in Int /\ 1 <= g5.stripsAt + 1
    BY <2>1, <1>5, SMTT(30)
  <2>3. Lists(unpacks5[g5.stripsAt]) /\ Lists(unpacks5[g5.stripsAt + 1])
    BY <2>1, <2>2, <1>3
  <2> QED BY <2>3, <1>5 DEF Lists
<1>13. IsSteps(m.infos)
  <2> HIDE DEF infos2, infos4, infos5
  <2> QED BY <1>6, <1>9, <1>10, <1>11, ConcatSteps
<1>14. IsSteps(m.primitives)
  <2>1. f.primitives \in Nat
    BY DEF IsFragment
  <2> DEFINE b == LogicalBytes(unpacks2[2])
             k == Len(materials)
  <2> HIDE DEF b, k
  <2>2. k \in Nat /\ b \in Nat /\ k = b \div 80 /\ 80 * f.primitives <= b
    BY <1>9, <1>8 DEF b, k
  <2>3. f.primitives <= k
    BY <2>1, <2>2
  <2>4. 1 \in 1 .. k + 1 /\ f.primitives \in 1 - 1 .. k /\ 1 \in Int /\ f.primitives \in Int
    BY <2>1, <2>2, <2>3
  <2> HIDE DEF materials, unpacks2
  <2>5. IsSteps(SubSeq(materials, 1, f.primitives))
    BY <2>4, <1>9, PartIsList DEF k
  <2> QED BY <2>5, <1>6
<1>15. IsSteps(m.strips) /\ IsSteps(m.indices)
  <2> HIDE DEF strips, indices
  <2> QED BY <1>6, <1>12, BeforeSentinelIsList
<1>16. m.positions \in Nat /\ m.colours \in Nat
  <2>1. f.header.common \in Nat /\ f.header.lod0 \in Nat /\ f.header.lod01 \in Nat /\ f.rgbaSize \in Nat
    BY DEF IsFragment
  <2> DEFINE more == IF g4.hasPositions THEN f.header.lod01 ELSE 0
  <2>2. more \in Nat
    BY <2>1
  <2>3. m.positions = f.header.common + f.header.lod0 + more /\ m.colours = 4 * f.rgbaSize
    BY <1>6
  <2> DEFINE a == f.header.common
             b == f.header.lod0
             c == f.rgbaSize
  <2>4. a \in Nat /\ b \in Nat /\ c \in Nat /\ m.positions = a + b + more /\ m.colours = 4 * c
    BY <2>1, <2>3
  <2> HIDE DEF more, a, b, c
  <2>5. a + b + more \in Nat /\ 4 * c \in Nat
    BY <2>2, <2>4
  <2> QED BY <2>4, <2>5
<1> QED BY <1>13, <1>14, <1>15, <1>16 DEF IsMesh, m

\* A mesh whose strips were accepted.
IsDrawn(m) == IsMesh(m) /\ \A i \in DOMAIN m.strips : m.strips[i].count \in Nat

(* A fragment is read inside its data.                                     *)
LEMMA FragmentStepsSound ==
  ASSUME NEW f, IsFragment(f), NEW dataBytes \in Int, NEW textureCount \in Nat
  PROVE  /\ Sound(FragmentSteps(f, dataBytes, textureCount))
         /\ AllHold(FragmentSteps(f, dataBytes, textureCount)) => IsDrawn(FragmentMesh(f))
<1> DEFINE slots == VifParse(GroupBytes(f, 2), f.packets[2], TRUE).commands
           range == Bytes(f.rgba, 16 * f.rgbaSize, dataBytes)
           fits == RangeFits(<<f.rgba, 16 * f.rgbaSize>>, dataBytes)
           colours == <<Require("InvalidTfragHeader", fits, {range})>>
           pointers == PointerSteps(f, dataBytes)
           packets == PacketSteps(f)
           group2 == Group2Steps(f, GroupUnpacks(f, 2), slots)
           group4 == Group4Steps(Group4(f), f.header.lod01)
           group5 == Group5Steps(Group5(f), f.header.lod0)
           draws == DrawSteps(FragmentMesh(f), textureCount)
<1>1. FragmentSteps(f, dataBytes, textureCount) =
        Then(Then(Then(pointers, packets), Then(group2, Then(group4, group5))), Then(colours, draws))
  BY DEF FragmentSteps
<1>2. Sound(pointers) /\ \A g \in 1 .. 5 : GroupBytes(f, g) \in Int
  BY PointerStepsSound
<1>3. Sound(packets)
  BY <1>2, PacketStepsSound
<1>4. /\ Sound(group2)
      /\ AllHold(group2) => /\ Len(GroupUnpacks(f, 2)) >= 4
                            /\ 80 * f.primitives <= LogicalBytes(GroupUnpacks(f, 2)[2])
  <2>1. 2 \in 1 .. 5
    OBVIOUS
  <2>2. /\ IsPacket(f.packets[2]) /\ GroupUnpacks(f, 2) \in Seq(Range(f.packets[2]))
        /\ slots \in Seq(Range(f.packets[2]))
    BY <1>2, <2>1, VifParseFacts DEF IsFragment, GroupUnpacks
  <2> HIDE DEF slots
  <2> QED BY <2>2, Group2StepsSound
<1>5. Sound(group4)
  BY Group4StepsSound
<1>6. /\ Sound(group5)
      /\ AllHold(group5) =>
           /\ Group5(f).stripsAt + 1 <= Len(Group5(f).unpacks)
           /\ f.header.lod0 > 0 => HasLayout(Group5(f).unpacks, Group5(f).infosAt, V4_16)
  BY Group5StepsSound
<1>7. Sound(colours)
  <2>1. f.rgba \in Nat
    BY DEF IsFragment
  <2>2. fits => \A r \in {range} : InRange(r)
    BY <2>1 DEF InRange, RangeFits, Bytes
  <2> HIDE DEF fits, range
  <2> QED BY <2>2, StepSound DEF Verdicts
<1>8. ASSUME AllHold(group2), AllHold(group5)
      PROVE  Sound(draws) /\ (AllHold(draws) => IsDrawn(FragmentMesh(f)))
  <2>1. IsMesh(FragmentMesh(f))
    BY <1>2, <1>4, <1>6, <1>8, FragmentMeshFacts
  <2> QED BY <2>1, DrawStepsSound DEF IsDrawn
<1> HIDE DEF pointers, packets, group2, group4, group5, colours, draws
<1> DEFINE first == Then(pointers, packets)
           last == Then(group4, group5)
           groups == Then(group2, last)
           all == Then(first, groups)
<1>9. Sound(first) /\ Sound(last) /\ (AllHold(last) => AllHold(group5))
  BY <1>2, <1>3, <1>5, <1>6, ThenSound
<1> HIDE DEF first, last
<1>10. Sound(groups) /\ (AllHold(groups) => AllHold(group2) /\ AllHold(group5))
  BY <1>4, <1>9, ThenSound
<1> HIDE DEF groups
<1>11. Sound(all) /\ (AllHold(all) => AllHold(group2) /\ AllHold(group5))
  BY <1>9, <1>10, ThenSound
<1> HIDE DEF all
<1> DEFINE rest == Then(colours, draws)
<1>12. AllHold(all) => Sound(rest) /\ (AllHold(rest) => IsDrawn(FragmentMesh(f)))
  BY <1>7, <1>8, <1>11, ThenSound
<1> HIDE DEF rest
<1>13. /\ Sound(Then(all, rest))
       /\ AllHold(Then(all, rest)) => AllHold(all) /\ AllHold(rest)
  BY <1>11, <1>12, ThenSound
<1> QED BY <1>1, <1>12, <1>13 DEF all, groups, first, last, rest

(* A terrain is read inside its block of the core.                         *)
LEMMA TerrainStepsSound ==
  ASSUME NEW core \in Int, NEW at \in Nat, NEW textureCount \in Nat, NEW t, IsTerrain(t)
  PROVE  /\ Sound(TerrainSteps(core, at, textureCount, t))
         /\ AllHold(TerrainSteps(core, at, textureCount, t)) =>
              \A i \in DOMAIN t.fragments : IsDrawn(FragmentMesh(t.fragments[i]))
<1> DEFINE block == core - at
           table == <<t.table, 64 * t.count>>
           inside == RangeFits(<<at, 16>>, core)
           first == Bytes(at, 16, core)
           count == t.table >= 0 /\ t.count \in 0 .. kMaxTfragCount
           fits == RangeFits(table, block)
           whole == <<table, block>>
           header == <<Require("OffsetOutOfRange", inside, {first}),
                       Require("InvalidBlockHeader", count, {}),
                       Require("InvalidBlockHeader", fits, {whole})>>
           turns == [i \in DOMAIN t.fragments |-> TfragSteps(t.fragments[i], block - t.table, textureCount)]
           last == <<Require("EmptyMesh", TerrainTriangles(t) # <<>>, {})>>
<1>1. TerrainSteps(core, at, textureCount, t) = Then(header, Then(ForEach(turns), last))
  BY DEF TerrainSteps
<1>2. t.table \in Int /\ t.count \in Int /\ IsSequence(t.fragments)
  BY DEF IsTerrain
<1>3. inside => InRange(first)
  BY DEF InRange, RangeFits, Bytes
<1>4. count /\ fits => InRange(whole)
  BY <1>2 DEF InRange
<1>5. Sound(header)
  <2> HIDE DEF inside, first, count, fits, whole
  <2> QED BY <1>3, <1>4 DEF Require, Sound, IsSteps, FailuresNamed, Verdicts, Guarded
<1>6. ASSUME NEW i \in DOMAIN t.fragments
      PROVE  Sound(turns[i]) /\ (AllHold(turns[i]) => IsDrawn(FragmentMesh(t.fragments[i])))
  <2> DEFINE f == t.fragments[i]
             bytes == block - t.table
             head == <<Require("InvalidTfragHeader", f.data >= 0 /\ f.data < bytes, {})>>
  <2>1. IsFragment(f)
    BY <1>2, SequenceFacts DEF IsTerrain
  <2>2. bytes \in Int /\ bytes - f.data \in Int
    BY <2>1, <1>2 DEF IsFragment
  <2>3. /\ Sound(FragmentSteps(f, bytes - f.data, textureCount))
        /\ AllHold(FragmentSteps(f, bytes - f.data, textureCount)) => IsDrawn(FragmentMesh(f))
    <3> HIDE DEF bytes, f
    <3> QED BY <2>1, <2>2, FragmentStepsSound
  <2>4. Sound(head)
    BY StepSound DEF Verdicts
  <2>5. turns[i] = Then(head, FragmentSteps(f, bytes - f.data, textureCount))
    BY DEF TfragSteps
  <2> HIDE DEF head, f, bytes, turns
  <2> QED BY <2>3, <2>4, <2>5, ThenSound DEF f
<1>7. /\ Sound(ForEach(turns))
      /\ AllHold(ForEach(turns)) => \A i \in DOMAIN t.fragments : IsDrawn(FragmentMesh(t.fragments[i]))
  <2>1. Len(t.fragments) \in Nat /\ DOMAIN t.fragments = 1 .. Len(t.fragments)
    BY <1>2, SequenceFacts
  <2>2. turns = [i \in 1 .. Len(t.fragments) |-> turns[i]]
    BY <2>1
  <2> HIDE DEF turns
  <2> QED BY <2>1, <2>2, <1>6, ForEachSound
<1>8. Sound(last)
  BY StepSound DEF Verdicts
<1> HIDE DEF header, turns, last
<1> DEFINE rest == Then(ForEach(turns), last)
<1>9. Sound(rest) /\ (AllHold(rest) => AllHold(ForEach(turns)))
  BY <1>7, <1>8, ThenSound
<1> HIDE DEF rest
<1>10. Sound(Then(header, rest)) /\ (AllHold(Then(header, rest)) => AllHold(rest))
  BY <1>5, <1>9, ThenSound
<1> QED BY <1>1, <1>7, <1>9, <1>10 DEF rest

(* A list, as a sequence of its own elements.                              *)
LEMMA ListIsSeq ==
  ASSUME NEW s, IsSteps(s)
  PROVE  s \in Seq(Range(s)) /\ DOMAIN s = 1 .. Len(s) /\ Len(s) \in Nat
<1>1. Len(s) \in Nat /\ s = [i \in 1 .. Len(s) |-> s[i]] /\ DOMAIN s = 1 .. Len(s)
  BY DEF IsSteps
<1>2. \A i \in 1 .. Len(s) : s[i] \in Range(s)
  BY <1>1 DEF Range
<1> DEFINE n == Len(s)
<1> HIDE DEF n
<1>3. n \in Nat /\ s = [i \in 1 .. n |-> s[i]] /\ \A i \in 1 .. n : s[i] \in Range(s)
  BY <1>1, <1>2 DEF n
<1>4. s \in Seq(Range(s))
  BY <1>3, FunctionIsSeq
<1> QED BY <1>1, <1>4

(* Lists one after the other, and where their elements come from.          *)
LEMMA FlattenLists ==
  ASSUME NEW n \in Nat, NEW lists, lists = [i \in 1 .. n |-> lists[i]],
         \A i \in 1 .. n : IsSteps(lists[i])
  PROVE  /\ IsSteps(FlattenSeq(lists))
         /\ \A k \in DOMAIN FlattenSeq(lists) :
              \E i \in 1 .. n : \E j \in DOMAIN lists[i] : FlattenSeq(lists)[k] = lists[i][j]
<1> DEFINE S == UNION {Range(lists[i]) : i \in 1 .. n}
           flat == FlattenSeq(lists)
<1>1. \A i \in 1 .. n : lists[i] \in Seq(S)
  <2> TAKE i \in 1 .. n
  <2>1. lists[i] \in Seq(Range(lists[i])) /\ DOMAIN lists[i] = 1 .. Len(lists[i])
    BY ListIsSeq
  <2>2. \A j \in DOMAIN lists[i] : lists[i][j] \in S
    BY DEF Range
  <2> HIDE DEF S
  <2> QED BY <2>1, <2>2, SeqWiden
<1>2. lists \in Seq(Seq(S))
  <2> HIDE DEF S
  <2> QED BY <1>1, FunctionIsSeq
<1>3. flat \in Seq(S)
  <2> HIDE DEF S
  <2> QED BY <1>2, FlattenTyped
<1>4. IsSteps(flat)
  <2> HIDE DEF S, flat
  <2> QED BY <1>3, LenProperties DEF IsSteps
<1>5. ASSUME NEW k \in DOMAIN flat PROVE \E i \in 1 .. n : \E j \in DOMAIN lists[i] : flat[k] = lists[i][j]
  <2>1. flat[k] \in S
    <3> HIDE DEF S, flat
    <3> QED BY <1>3, ElementsOfSeq
  <2> HIDE DEF flat
  <2>2. PICK i \in 1 .. n : flat[k] \in Range(lists[i])
    BY <2>1
  <2> QED BY <2>2 DEF Range
<1> QED BY <1>4, <1>5

(* The first of each of the elements of a list.                            *)
LEMMA FirstOfEachFacts ==
  ASSUME NEW s, IsSteps(s)
  PROVE  /\ IsSteps(FirstOfEach(s))
         /\ \A k \in DOMAIN FirstOfEach(s) : \E i \in DOMAIN s : FirstOfEach(s)[k] = s[i]
<1> DEFINE places == {i \in DOMAIN s : \A j \in 1 .. i - 1 : s[j] # s[i]}
           S == Range(s)
<1>1. FirstOfEach(s) = Select(s, places)
  BY DEF FirstOfEach
<1> HIDE DEF places, S
<1>2. s \in Seq(S)
  BY ListIsSeq DEF S
<1>3. /\ Select(s, places) \in Seq(S)
      /\ \A k \in DOMAIN Select(s, places) :
           \E i \in DOMAIN s : i \in places /\ Select(s, places)[k] = s[i]
  BY <1>2, SelectFacts
<1>4. IsSteps(Select(s, places))
  BY <1>3, LenProperties DEF IsSteps
<1> QED BY <1>1, <1>3, <1>4

----------------------------------------------------------------------------
(* What an accepted terrain is drawn as.                                   *)
LEMMA TerrainBatchFacts ==
  ASSUME NEW t, IsTerrain(t), \A i \in DOMAIN t.fragments : IsDrawn(FragmentMesh(t.fragments[i]))
  PROVE  /\ IsSteps(TerrainBatches(t))
         /\ \A i \in DOMAIN TerrainBatches(t) : TerrainBatches(t)[i].kind = "terrain"
<1> DEFINE mesh(i) == FragmentMesh(t.fragments[i])
           n == Len(t.fragments)
           lists == [i \in DOMAIN t.fragments |-> MeshMaterials(mesh(i))]
<1>1. n \in Nat /\ DOMAIN t.fragments = 1 .. n
  BY SequenceFacts DEF IsTerrain
<1>2. ASSUME NEW m, IsDrawn(m) PROVE IsSteps(MeshMaterials(m))
  <2> DEFINE strips == [i \in DOMAIN m.strips |-> [k \in 1 .. m.strips[i].count - 2 |-> ActiveMaterial(m, i)]]
             k == Len(m.strips)
  <2>1. k \in Nat /\ DOMAIN m.strips = 1 .. k /\ \A i \in 1 .. k : m.strips[i].count \in Nat
    BY <1>2 DEF IsDrawn, IsMesh, IsSteps
  <2>2. ASSUME NEW i \in 1 .. k PROVE IsSteps(strips[i])
    <3> DEFINE materials == [j \in 1 .. m.strips[i].count - 2 |-> ActiveMaterial(m, i)]
               long == IF m.strips[i].count >= 2 THEN m.strips[i].count - 2 ELSE 0
    <3>1. long \in Nat /\ 1 .. long = 1 .. m.strips[i].count - 2
      <4>1. m.strips[i].count \in Nat
        BY <2>1
      <4> DEFINE c == m.strips[i].count
      <4> HIDE DEF c
      <4>2. c \in Nat
        BY <4>1 DEF c
      <4>3. (IF c >= 2 THEN c - 2 ELSE 0) \in Nat /\ 1 .. (IF c >= 2 THEN c - 2 ELSE 0) = 1 .. c - 2
        <5>1. CASE c >= 2
          BY <5>1, <4>2
        <5>2. CASE ~(c >= 2)
          <6>1. 1 .. c - 2 = {} /\ 1 .. 0 = {}
            BY <5>2, <4>2
          <6> QED BY <6>1, <5>2
        <5> QED BY <5>1, <5>2
      <4> QED BY <4>3 DEF c
    <3>2. materials = [j \in 1 .. long |-> materials[j]]
      BY <3>1
    <3>3. strips[i] = materials
      BY <2>1
    <3> HIDE DEF materials, long
    <3>4. Len(materials) = long
      BY <3>1, <3>2, LenOfFunction
    <3> HIDE DEF strips
    <3> QED BY <3>1, <3>2, <3>3, <3>4 DEF IsSteps
  <2>3. strips = [i \in 1 .. k |-> strips[i]] /\ MeshMaterials(m) = FlattenSeq(strips)
    BY <2>1 DEF MeshMaterials
  <2> HIDE DEF strips, k
  <2> QED BY <2>1, <2>2, <2>3, FlattenLists
<1>3. lists = [i \in 1 .. n |-> lists[i]] /\ \A i \in 1 .. n : IsSteps(lists[i])
  <2>1. \A i \in 1 .. n : lists[i] = MeshMaterials(mesh(i)) /\ IsDrawn(mesh(i))
    BY <1>1
  <2>2. lists = [i \in 1 .. n |-> lists[i]]
    BY <1>1
  <2> HIDE DEF lists, mesh
  <2> QED BY <2>1, <2>2, <1>2
<1>4. TerrainTriangles(t) = FlattenSeq(lists)
  BY DEF TerrainTriangles
<1> HIDE DEF lists, n
<1>5. IsSteps(TerrainTriangles(t))
  BY <1>1, <1>3, <1>4, FlattenLists
<1> DEFINE order == FirstOfEach(TerrainTriangles(t))
           batches == TerrainBatches(t)
<1>6. IsSteps(order)
  BY <1>5, FirstOfEachFacts
<1>7. DOMAIN order = 1 .. Len(order) /\ Len(order) \in Nat
  BY <1>6 DEF IsSteps
<1>8. /\ DOMAIN batches = DOMAIN order /\ batches = [i \in DOMAIN order |-> batches[i]]
      /\ \A i \in DOMAIN order : batches[i].kind = "terrain"
  BY DEF TerrainBatches, BatchPerMaterial
<1> HIDE DEF order, batches
<1> DEFINE k == Len(order)
<1> HIDE DEF k
<1>9. k \in Nat /\ batches = [i \in 1 .. k |-> batches[i]]
  BY <1>7, <1>8 DEF k
<1>10. Len(batches) = k
  BY <1>9, LenOfFunction
<1>11. IsSteps(batches)
  BY <1>9, <1>10 DEF IsSteps
<1> QED BY <1>8, <1>11 DEF batches

----------------------------------------------------------------------------
(* Ties and shrubs.                                                        *)

(* Ties: the writes of a packet are finitely many.                         *)
LEMMA SortedWritesFacts ==
  ASSUME NEW p, p.regular \in Nat, p.morph \in Nat
  PROVE  IsSteps(SortedWrites(p))
<1> DEFINE vertex(i) == IF i <= Len(p.writes) THEN p.writes[i] ELSE [write |-> 0, write2 |-> 0]
           own(i) == {vertex(i).write} \union (IF vertex(i).write2 # 0 THEN {vertex(i).write2} ELSE {})
           n == p.regular + p.morph
           family == [i \in 1 .. n |-> own(i)]
           all == {own(i) : i \in 1 .. n}
<1>1. n \in Nat
  OBVIOUS
<1> HIDE DEF n
<1>2. IsFiniteSet(all)
  <2>1. all = {family[i] : i \in 1 .. n} /\ family = [i \in 1 .. n |-> family[i]]
    OBVIOUS
  <2> HIDE DEF all, family
  <2> QED BY <2>1, <1>1, ListIsFinite
<1>3. ASSUME NEW T \in all PROVE IsFiniteSet(T)
  <2>1. PICK i \in 1 .. n : T = own(i)
    BY <1>3
  <2> DEFINE a == vertex(i).write
             b == vertex(i).write2
  <2>2. T = {a} \/ T = {a} \union {b}
    BY <2>1
  <2> HIDE DEF a, b
  <2>3. IsFiniteSet({a})
    BY FS_Singleton
  <2>4. IsFiniteSet({b})
    BY FS_Singleton
  <2>5. IsFiniteSet({a} \union {b})
    BY <2>3, <2>4, FS_Union
  <2> QED BY <2>2, <2>3, <2>5
<1>4. WriteAddresses(p) = UNION all
  BY DEF WriteAddresses, n
<1> HIDE DEF all
<1>5. IsFiniteSet(WriteAddresses(p))
  BY <1>2, <1>3, <1>4, FS_UNION
<1> DEFINE k == Cardinality(WriteAddresses(p))
<1>6. k \in Nat
  BY <1>5, FS_CardinalityType
<1> DEFINE S == WriteAddresses(p)
           least(i) == CHOOSE c \in S : Cardinality({d \in S : d < c}) = i - 1
           list == [i \in 1 .. k |-> least(i)]
<1>7. SortedWrites(p) = list /\ list = [i \in 1 .. k |-> list[i]]
  <2>1. Ascending(S) = list
    BY DEF Ascending
  <2>2. list = [i \in 1 .. k |-> list[i]]
    <3> HIDE DEF least
    <3> QED OBVIOUS
  <2> HIDE DEF list
  <2> QED BY <2>1, <2>2 DEF SortedWrites
<1> HIDE DEF k, list
<1>8. Len(list) = k
  BY <1>6, <1>7, LenOfFunction
<1> QED BY <1>6, <1>7, <1>8 DEF IsSteps

(* The primitives of a replayed packet are a list.                         *)
LEMMA ReplayFacts ==
  ASSUME NEW p, IsTiePacket(p), NEW writes, IsSteps(writes)
  PROVE  IsSteps(ReplayOf(p, writes).primitives)
<1> DEFINE Count == {p.strips[i].count : i \in 1 .. Len(p.strips)}
           Primitive == [material : Int, vertices : Int, expected : Count]
           S == [next : Int, strip : Nat, vertex : Nat, adGif : 1 .. 4, valid : BOOLEAN,
                 material : Int, primitives : Seq(Primitive)]
           n == Len(p.strips) + Len(writes) + 4
           start == [next |-> 6, strip |-> 0, vertex |-> 0, adGif |-> 1, valid |-> TRUE,
                     material |-> p.src[1] \div MaterialUnit, primitives |-> <<>>]
           next == [i \in 1 .. n |-> [x \in S |-> ReplayStep(p, writes, x)]]
           upTo == CHOOSE f : f = [i \in 0 .. n |-> IF i = 0 THEN start ELSE ReplayStep(p, writes, f[i - 1])]
<1>1. n \in Nat /\ Len(p.strips) \in Nat
  BY SequenceFacts DEF IsTiePacket, IsSteps
<1>2. p.src \in [1 .. 4 -> Int]
  BY DEF IsTiePacket
<1>3. start \in S
  <2>1. p.src[1] \div MaterialUnit \in Int
    BY <1>2 DEF MaterialUnit
  <2> DEFINE m == p.src[1] \div MaterialUnit
  <2> HIDE DEF Primitive, m
  <2>2. <<>> \in Seq(Primitive) /\ m \in Int
    BY <2>1, EmptySeq DEF m
  <2>3. [next |-> 6, strip |-> 0, vertex |-> 0, adGif |-> 1, valid |-> TRUE,
         material |-> m, primitives |-> <<>>] \in S
    BY <2>2
  <2> QED BY <2>3 DEF m
<1>4. ASSUME NEW r \in S PROVE ReplayStep(p, writes, r) \in S
  <2> DEFINE stripHere == r.strip < Len(p.strips) /\ p.strips[r.strip + 1].gif = r.next
             vertexHere == r.vertex < Len(writes) /\ writes[r.vertex + 1] = r.next
             materialHere == r.adGif < 4 /\ p.dest[r.adGif] = r.next
             last == Len(r.primitives)
             begun == [material |-> r.material, vertices |-> 0, expected |-> p.strips[r.strip + 1].count]
             source == p.src[r.adGif + 1]
             grown == [r.primitives EXCEPT ![last].vertices = @ + 1]
             done == r.strip = Len(p.strips) /\ r.vertex = Len(writes)
             whole == source >= 0 /\ source % MaterialUnit = 0
             a == [r EXCEPT !.strip = @ + 1, !.next = @ + 1, !.primitives = Append(@, begun)]
             b == [r EXCEPT !.vertex = @ + 1, !.next = @ + 3, !.primitives = grown]
             c == [r EXCEPT !.adGif = @ + 1, !.next = @ + 6, !.material = source \div MaterialUnit]
             d == [r EXCEPT !.valid = FALSE]
  <2>0. /\ r.next \in Int /\ r.strip \in Nat /\ r.vertex \in Nat /\ r.adGif \in 1 .. 4
        /\ r.material \in Int /\ r.primitives \in Seq(Primitive)
    <3> HIDE DEF Primitive
    <3> QED OBVIOUS
  <2>1. stripHere => a \in S
    <3> SUFFICES ASSUME stripHere PROVE a \in S
      OBVIOUS
    <3>1. r.strip + 1 \in 1 .. Len(p.strips)
      BY <1>1, <2>0
    <3>2. begun \in Primitive
      <4>1. p.strips[r.strip + 1].count \in Count
        BY <3>1
      <4> HIDE DEF Count
      <4> QED BY <4>1, <2>0
    <3> DEFINE all == Append(r.primitives, begun)
    <3> HIDE DEF begun, Primitive
    <3>3. all \in Seq(Primitive)
      BY <3>2, <2>0, AppendProperties
    <3>4. a = [r EXCEPT !.strip = @ + 1, !.next = @ + 1, !.primitives = all]
      OBVIOUS
    <3>5. r.strip + 1 \in Nat /\ r.next + 1 \in Int
      BY <2>0
    <3> HIDE DEF all, a
    <3> QED BY <3>3, <3>4, <3>5
  <2>2. last > 0 => b \in S
    <3> SUFFICES ASSUME last > 0 PROVE b \in S
      OBVIOUS
    <3>1. last \in 1 .. Len(r.primitives) /\ r.primitives[last] \in Primitive
      <4> HIDE DEF Primitive
      <4>1. Len(r.primitives) \in Nat
        BY <2>0, ElementsOfSeq
      <4> QED BY <4>1, <2>0, ElementsOfSeq
    <3> DEFINE e == [r.primitives[last] EXCEPT !.vertices = @ + 1]
    <3>2. e \in Primitive
      <4> HIDE DEF Count
      <4> QED BY <3>1
    <3> HIDE DEF Primitive
    <3>3. grown = [r.primitives EXCEPT ![last] = e]
      BY <2>0, <3>1, ElementsOfSeq
    <3> HIDE DEF e, last
    <3>4. grown \in Seq(Primitive)
      BY <2>0, <3>1, <3>2, <3>3, ExceptSeq
    <3>5. r.vertex + 1 \in Nat /\ r.next + 3 \in Int
      BY <2>0
    <3> HIDE DEF grown
    <3> QED BY <3>4, <3>5
  <2>3. materialHere => c \in S
    <3> SUFFICES ASSUME materialHere PROVE c \in S
      OBVIOUS
    <3>1. r.adGif + 1 \in 1 .. 4 /\ source \in Int
      BY <2>0, <1>2
    <3>2. source \div MaterialUnit \in Int
      <4> HIDE DEF source
      <4> QED BY <3>1 DEF MaterialUnit
    <3> DEFINE k == source \div MaterialUnit
    <3>3. r.next + 6 \in Int /\ k \in Int
      BY <2>0, <3>2
    <3> HIDE DEF k, Primitive
    <3>4. [r EXCEPT !.adGif = @ + 1, !.next = @ + 6, !.material = k] \in S
      BY <3>1, <3>3
    <3> QED BY <3>4 DEF k
  <2>4. d \in S
    <3> HIDE DEF Primitive
    <3> QED OBVIOUS
  <2>5. ReplayStep(p, writes, r) =
          IF ~r.valid \/ done THEN r ELSE IF stripHere THEN a ELSE IF vertexHere /\ last > 0 THEN b
          ELSE IF ~vertexHere /\ materialHere /\ whole THEN c ELSE d
    <3>1. b = [r EXCEPT !.vertex = @ + 1, !.next = @ + 3, !.primitives[last].vertices = @ + 1]
      OBVIOUS
    <3> HIDE DEF b
    <3> QED BY <3>1 DEF ReplayStep
  <2> HIDE DEF S, a, b, c, d, stripHere, vertexHere, materialHere, last, done, whole
  <2> QED BY <2>1, <2>2, <2>3, <2>4, <2>5
<1>5. next \in [1 .. n -> [S -> S]]
  <2> HIDE DEF S, n, start
  <2> QED BY <1>1, <1>4
<1>6. PICK g : IsRun(g, S, n, start, next)
  <2> HIDE DEF S, n, start, next
  <2> QED BY <1>1, <1>3, <1>5, RunExists DEF IsLoop
<1>7. g = [i \in 0 .. n |-> IF i = 0 THEN start ELSE ReplayStep(p, writes, g[i - 1])]
  <2>1. g \in [0 .. n -> S] /\ g[0] = start /\ \A i \in 1 .. n : g[i] = next[i][g[i - 1]]
    BY <1>6 DEF IsRun
  <2> HIDE DEF S, n, start
  <2>2. \A i \in 0 .. n : i # 0 => i \in 1 .. n /\ i - 1 \in 0 .. n
    BY <1>1
  <2>3. ASSUME NEW i \in 1 .. n PROVE g[i] = ReplayStep(p, writes, g[i - 1])
    <3>1. g[i - 1] \in S /\ next[i] = [x \in S |-> ReplayStep(p, writes, x)]
      BY <2>1, <2>2, <1>1
    <3> HIDE DEF next
    <3> QED BY <2>1, <3>1
  <2>4. g = [i \in 0 .. n |-> g[i]]
    BY <2>1
  <2> HIDE DEF next
  <2> QED BY <2>1, <2>2, <2>3, <2>4
<1>8. upTo = [i \in 0 .. n |-> IF i = 0 THEN start ELSE ReplayStep(p, writes, upTo[i - 1])]
  <2> HIDE DEF S, n, start
  <2> QED BY <1>7
<1> HIDE DEF upTo
<1>9. upTo[0] = start /\ \A i \in 1 .. n : upTo[i] = ReplayStep(p, writes, upTo[i - 1])
  <2> HIDE DEF S, n, start
  <2>1. 0 \in 0 .. n /\ \A i \in 1 .. n : i \in 0 .. n /\ i # 0
    BY <1>1
  <2> QED BY <1>8, <2>1
<1>10. upTo[0] \in S /\ \A i \in 1 .. n : upTo[i - 1] \in S => upTo[i] \in S
  <2> HIDE DEF S, n, start
  <2> QED BY <1>1, <1>3, <1>4, <1>9
<1>11. \A i \in 0 .. n : upTo[i] \in S
  <2> HIDE DEF S, n, start
  <2> QED BY <1>1, <1>10, RunStaysIn
<1>12. upTo[n].primitives \in Seq(Primitive)
  <2>1. upTo[n] \in S
    <3> HIDE DEF S, n
    <3> QED BY <1>1, <1>11
  <2> HIDE DEF Primitive
  <2> QED BY <2>1
<1>13. ReplayOf(p, writes) = upTo[n]
  BY DEF ReplayOf, upTo
<1> HIDE DEF Primitive, n
<1> QED BY <1>12, <1>13, LenProperties DEF IsSteps

(* A class's texture slot, and the texture it names.                       *)
LEMMA SlotReads ==
  ASSUME NEW class, class.textures \in Seq(Nat), NEW material, NEW textureCount \in Nat,
         MaterialIsValid(class, material, textureCount)
  PROVE  /\ InRange(Element(material, Len(class.textures)))
         /\ InRange(Element(class.textures[material + 1], textureCount))
<1>1. /\ Len(class.textures) \in Nat /\ DOMAIN class.textures = 1 .. Len(class.textures)
      /\ \A i \in DOMAIN class.textures : class.textures[i] \in Nat
  BY ElementsOfSeq
<1>2. /\ material \in 0 .. Len(class.textures) - 1
      /\ class.textures[material + 1] < textureCount
  BY DEF MaterialIsValid
<1>3. material \in Nat /\ material + 1 <= Len(class.textures)
      /\ material + 1 \in DOMAIN class.textures
  BY <1>1, <1>2
<1>4. class.textures[material + 1] \in Nat
  BY <1>1, <1>3
<1> DEFINE texture == class.textures[material + 1]
<1> HIDE DEF texture
<1>5. texture \in Nat /\ texture < textureCount
  BY <1>2, <1>4 DEF texture
<1>6. InRange(Element(texture, textureCount))
  BY <1>5 DEF InRange, RangeFits, Element
<1>7. InRange(Element(material, Len(class.textures)))
  BY <1>1, <1>3 DEF InRange, RangeFits, Element
<1> QED BY <1>6, <1>7 DEF texture

(* A primitive of a tie packet: its vertices were written.                 *)
LEMMA PrimitiveStepsSound ==
  ASSUME NEW class, class.textures \in Seq(Nat), NEW primitive, NEW textureCount \in Nat
  PROVE  Sound(PrimitiveSteps(class, primitive, textureCount))
<1> DEFINE holds == /\ primitive.vertices >= 3 /\ primitive.expected \in {0, primitive.vertices}
                    /\ MaterialIsValid(class, primitive.material, textureCount)
           reads == {Element(primitive.material, Len(class.textures)),
                     Element(class.textures[primitive.material + 1], textureCount)}
<1>1. holds => \A r \in reads : InRange(r)
  BY SlotReads
<1>2. PrimitiveSteps(class, primitive, textureCount) = <<Require("InvalidClass", holds, reads)>>
  BY DEF PrimitiveSteps
<1> HIDE DEF holds, reads
<1> QED BY <1>1, <1>2, StepSound DEF Verdicts

(* All the primitives a replayed packet draws.                             *)
LEMMA ReplayStepsSound ==
  ASSUME NEW class, class.textures \in Seq(Nat), NEW replay, IsSteps(replay.primitives),
         NEW textureCount \in Nat
  PROVE  Sound(ReplaySteps(class, replay, textureCount))
<1> DEFINE first == <<Require("InvalidClass", replay.valid, {})>>
           turns == [i \in DOMAIN replay.primitives |->
                       PrimitiveSteps(class, replay.primitives[i], textureCount)]
           n == Len(replay.primitives)
<1>1. n \in Nat /\ DOMAIN replay.primitives = 1 .. n
  BY DEF IsSteps
<1>2. Sound(first)
  BY StepSound DEF Verdicts
<1>3. \A i \in 1 .. n : Sound(turns[i])
  BY <1>1, PrimitiveStepsSound
<1>4. turns = [i \in 1 .. n |-> turns[i]]
  BY <1>1
<1>5. ReplaySteps(class, replay, textureCount) = Then(first, ForEach(turns))
  BY DEF ReplaySteps
<1> HIDE DEF first, turns, n
<1>6. Sound(ForEach(turns))
  BY <1>1, <1>3, <1>4, ForEachSound
<1> QED BY <1>2, <1>5, <1>6, ThenSound

(* A packet of a tie class is read inside the core.                        *)
LEMMA TiePacketStepsSound ==
  ASSUME NEW core \in Int, NEW class, IsTieClass(class), NEW p, IsTiePacket(p),
         NEW textureCount \in Nat
  PROVE  Sound(TiePacketSteps(core, class, p, textureCount))
<1> DEFINE body == class.at + class.body.packetsAt + p.data
           vertices == <<body + 16 * p.vertsAt, 16 * p.vertsSize>>
           strips == <<body + 44, 4 * Len(p.strips)>>
           regular == 16 * p.regular
           morph == 24 * p.morph
           present == p.data >= 0 /\ p.vertsSize # 0
           headerFits == RangeFits(<<body, 44>>, core)
           header == Bytes(body, 44, core)
           stripsFit == RangeFits(strips, core)
           stripsRead == <<strips, core>>
           verticesFit == RangeFits(vertices, core)
           enough == regular + morph <= vertices[2]
           first == Bytes(vertices[1], regular, core)
           second == Bytes(vertices[1] + regular, morph, core)
           unit == p.src[1] >= 0 /\ p.src[1] % MaterialUnit = 0
           fits ==
             <<Require("InvalidClass", present, {}),
               Require("InvalidClass", headerFits, {header}),
               Require("InvalidClass", stripsFit, {stripsRead}),
               Require("InvalidClass", verticesFit, {}),
               Require("InvalidClass", enough, {first, second}),
               Require("InvalidClass", unit, {})>>
           replay == ReplaySteps(class, Replay(p), textureCount)
<1>1. TiePacketSteps(core, class, p, textureCount) = Then(fits, replay)
  BY DEF TiePacketSteps
<1>2. /\ class.at \in Nat /\ class.body.packetsAt \in Nat /\ class.textures \in Seq(Nat)
      /\ p.data \in Int /\ p.vertsAt \in Nat /\ p.vertsSize \in Nat
      /\ p.regular \in Nat /\ p.morph \in Nat /\ Len(p.strips) \in Nat
  BY SequenceFacts DEF IsTieClass, IsTiePacket
<1>3. present => body \in Nat
  BY <1>2, SMTT(30)
<1> HIDE DEF body
<1>4. /\ present => (headerFits => InRange(header)) /\ (stripsFit => InRange(stripsRead))
      /\ present /\ verticesFit /\ enough => InRange(first) /\ InRange(second)
  <2> HIDE DEF present
  <2>1. present /\ headerFits => InRange(header)
    BY <1>3 DEF InRange, RangeFits, Bytes
  <2>2. present /\ stripsFit => InRange(stripsRead)
    BY <1>2, <1>3 DEF InRange, RangeFits
  <2> DEFINE at == body + 16 * p.vertsAt
             size == 16 * p.vertsSize
  <2>3. present => at \in Nat /\ size \in Nat /\ regular \in Nat /\ morph \in Nat
    <3> HIDE DEF fits, replay
    <3>1. 16 * p.vertsAt \in Nat /\ 16 * p.vertsSize \in Nat /\ 16 * p.regular \in Nat /\ 24 * p.morph \in Nat
      BY <1>2, SMTT(30)
    <3> QED BY <3>1, <1>3
  <2>4. vertices[1] = at /\ vertices[2] = size /\ (verticesFit => at + size <= core)
    BY DEF RangeFits
  <2> HIDE DEF at, size, regular, morph, vertices, verticesFit
  <2>5. present /\ verticesFit /\ enough => InRange(first)
    BY <2>3, <2>4 DEF InRange, RangeFits, Bytes
  <2>6. present /\ verticesFit /\ enough => InRange(second)
    BY <2>3, <2>4 DEF InRange, RangeFits, Bytes
  <2> QED BY <2>1, <2>2, <2>5, <2>6
<1>5. Sound(fits)
  <2> HIDE DEF present, headerFits, header, stripsFit, stripsRead, verticesFit, enough, first, second, unit
  <2> QED BY <1>4 DEF Require, Sound, IsSteps, FailuresNamed, Verdicts, Guarded
<1>6. Sound(replay)
  <2>1. IsSteps(SortedWrites(p))
    BY <1>2, SortedWritesFacts
  <2>2. IsSteps(Replay(p).primitives)
    BY <2>1, ReplayFacts DEF Replay
  <2> QED BY <2>2, <1>2, ReplayStepsSound
<1> HIDE DEF fits, replay
<1> QED BY <1>1, <1>5, <1>6, ThenSound

(* A tie class: its header, its texture slots and its packets.             *)
LEMMA TieClassStepsSound ==
  ASSUME NEW core \in Int, NEW class, IsTieClass(class), NEW textureCount \in Nat
  PROVE  Sound(TieClassSteps(core, class, textureCount))
<1> DEFINE packets == <<class.at + class.body.packetsAt, 16 * Len(class.body.packets)>>
           n == Len(class.body.packets)
           fits == RangeFits(<<class.at, 112>>, core)
           header == Bytes(class.at, 112, core)
           scale == class.body.scale
           packetsFit == RangeFits(packets, core)
           table == <<packets, core>>
           first == <<Require("InvalidClass", fits, {header}), Require("InvalidClass", scale, {}),
                      Require("InvalidClass", packetsFit, {table})>>
           turns == [i \in DOMAIN class.body.packets |->
                       TiePacketSteps(core, class, class.body.packets[i], textureCount)]
<1>1. class.at \in Nat /\ class.body.packetsAt \in Nat
  BY DEF IsTieClass
<1>2. /\ n \in Nat /\ DOMAIN class.body.packets = 1 .. n
      /\ \A i \in 1 .. n : IsTiePacket(class.body.packets[i])
  BY SequenceFacts DEF IsTieClass
<1>3. fits => InRange(header)
  BY <1>1 DEF InRange, RangeFits, Bytes
<1>4. packetsFit => InRange(table)
  BY <1>1, <1>2 DEF InRange, RangeFits
<1>5. Sound(first)
  <2> HIDE DEF fits, header, scale, packetsFit, table
  <2> QED BY <1>3, <1>4 DEF Require, Sound, IsSteps, FailuresNamed, Verdicts, Guarded
<1>6. Sound(ForEach(turns))
  <2>1. \A i \in 1 .. n : Sound(turns[i])
    BY <1>2, TiePacketStepsSound
  <2>2. turns = [i \in 1 .. n |-> turns[i]]
    BY <1>2
  <2> HIDE DEF turns, n
  <2> QED BY <1>2, <2>1, <2>2, ForEachSound
<1>7. TieClassSteps(core, class, textureCount) = Then(first, ForEach(turns))
  BY DEF TieClassSteps
<1> HIDE DEF first, turns
<1> QED BY <1>5, <1>6, <1>7, ThenSound

----------------------------------------------------------------------------
(* Shrubs: what a replay drew has materials the class has.                 *)
LEMMA ShrubReplayFacts ==
  ASSUME NEW class, NEW p, NEW textureCount, p.tags \in Nat, p.materials \in Nat, p.vertices \in Nat
  PROVE  /\ IsSteps(ShrubReplay(class, p, textureCount).drawn)
         /\ \A d \in Range(ShrubReplay(class, p, textureCount).drawn) :
              MaterialIsValid(class, d.material, textureCount)
<1> DEFINE Prim == {4} \union {p.primTags[i].prim : i \in 1 .. p.tags}
           Slot == {-1} \union {p.textureTags[i].slot : i \in 1 .. p.materials}
           Drawn == {d \in [material : Slot, vertices : Int] : MaterialIsValid(class, d.material, textureCount)}
           S == [next : Int, tag : Nat, texture : Nat, vertex : Nat, prim : Prim, material : Slot,
                 pending : Int, valid : BOOLEAN, done : BOOLEAN, drawn : Seq(Drawn)]
           n == p.tags + p.materials + p.vertices
           start == [next |-> 0, tag |-> 0, texture |-> 0, vertex |-> 0, prim |-> 4, material |-> -1,
                     pending |-> 0, valid |-> TRUE, done |-> FALSE, drawn |-> <<>>]
           next == [i \in 1 .. n |-> [x \in S |-> ShrubStep(class, p, textureCount, x)]]
           upTo == CHOOSE f : f = [i \in 0 .. n |->
                     IF i = 0 THEN start ELSE ShrubStep(class, p, textureCount, f[i - 1])]
<1>1. n \in Nat
  OBVIOUS
<1>2. start \in S
  <2>1. 4 \in Prim /\ -1 \in Slot
    OBVIOUS
  <2> HIDE DEF Prim, Slot, Drawn
  <2>2. <<>> \in Seq(Drawn)
    BY EmptySeq
  <2> QED BY <2>1, <2>2
<1>3. ASSUME NEW s \in S PROVE Flush(class, textureCount, s) \in S
  <2>0. s.pending \in Int /\ s.drawn \in Seq(Drawn) /\ s.material \in Slot
    <3> HIDE DEF Prim, Slot, Drawn
    <3> QED OBVIOUS
  <2> DEFINE d == [material |-> s.material, vertices |-> 3 * Triangles(s.pending, s.prim)]
             a == [s EXCEPT !.pending = 0]
             b == [s EXCEPT !.valid = FALSE]
             c == [s EXCEPT !.pending = 0, !.drawn = Append(@, d)]
  <2>1. a \in S /\ b \in S
    <3> HIDE DEF Prim, Slot, Drawn
    <3> DEFINE none == 0
    <3>1. none \in Int
      OBVIOUS
    <3> HIDE DEF none
    <3>2. [s EXCEPT !.pending = none] \in S
      BY <3>1
    <3>3. b \in S
      OBVIOUS
    <3> QED BY <3>2, <3>3 DEF none
  <2>2. MaterialIsValid(class, s.material, textureCount) => c \in S
    <3> SUFFICES ASSUME MaterialIsValid(class, s.material, textureCount) PROVE c \in S
      OBVIOUS
    <3>1. Triangles(s.pending, s.prim) \in Int
      BY <2>0 DEF Triangles
    <3>2. d \in Drawn
      <4> HIDE DEF Slot
      <4> QED BY <2>0, <3>1
    <3> DEFINE all == Append(s.drawn, d)
    <3> HIDE DEF d, Drawn, Slot, Prim
    <3>3. all \in Seq(Drawn)
      BY <2>0, <3>2, AppendProperties
    <3>4. c = [s EXCEPT !.pending = 0, !.drawn = all]
      OBVIOUS
    <3> DEFINE none == 0
    <3>5. none \in Int
      OBVIOUS
    <3> HIDE DEF all, none
    <3>6. [s EXCEPT !.pending = none, !.drawn = all] \in S
      BY <3>3, <3>5
    <3> HIDE DEF c, S
    <3> QED BY <3>4, <3>6 DEF none
  <2>3. Flush(class, textureCount, s) \in {a, b} \/
        (MaterialIsValid(class, s.material, textureCount) /\ Flush(class, textureCount, s) = c)
    BY DEF Flush
  <2> HIDE DEF S, a, b, c
  <2> QED BY <2>1, <2>2, <2>3
<1>4. ASSUME NEW x \in S PROVE ShrubStep(class, p, textureCount, x) \in S
  <2> DEFINE flushed == Flush(class, textureCount, x)
             primHere == x.tag < p.tags /\ p.primTags[x.tag + 1].at = x.next
             textureHere == x.texture < p.materials /\ p.textureTags[x.texture + 1].at = x.next
             vertexAt(address) == x.vertex < p.vertices /\ p.offsets[x.vertex + 1] = address
             over == ~x.valid \/ x.done \/ (x.tag = p.tags /\ x.texture = p.materials /\ x.vertex = p.vertices)
             a == [flushed EXCEPT !.prim = p.primTags[x.tag + 1].prim, !.tag = @ + 1, !.next = @ + 1]
             b == [flushed EXCEPT !.material = p.textureTags[x.texture + 1].slot,
                                  !.texture = @ + 1, !.next = @ + 5]
             c == [x EXCEPT !.pending = @ + 1, !.vertex = @ + 1, !.next = @ + 3]
             d == [x EXCEPT !.done = TRUE]
             e == [x EXCEPT !.valid = FALSE]
  <2>0. x.tag \in Nat /\ x.texture \in Nat /\ flushed \in S
    <3>1. x.tag \in Nat /\ x.texture \in Nat
      <4> HIDE DEF Prim, Slot, Drawn
      <4> QED OBVIOUS
    <3> HIDE DEF S
    <3> QED BY <3>1, <1>3
  <2> HIDE DEF flushed
  <2>1. primHere => a \in S
    <3> SUFFICES ASSUME primHere PROVE a \in S
      OBVIOUS
    <3> DEFINE prim == p.primTags[x.tag + 1].prim
    <3>1. prim \in Prim
      <4> DEFINE k == x.tag + 1
      <4>1. k \in 1 .. p.tags
        <5> HIDE DEF S, Prim, Slot, Drawn
        <5> QED BY <2>0
      <4> HIDE DEF k
      <4>2. p.primTags[k].prim \in Prim
        BY <4>1
      <4> QED BY <4>2 DEF k
    <3> DEFINE tag == flushed.tag + 1
               at == flushed.next + 1
    <3>2. tag \in Nat /\ at \in Int
      <4> HIDE DEF prim, Prim, Slot, Drawn
      <4> QED BY <2>0, SMTT(30)
    <3> HIDE DEF prim, tag, at, Prim, Slot, Drawn
    <3>3. [flushed EXCEPT !.prim = prim, !.tag = tag, !.next = at] \in S
      BY <3>1, <3>2, <2>0
    <3> QED BY <3>3 DEF prim, tag, at
  <2>2. textureHere => b \in S
    <3> SUFFICES ASSUME textureHere PROVE b \in S
      OBVIOUS
    <3> DEFINE slot == p.textureTags[x.texture + 1].slot
    <3>1. slot \in Slot
      <4> DEFINE k == x.texture + 1
      <4>1. k \in 1 .. p.materials
        BY <2>0, SMTT(30)
      <4> HIDE DEF k
      <4>2. p.textureTags[k].slot \in Slot
        BY <4>1
      <4> QED BY <4>2 DEF k
    <3> DEFINE texture == flushed.texture + 1
               at == flushed.next + 5
    <3>2. texture \in Nat /\ at \in Int
      <4> HIDE DEF slot, Prim, Slot, Drawn
      <4> QED BY <2>0, SMTT(30)
    <3> HIDE DEF slot, texture, at, Prim, Slot, Drawn
    <3>3. [flushed EXCEPT !.material = slot, !.texture = texture, !.next = at] \in S
      BY <3>1, <3>2, <2>0
    <3> QED BY <3>3 DEF slot, texture, at
  <2>3. c \in S /\ d \in S /\ e \in S
    <3> DEFINE pending == x.pending + 1
               vertex == x.vertex + 1
               at == x.next + 3
    <3> HIDE DEF Prim, Slot, Drawn
    <3>1. pending \in Int /\ vertex \in Nat /\ at \in Int
      OBVIOUS
    <3>2. d \in S /\ e \in S
      OBVIOUS
    <3> HIDE DEF pending, vertex, at
    <3>3. [x EXCEPT !.pending = pending, !.vertex = vertex, !.next = at] \in S
      BY <3>1
    <3> QED BY <3>2, <3>3 DEF pending, vertex, at
  <2>4. ShrubStep(class, p, textureCount, x) =
          IF over THEN x ELSE IF primHere THEN a ELSE IF textureHere THEN b
          ELSE IF vertexAt(x.next) THEN c ELSE IF vertexAt(x.next - 3) THEN d ELSE e
    BY DEF ShrubStep, flushed
  <2> HIDE DEF S, a, b, c, d, e, over, primHere, textureHere, vertexAt
  <2> QED BY <2>0, <2>1, <2>2, <2>3, <2>4
<1>5. next \in [1 .. n -> [S -> S]]
  <2> HIDE DEF S, n, start
  <2> QED BY <1>1, <1>4
<1>6. PICK g : IsRun(g, S, n, start, next)
  <2> HIDE DEF S, n, start, next
  <2> QED BY <1>1, <1>2, <1>5, RunExists DEF IsLoop
<1>7. g = [i \in 0 .. n |-> IF i = 0 THEN start ELSE ShrubStep(class, p, textureCount, g[i - 1])]
  <2>1. g \in [0 .. n -> S] /\ g[0] = start /\ \A i \in 1 .. n : g[i] = next[i][g[i - 1]]
    BY <1>6 DEF IsRun
  <2> HIDE DEF S, n, start
  <2>2. \A i \in 0 .. n : i # 0 => i \in 1 .. n /\ i - 1 \in 0 .. n
    BY <1>1
  <2>3. ASSUME NEW i \in 1 .. n PROVE g[i] = ShrubStep(class, p, textureCount, g[i - 1])
    <3>1. g[i - 1] \in S /\ next[i] = [x \in S |-> ShrubStep(class, p, textureCount, x)]
      BY <2>1, <2>2, <1>1
    <3> HIDE DEF next
    <3> QED BY <2>1, <3>1
  <2>4. g = [i \in 0 .. n |-> g[i]]
    BY <2>1
  <2> HIDE DEF next
  <2> QED BY <2>1, <2>2, <2>3, <2>4
<1>8. upTo = [i \in 0 .. n |-> IF i = 0 THEN start ELSE ShrubStep(class, p, textureCount, upTo[i - 1])]
  <2> HIDE DEF S, n, start
  <2> QED BY <1>7
<1> HIDE DEF upTo
<1>9. upTo[0] = start /\ \A i \in 1 .. n : upTo[i] = ShrubStep(class, p, textureCount, upTo[i - 1])
  <2> HIDE DEF S, n, start
  <2>1. 0 \in 0 .. n /\ \A i \in 1 .. n : i \in 0 .. n /\ i # 0
    BY <1>1
  <2> QED BY <1>8, <2>1
<1>10. upTo[0] \in S /\ \A i \in 1 .. n : upTo[i - 1] \in S => upTo[i] \in S
  <2> HIDE DEF S, n, start
  <2> QED BY <1>1, <1>2, <1>4, <1>9
<1>11. \A i \in 0 .. n : upTo[i] \in S
  <2> HIDE DEF S, n, start
  <2> QED BY <1>1, <1>10, RunStaysIn
<1>12. upTo[n] \in S /\ Flush(class, textureCount, upTo[n]) \in S
  <2> HIDE DEF S, n
  <2> QED BY <1>1, <1>3, <1>11
<1>13. ShrubReplay(class, p, textureCount) =
         IF upTo[n].valid THEN Flush(class, textureCount, upTo[n]) ELSE upTo[n]
  BY DEF ShrubReplay, upTo
<1>14. ShrubReplay(class, p, textureCount) \in S
  <2> HIDE DEF S, n
  <2> QED BY <1>12, <1>13
<1> DEFINE drawn == ShrubReplay(class, p, textureCount).drawn
<1>15. drawn \in Seq(Drawn)
  <2> HIDE DEF Drawn, Prim, Slot
  <2> QED BY <1>14
<1>16. \A d \in Drawn : MaterialIsValid(class, d.material, textureCount)
  OBVIOUS
<1> HIDE DEF Drawn, drawn
<1>17. IsSteps(drawn) /\ \A d \in Range(drawn) : d \in Drawn
  BY <1>15, LenProperties, ElementsOfSeq DEF IsSteps
<1> QED BY <1>16, <1>17 DEF drawn

(* The header of a shrub packet and the two vertex tables after it, as     *)
(* lengths: what the counts it declares may read of them.                  *)
LEMMA UnpackStepsSound ==
  ASSUME NEW p, p.tags \in Int, p.materials \in Int, p.vertices \in Int,
         NEW unpacks, NEW header \in Nat, header = LogicalBytes(unpacks[1]),
         LogicalBytes(unpacks[2]) \in Nat, LogicalBytes(unpacks[3]) \in Nat
  PROVE  /\ Sound(UnpackSteps(p, unpacks, header))
         /\ AllHold(UnpackSteps(p, unpacks, header)) =>
              p.tags \in Nat /\ p.materials \in Nat /\ p.vertices \in Nat
<1> DEFINE second == LogicalBytes(unpacks[2])
           third == LogicalBytes(unpacks[3])
           a == 16 * p.tags
           b == 64 * p.materials
           c == 8 * p.vertices
           long == header >= 16
           head == Bytes(0, 12, header)
           counted == p.materials >= 0 /\ p.tags >= 0 /\ p.vertices \in 0 .. kMaxShrubVertices
           fit == RangeFits(<<16 + a, b>>, header) /\ \A i \in {2, 3} : c <= LogicalBytes(unpacks[i])
           reads == {<<<<16, a>>, header>>, <<<<16 + a, b>>, header>>}
                      \union {Bytes(0, c, LogicalBytes(unpacks[i])) : i \in {2, 3}}
           prims == \A i \in 1 .. p.tags : p.primTags[i].prim \in {3, 4}
           steps == <<Require("InvalidClass", long, {head}), Require("InvalidClass", counted, {}),
                      Require("InvalidClass", fit, reads), Require("InvalidClass", prims, {})>>
<1>1. UnpackSteps(p, unpacks, header) = steps
  BY DEF UnpackSteps
<1>2. reads = {<<<<16, a>>, header>>, <<<<16 + a, b>>, header>>, Bytes(0, c, second), Bytes(0, c, third)}
  <2> HIDE DEF a, b, c
  <2> QED OBVIOUS
<1>3. fit => RangeFits(<<16 + a, b>>, header) /\ c <= second /\ c <= third
  <2> HIDE DEF a, b, c
  <2> QED OBVIOUS
<1>4. counted => p.tags \in Nat /\ p.materials \in Nat /\ p.vertices \in Nat
  OBVIOUS
<1>5. counted => a \in Nat /\ b \in Nat /\ c \in Nat
  BY <1>4
<1>6. second \in Nat /\ third \in Nat
  OBVIOUS
<1>7. long => InRange(head)
  BY DEF InRange, RangeFits, Bytes
<1> HIDE DEF a, b, c, second, third, long, head, counted, fit, reads, prims
<1>8. ASSUME counted, fit PROVE \A r \in reads : InRange(r)
  <2>1. a \in Nat /\ b \in Nat /\ c \in Nat
    BY <1>5, <1>8
  <2>2. RangeFits(<<16 + a, b>>, header) /\ c <= second /\ c <= third
    BY <1>3, <1>8
  <2>3. 16 + a + b <= header
    BY <2>2 DEF RangeFits
  <2>4. InRange(<<<<16, a>>, header>>)
    BY <2>1, <2>3 DEF InRange, RangeFits
  <2>5. InRange(<<<<16 + a, b>>, header>>)
    BY <2>1, <2>3 DEF InRange, RangeFits
  <2>6. InRange(Bytes(0, c, second))
    BY <1>6, <2>1, <2>2 DEF InRange, RangeFits, Bytes
  <2>7. InRange(Bytes(0, c, third))
    BY <1>6, <2>1, <2>2 DEF InRange, RangeFits, Bytes
  <2> QED BY <1>2, <2>4, <2>5, <2>6, <2>7
<1>9. Sound(steps)
  BY <1>7, <1>8 DEF Require, Sound, IsSteps, FailuresNamed, Verdicts, Guarded
<1>10. AllHold(steps) => counted
  BY DEF AllHold, Require
<1> HIDE DEF steps
<1> QED BY <1>1, <1>4, <1>9, <1>10

(* A shrub packet's three unpacks, and then what their header counts.      *)
LEMMA CountedStepsSound ==
  ASSUME NEW p, IsShrubPacket(p), NEW unpacks \in Seq(Range(p.commands))
  PROVE  /\ Sound(CountedSteps(p, unpacks))
         /\ AllHold(CountedSteps(p, unpacks)) =>
              p.tags \in Nat /\ p.materials \in Nat /\ p.vertices \in Nat
<1> DEFINE three == Len(unpacks) = 3
           first == <<Require("InvalidClass", three, {})>>
           header == LogicalBytes(unpacks[1])
           unpacked == UnpackSteps(p, unpacks, header)
           natural == p.tags \in Nat /\ p.materials \in Nat /\ p.vertices \in Nat
<1>1. CountedSteps(p, unpacks) = Then(first, unpacked)
  BY DEF CountedSteps
<1>2. p.tags \in Int /\ p.materials \in Int /\ p.vertices \in Int /\ IsPacket(p.commands)
  BY DEF IsShrubPacket
<1>3. three => \A i \in 1 .. 3 : i \in Int /\ 1 <= i /\ i <= Len(unpacks)
  OBVIOUS
<1>4. Sound(first) /\ (AllHold(first) => three)
  <2> HIDE DEF three
  <2> QED BY StepSound DEF Verdicts
<1>5. ASSUME three PROVE Sound(unpacked) /\ (AllHold(unpacked) => natural)
  <2> HIDE DEF three
  <2>1. \A i \in 1 .. 3 : LogicalBytes(unpacks[i]) \in Nat
    BY <1>2, <1>3, <1>5, UnpackFacts
  <2>2. header \in Nat /\ LogicalBytes(unpacks[2]) \in Nat /\ LogicalBytes(unpacks[3]) \in Nat
    BY <2>1
  <2> QED BY <1>2, <2>2, UnpackStepsSound
<1> HIDE DEF three, first, unpacked, natural
<1>6. /\ Sound(Then(first, unpacked))
      /\ AllHold(Then(first, unpacked)) => AllHold(first) /\ AllHold(unpacked)
  BY <1>4, <1>5, ThenSound
<1> QED BY <1>1, <1>4, <1>5, <1>6 DEF natural

(* A shrub packet's primitives, as they were replayed.                     *)
LEMMA ShrubReplayStepsSound ==
  ASSUME NEW class, class.textures \in Seq(Nat), NEW textureCount \in Nat, NEW replay,
         \A d \in Range(replay.drawn) : MaterialIsValid(class, d.material, textureCount)
  PROVE  Sound(ShrubReplaySteps(class, replay, textureCount))
<1> DEFINE of(d) == {Element(d.material, Len(class.textures)),
                     Element(class.textures[d.material + 1], textureCount)}
           reads == UNION {of(d) : d \in Range(replay.drawn)}
<1>1. \A d \in Range(replay.drawn) : \A r \in of(d) : InRange(r)
  BY SlotReads
<1>2. \A r \in reads : InRange(r)
  <2> HIDE DEF of
  <2> QED BY <1>1
<1>3. ShrubReplaySteps(class, replay, textureCount) = <<Require("InvalidClass", replay.valid, reads)>>
  BY DEF ShrubReplaySteps
<1> HIDE DEF reads
<1> QED BY <1>2, <1>3, StepSound DEF Verdicts

\* A packet whose counts were accepted.
IsCounted(p) == p.tags \in Nat /\ p.materials \in Nat /\ p.vertices \in Nat

(* A shrub packet is read inside the core.                                 *)
LEMMA ShrubPacketStepsSound ==
  ASSUME NEW core \in Int, NEW class, IsShrubClass(class), NEW p, IsShrubPacket(p),
         NEW textureCount \in Nat
  PROVE  /\ Sound(ShrubPacketSteps(core, class, p, textureCount))
         /\ AllHold(ShrubPacketSteps(core, class, p, textureCount)) => IsCounted(p)
<1> DEFINE span == <<class.at + p.at, p.size>>
           inside == p.at >= 0 /\ p.size > 0 /\ RangeFits(span, core)
           whole == <<span, core>>
           valid == VifStatus(p.size, p.commands, FALSE) = "Ok"
           parsed == <<Require("InvalidClass", inside, {whole}), Require("InvalidClass", valid, {})>>
           counted == CountedSteps(p, Unpacks(p.size, p.commands, FALSE))
           replay == ShrubReplaySteps(class, ShrubReplay(class, p, textureCount), textureCount)
<1>1. ShrubPacketSteps(core, class, p, textureCount) = Then(parsed, Then(counted, replay))
  BY DEF ShrubPacketSteps
<1>2. /\ class.at \in Nat /\ class.textures \in Seq(Nat) /\ p.at \in Int /\ p.size \in Int
      /\ IsPacket(p.commands)
  BY DEF IsShrubClass, IsShrubPacket
<1>3. inside => InRange(whole)
  BY <1>2 DEF InRange
<1>4. Sound(parsed)
  <2> HIDE DEF inside, whole, valid
  <2> QED BY <1>3 DEF Require, Sound, IsSteps, FailuresNamed, Verdicts, Guarded
<1>5. Sound(counted) /\ (AllHold(counted) => IsCounted(p))
  <2>1. Unpacks(p.size, p.commands, FALSE) \in Seq(Range(p.commands))
    BY <1>2, VifParseFacts
  <2> QED BY <2>1, CountedStepsSound DEF IsCounted
<1>6. IsCounted(p) => Sound(replay)
  <2> SUFFICES ASSUME IsCounted(p) PROVE Sound(replay)
    OBVIOUS
  <2>1. \A d \in Range(ShrubReplay(class, p, textureCount).drawn) :
          MaterialIsValid(class, d.material, textureCount)
    BY ShrubReplayFacts DEF IsCounted
  <2> QED BY <1>2, <2>1, ShrubReplayStepsSound
<1> HIDE DEF parsed, counted, replay
<1> DEFINE rest == Then(counted, replay)
<1>7. Sound(rest) /\ (AllHold(rest) => IsCounted(p))
  BY <1>5, <1>6, ThenSound
<1> HIDE DEF rest
<1>8. Sound(Then(parsed, rest)) /\ (AllHold(Then(parsed, rest)) => AllHold(rest))
  BY <1>4, <1>7, ThenSound
<1> QED BY <1>1, <1>7, <1>8 DEF rest

(* A shrub class: its header, its texture slots and its packets.           *)
LEMMA ShrubClassStepsSound ==
  ASSUME NEW core \in Int, NEW class, IsShrubClass(class), NEW textureCount \in Nat
  PROVE  /\ Sound(ShrubClassSteps(core, class, textureCount))
         /\ AllHold(ShrubClassSteps(core, class, textureCount)) =>
              \A i \in DOMAIN class.body.packets : IsCounted(class.body.packets[i])
<1> DEFINE packets == <<class.at + 64, 8 * class.body.count>>
           n == Len(class.body.packets)
           fits == RangeFits(<<class.at, 64>>, core)
           header == Bytes(class.at, 64, core)
           scale == class.body.scale /\ class.body.count \in 0 .. 4096
           packetsFit == RangeFits(packets, core)
           table == <<packets, core>>
           first == <<Require("InvalidClass", fits, {header}), Require("InvalidClass", scale, {}),
                      Require("InvalidClass", packetsFit, {table})>>
           turns == [i \in DOMAIN class.body.packets |->
                       ShrubPacketSteps(core, class, class.body.packets[i], textureCount)]
<1>1. class.at \in Nat
  BY DEF IsShrubClass
<1>2. /\ n \in Nat /\ DOMAIN class.body.packets = 1 .. n
      /\ \A i \in 1 .. n : IsShrubPacket(class.body.packets[i])
  BY SequenceFacts DEF IsShrubClass
<1>3. fits => InRange(header)
  BY <1>1 DEF InRange, RangeFits, Bytes
<1>4. packetsFit => InRange(table)
  BY <1>1 DEF InRange, RangeFits
<1>5. Sound(first)
  <2> HIDE DEF fits, header, scale, packetsFit, table
  <2> QED BY <1>3, <1>4 DEF Require, Sound, IsSteps, FailuresNamed, Verdicts, Guarded
<1>6. /\ Sound(ForEach(turns))
      /\ AllHold(ForEach(turns)) => \A i \in 1 .. n : IsCounted(class.body.packets[i])
  <2>1. \A i \in 1 .. n : Sound(turns[i]) /\ (AllHold(turns[i]) => IsCounted(class.body.packets[i]))
    BY <1>2, ShrubPacketStepsSound
  <2>2. turns = [i \in 1 .. n |-> turns[i]]
    BY <1>2
  <2> HIDE DEF turns, n
  <2>3. Sound(ForEach(turns)) /\ (AllHold(ForEach(turns)) => \A i \in 1 .. n : AllHold(turns[i]))
    BY <1>2, <2>1, <2>2, ForEachSound
  <2> QED BY <2>1, <2>3
<1>7. ShrubClassSteps(core, class, textureCount) = Then(first, ForEach(turns))
  BY DEF ShrubClassSteps
<1> HIDE DEF first, turns, n
<1> QED BY <1>2, <1>5, <1>6, <1>7, ThenSound

(* A class the table has is one of its classes.                            *)
LEMMA ClassOfFacts ==
  ASSUME NEW table, IsSequence(table.classes), NEW oClass, HasClass(table, oClass)
  PROVE  /\ ClassOf(table, oClass) \in Range(table.classes)
         /\ ClassOf(table, oClass).oClass = oClass
<1> DEFINE n == Len(table.classes)
           named == {i \in DOMAIN table.classes : table.classes[i].oClass = oClass}
<1>1. n \in Nat /\ DOMAIN table.classes = 1 .. n /\ \A i \in 1 .. n : table.classes[i] \in Range(table.classes)
  BY SequenceFacts
<1> HIDE DEF n
<1>2. named \in SUBSET Int /\ named # {} /\ \A k \in named : k <= n
  BY <1>1 DEF HasClass
<1>3. ClassOf(table, oClass) = table.classes[Max(named)]
  BY DEF ClassOf
<1>4. \A k \in named : k \in 1 .. n /\ table.classes[k].oClass = oClass
  BY <1>1
<1> HIDE DEF named
<1>5. Max(named) \in named
  <2>1. n \in Int
    BY <1>1
  <2> QED BY <1>2, <2>1, MaxIsGreatest
<1> QED BY <1>1, <1>3, <1>4, <1>5

\* What is one of the table's classes, if the table has it.
LEMMA InstanceStepsSound ==
  ASSUME NEW table, IsSequence(table.classes), NEW instance, NEW steps, NEW goal,
         ClassOf(table, instance.oClass) \in Range(table.classes) =>
           Sound(steps) /\ (AllHold(steps) => goal)
  PROVE  /\ Sound(InstanceSteps(table, instance, steps))
         /\ AllHold(InstanceSteps(table, instance, steps)) =>
              (goal) /\ ClassOf(table, instance.oClass) \in Range(table.classes)
<1> DEFINE has == HasClass(table, instance.oClass)
           first == <<Require("MissingClass", has, {})>>
<1>1. InstanceSteps(table, instance, steps) = Then(first, steps)
  BY DEF InstanceSteps
<1>2. has => ClassOf(table, instance.oClass) \in Range(table.classes)
  BY ClassOfFacts
<1> HIDE DEF has
<1>3. Sound(first) /\ (AllHold(first) => has)
  BY StepSound DEF Verdicts
<1> HIDE DEF first
<1>4. Sound(Then(first, steps)) /\ (AllHold(Then(first, steps)) => AllHold(first) /\ AllHold(steps))
  BY <1>2, <1>3, ThenSound
<1> QED BY <1>1, <1>2, <1>3, <1>4

(* A tie instance and its class.                                           *)
LEMMA TieInstanceStepsSound ==
  ASSUME NEW core \in Int, NEW table, IsClassTable(table), \A c \in Range(table.classes) : IsTieClass(c),
         NEW tie, NEW textureCount \in Nat
  PROVE  /\ Sound(TieInstanceSteps(core, table, tie, textureCount))
         /\ AllHold(TieInstanceSteps(core, table, tie, textureCount)) =>
              ClassOf(table, tie.oClass) \in Range(table.classes)
<1> DEFINE class == ClassOf(table, tie.oClass)
           steps == TieClassSteps(core, class, textureCount)
<1>1. TieInstanceSteps(core, table, tie, textureCount) = InstanceSteps(table, tie, steps)
  BY DEF TieInstanceSteps
<1>2. class \in Range(table.classes) => Sound(steps) /\ (AllHold(steps) => TRUE)
  <2> HIDE DEF class
  <2> QED BY TieClassStepsSound
<1> HIDE DEF steps
<1>3. IsSequence(table.classes)
  BY DEF IsClassTable
<1> QED BY <1>1, <1>2, <1>3, InstanceStepsSound

\* A shrub class whose packets' counts were accepted.
IsCountedClass(class) == \A i \in DOMAIN class.body.packets : IsCounted(class.body.packets[i])

(* A shrub instance: its class is one of the table's, with its counts.     *)
LEMMA ShrubInstanceStepsSound ==
  ASSUME NEW core \in Int, NEW table, IsClassTable(table), \A c \in Range(table.classes) : IsShrubClass(c),
         NEW shrub, NEW textureCount \in Nat
  PROVE  /\ Sound(ShrubInstanceSteps(core, table, shrub, textureCount))
         /\ AllHold(ShrubInstanceSteps(core, table, shrub, textureCount)) =>
              /\ ClassOf(table, shrub.oClass) \in Range(table.classes)
              /\ IsCountedClass(ClassOf(table, shrub.oClass))
<1> DEFINE class == ClassOf(table, shrub.oClass)
           steps == ShrubClassSteps(core, class, textureCount)
<1>1. ShrubInstanceSteps(core, table, shrub, textureCount) = InstanceSteps(table, shrub, steps)
  BY DEF ShrubInstanceSteps
<1>2. class \in Range(table.classes) => Sound(steps) /\ (AllHold(steps) => IsCountedClass(class))
  <2> HIDE DEF class
  <2> QED BY ShrubClassStepsSound DEF IsCountedClass
<1> HIDE DEF steps
<1>3. IsSequence(table.classes)
  BY DEF IsClassTable
<1> QED BY <1>1, <1>2, <1>3, InstanceStepsSound

----------------------------------------------------------------------------
(* The instances a block holds are a list.                                 *)
LEMMA InstancesFacts ==
  ASSUME NEW block, IsBlock(block)
  PROVE  /\ Len(Instances(block)) \in Nat /\ DOMAIN Instances(block) = 1 .. Len(Instances(block))
         /\ block.at \in Int /\ block.count \in Int
<1>1. block.at \in Int /\ block.count \in Int /\ IsSequence(block.instances)
  BY DEF IsBlock
<1>2. CASE block.at = 0
  BY <1>1, <1>2 DEF Instances
<1>3. CASE block.at # 0
  BY <1>1, <1>3, SequenceFacts DEF Instances
<1> QED BY <1>1, <1>2, <1>3

(* An instance's record is in its block, however many there are.           *)
LEMMA InstanceReadsFit ==
  ASSUME NEW block, IsBlock(block), block.at >= 0, NEW stride \in Nat, NEW gameplay \in Int,
         block.at # 0 => /\ RangeFits(<<block.at, 16>>, gameplay)
                         /\ RangeFits(<<block.at + 16, stride * block.count>>, gameplay)
  PROVE  \A r \in InstanceReads(block, stride, gameplay) : InRange(r)
<1> DEFINE size == stride * block.count
<1>1. block.at \in Int /\ block.count \in Int
  BY InstancesFacts
<1>2. block.at # 0 =>
        RangeFits(<<block.at, 16>>, gameplay) /\ RangeFits(<<block.at + 16, size>>, gameplay)
  OBVIOUS
<1>3. InstanceReads(block, stride, gameplay) =
        IF block.at = 0 THEN {} ELSE {Bytes(block.at, 16, gameplay), Bytes(block.at + 16, size, gameplay)}
  BY DEF InstanceReads
<1>4. size \in Int
  BY <1>1
<1> HIDE DEF size
<1>5. block.at # 0 =>
        InRange(Bytes(block.at, 16, gameplay)) /\ InRange(Bytes(block.at + 16, size, gameplay))
  BY <1>1, <1>2, <1>4 DEF InRange, RangeFits, Bytes
<1> QED BY <1>3, <1>5

(* So are all of them.                                                     *)
LEMMA InstanceReadsInRange ==
  ASSUME NEW block, IsBlock(block), block.at >= 0, NEW stride \in Nat, NEW gameplay \in Int,
         InstanceBlockIsValid(block, stride, gameplay)
  PROVE  \A r \in InstanceReads(block, stride, gameplay) : InRange(r)
<1>1. block.at # 0 => /\ RangeFits(<<block.at, 16>>, gameplay)
                      /\ RangeFits(<<block.at + 16, stride * block.count>>, gameplay)
  BY DEF InstanceBlockIsValid
<1> QED BY <1>1, InstanceReadsFit

(* A block of instances in the gameplay WAD.                               *)
LEMMA BlockStepsSound ==
  ASSUME NEW coreIndex \in Int, NEW gameplay \in Int, NEW scene, IsScene(scene)
  PROVE  Sound(BlockSteps(coreIndex, gameplay, scene))
<1> DEFINE fits == /\ ClassTableFits(scene.tieTable, 32, coreIndex)
                   /\ ClassTableFits(scene.shrubTable, 48, coreIndex)
           long == gameplay >= 144
           words == {Bytes(52, 4, gameplay), Bytes(60, 4, gameplay)}
           signed == scene.tieBlock.at >= 0 /\ scene.shrubBlock.at >= 0
           valid == /\ InstanceBlockIsValid(scene.tieBlock, 224, gameplay)
                    /\ InstanceBlockIsValid(scene.shrubBlock, 112, gameplay)
           reads == InstanceReads(scene.tieBlock, 224, gameplay)
                      \union InstanceReads(scene.shrubBlock, 112, gameplay)
<1>1. BlockSteps(coreIndex, gameplay, scene) =
        <<Require("InvalidIndexTable", fits, {}), Require("InvalidGameplayHeader", long, words),
          Require("InvalidGameplayHeader", signed, {}), Require("InvalidInstanceBlock", valid, reads)>>
  BY DEF BlockSteps
<1>2. long => \A r \in words : InRange(r)
  BY DEF InRange, RangeFits, Bytes
<1>3. signed /\ valid => \A r \in reads : InRange(r)
  BY InstanceReadsInRange DEF IsScene
<1> HIDE DEF fits, long, words, signed, valid, reads
<1> QED BY <1>1, <1>2, <1>3 DEF Require, Sound, IsSteps, FailuresNamed, Verdicts, Guarded

\* A list whose every element is of that kind.
IsListOf(batches, kind) == IsSteps(batches) /\ \A i \in DOMAIN batches : batches[i].kind = kind

(* Batches of one kind, one list after the other.                          *)
LEMMA FlattenKind ==
  ASSUME NEW n \in Nat, NEW lists, lists = [i \in 1 .. n |-> lists[i]], NEW kind,
         \A i \in 1 .. n : IsListOf(lists[i], kind)
  PROVE  IsListOf(FlattenSeq(lists), kind)
<1>1. \A i \in 1 .. n : IsSteps(lists[i])
  BY DEF IsListOf
<1>2. /\ IsSteps(FlattenSeq(lists))
      /\ \A k \in DOMAIN FlattenSeq(lists) :
           \E i \in 1 .. n : \E j \in DOMAIN lists[i] : FlattenSeq(lists)[k] = lists[i][j]
  BY <1>1, FlattenLists
<1> QED BY <1>2 DEF IsListOf

\* One batch for each of a list.
LEMMA BatchList ==
  ASSUME NEW list, IsSteps(list), NEW batches, NEW kind, batches = [i \in DOMAIN list |-> batches[i]],
         \A i \in DOMAIN list : batches[i].kind = kind
  PROVE  IsListOf(batches, kind)
<1> DEFINE n == Len(list)
<1>1. n \in Nat /\ DOMAIN list = 1 .. n
  BY DEF IsSteps
<1> HIDE DEF n
<1>2. batches = [i \in 1 .. n |-> batches[i]] /\ DOMAIN batches = 1 .. n
  BY <1>1
<1>3. Len(batches) = n
  BY <1>1, <1>2, LenOfFunction
<1> QED BY <1>1, <1>2, <1>3 DEF IsListOf, IsSteps

(* Ties are drawn as batches of ties.                                      *)
LEMMA TieBatchFacts ==
  ASSUME NEW class, IsTieClass(class), NEW instance
  PROVE  IsListOf(TieBatches(class, instance), "tie")
<1> DEFINE p(i) == class.body.packets[i]
           list(i) == PrimitiveBatches(class, Replay(p(i)).primitives, instance)
           n == Len(class.body.packets)
           lists == [i \in DOMAIN class.body.packets |-> list(i)]
<1>1. n \in Nat /\ DOMAIN class.body.packets = 1 .. n /\ \A i \in 1 .. n : IsTiePacket(p(i))
  BY SequenceFacts DEF IsTieClass
<1>2. ASSUME NEW q, IsTiePacket(q)
      PROVE  IsListOf(PrimitiveBatches(class, Replay(q).primitives, instance), "tie")
  <2> DEFINE primitives == Replay(q).primitives
             batches == PrimitiveBatches(class, primitives, instance)
  <2>1. q.regular \in Nat /\ q.morph \in Nat
    BY <1>2 DEF IsTiePacket
  <2>2. IsSteps(SortedWrites(q))
    BY <2>1, SortedWritesFacts
  <2>3. IsSteps(primitives)
    BY <1>2, <2>2, ReplayFacts DEF Replay
  <2> HIDE DEF primitives
  <2>4. batches = [i \in DOMAIN primitives |-> batches[i]]
        /\ \A i \in DOMAIN primitives : batches[i].kind = "tie"
    BY DEF PrimitiveBatches, Batch
  <2> HIDE DEF batches
  <2>5. IsListOf(batches, "tie")
    BY <2>3, <2>4, BatchList
  <2> QED BY <2>5 DEF batches, primitives
<1>3. TieBatches(class, instance) = FlattenSeq(lists)
  BY DEF TieBatches
<1>4. lists = [i \in 1 .. n |-> lists[i]] /\ \A i \in 1 .. n : lists[i] = list(i)
  BY <1>1
<1>5. \A i \in 1 .. n : IsListOf(list(i), "tie")
  BY <1>1, <1>2
<1> HIDE DEF lists, n, list
<1> QED BY <1>1, <1>3, <1>4, <1>5, FlattenKind

(* Shrubs are drawn as batches of shrubs.                                  *)
LEMMA ShrubBatchFacts ==
  ASSUME NEW class, IsShrubClass(class), IsCountedClass(class), NEW instance, NEW textureCount
  PROVE  IsListOf(ShrubBatches(class, instance, textureCount), "shrub")
<1> DEFINE p(i) == class.body.packets[i]
           list(i) == DrawnBatches(class, ShrubReplay(class, p(i), textureCount).drawn, instance)
           n == Len(class.body.packets)
           lists == [i \in DOMAIN class.body.packets |-> list(i)]
<1>1. n \in Nat /\ DOMAIN class.body.packets = 1 .. n /\ \A i \in 1 .. n : IsCounted(p(i))
  BY SequenceFacts DEF IsShrubClass, IsCountedClass
<1>2. ASSUME NEW q, IsCounted(q)
      PROVE  IsListOf(DrawnBatches(class, ShrubReplay(class, q, textureCount).drawn, instance), "shrub")
  <2> DEFINE drawn == ShrubReplay(class, q, textureCount).drawn
             batches == DrawnBatches(class, drawn, instance)
  <2>1. IsSteps(drawn)
    BY <1>2, ShrubReplayFacts DEF IsCounted
  <2> HIDE DEF drawn
  <2>2. batches = [i \in DOMAIN drawn |-> batches[i]]
        /\ \A i \in DOMAIN drawn : batches[i].kind = "shrub"
    BY DEF DrawnBatches, Batch
  <2> HIDE DEF batches
  <2>3. IsListOf(batches, "shrub")
    BY <2>1, <2>2, BatchList
  <2> QED BY <2>3 DEF batches, drawn
<1>3. ShrubBatches(class, instance, textureCount) = FlattenSeq(lists)
  BY DEF ShrubBatches
<1>4. lists = [i \in 1 .. n |-> lists[i]] /\ \A i \in 1 .. n : lists[i] = list(i)
  BY <1>1
<1>5. \A i \in 1 .. n : IsListOf(list(i), "shrub")
  BY <1>1, <1>2
<1> HIDE DEF lists, n, list
<1> QED BY <1>1, <1>3, <1>4, <1>5, FlattenKind

(* A merged batch is of a kind that was merged.                            *)
LEMMA MergedFacts ==
  ASSUME NEW batches, IsSteps(batches)
  PROVE  /\ IsSteps(Merged(batches))
         /\ \A n \in DOMAIN Merged(batches) :
              \E i \in DOMAIN batches : Merged(batches)[n].kind = batches[i].kind
<1> DEFINE keys == [i \in DOMAIN batches |-> <<batches[i].kind, batches[i].material>>]
           order == FirstOfEach(keys)
           merged == Merged(batches)
           n == Len(batches)
<1>1. n \in Nat /\ DOMAIN batches = 1 .. n
  BY DEF IsSteps
<1>2. keys = [i \in 1 .. n |-> keys[i]] /\ \A i \in 1 .. n : keys[i][1] = batches[i].kind
  BY <1>1
<1>3. DOMAIN merged = DOMAIN order /\ merged = [k \in DOMAIN order |-> merged[k]]
      /\ \A k \in DOMAIN order : merged[k].kind = order[k][1]
  BY DEF Merged
<1> HIDE DEF keys, n
<1>4. IsSteps(keys) /\ DOMAIN keys = 1 .. n
  <2>1. Len(keys) = n
    BY <1>1, <1>2, LenOfFunction
  <2> QED BY <1>1, <1>2, <2>1 DEF IsSteps
<1>5. /\ IsSteps(order)
      /\ \A k \in DOMAIN order : \E i \in DOMAIN keys : order[k] = keys[i]
  BY <1>4, FirstOfEachFacts
<1> HIDE DEF order, merged
<1> DEFINE k == Len(order)
<1>6. k \in Nat /\ DOMAIN order = 1 .. k
  BY <1>5 DEF IsSteps
<1> HIDE DEF k
<1>7. Len(merged) = k
  BY <1>3, <1>6, LenOfFunction
<1>8. IsSteps(merged)
  BY <1>3, <1>6, <1>7 DEF IsSteps
<1>9. \A m \in DOMAIN merged : \E i \in DOMAIN batches : merged[m].kind = batches[i].kind
  BY <1>1, <1>2, <1>3, <1>4, <1>5
<1> QED BY <1>8, <1>9 DEF merged

(* An accepted scene is drawn as ties and shrubs.                          *)
LEMMA StaticBatchFacts ==
  ASSUME NEW scene, IsScene(scene), NEW textureCount,
         \A i \in DOMAIN Instances(scene.tieBlock) :
           ClassOf(scene.tieTable, Instances(scene.tieBlock)[i].oClass) \in Range(scene.tieTable.classes),
         \A i \in DOMAIN Instances(scene.shrubBlock) :
           LET class == ClassOf(scene.shrubTable, Instances(scene.shrubBlock)[i].oClass) IN
           class \in Range(scene.shrubTable.classes) /\ IsCountedClass(class)
  PROVE  /\ IsSteps(StaticBatches(scene, textureCount))
         /\ \A i \in DOMAIN StaticBatches(scene, textureCount) :
              StaticBatches(scene, textureCount)[i].kind \in {"tie", "shrub"}
<1> DEFINE ties == Instances(scene.tieBlock)
           shrubs == Instances(scene.shrubBlock)
           tieList(i) == TieBatches(ClassOf(scene.tieTable, ties[i].oClass), ties[i])
           shrubList(i) == ShrubBatches(ClassOf(scene.shrubTable, shrubs[i].oClass), shrubs[i], textureCount)
           tieLists == [i \in DOMAIN ties |-> tieList(i)]
           shrubLists == [i \in DOMAIN shrubs |-> shrubList(i)]
           m == Len(ties)
           n == Len(shrubs)
           a == FlattenSeq(tieLists)
           b == FlattenSeq(shrubLists)
<1>1. /\ m \in Nat /\ DOMAIN ties = 1 .. m /\ n \in Nat /\ DOMAIN shrubs = 1 .. n
  BY InstancesFacts DEF IsScene
<1>2. \A i \in 1 .. m : IsListOf(tieList(i), "tie")
  <2>1. \A i \in 1 .. m : IsTieClass(ClassOf(scene.tieTable, ties[i].oClass))
    BY <1>1 DEF IsScene
  <2> HIDE DEF ties
  <2> QED BY <2>1, TieBatchFacts
<1>3. \A i \in 1 .. n : IsListOf(shrubList(i), "shrub")
  <2>1. \A i \in 1 .. n : IsShrubClass(ClassOf(scene.shrubTable, shrubs[i].oClass))
                            /\ IsCountedClass(ClassOf(scene.shrubTable, shrubs[i].oClass))
    BY <1>1 DEF IsScene
  <2> HIDE DEF shrubs
  <2> QED BY <2>1, ShrubBatchFacts
<1>4. StaticBatches(scene, textureCount) = Merged(a \o b)
  BY DEF StaticBatches
<1>5. /\ tieLists = [i \in 1 .. m |-> tieLists[i]] /\ \A i \in 1 .. m : tieLists[i] = tieList(i)
      /\ shrubLists = [i \in 1 .. n |-> shrubLists[i]] /\ \A i \in 1 .. n : shrubLists[i] = shrubList(i)
  <2> HIDE DEF ties, shrubs, tieList, shrubList, m, n
  <2> QED BY <1>1
<1> HIDE DEF ties, shrubs, tieList, shrubList, tieLists, shrubLists, m, n
<1>6. IsListOf(a, "tie") /\ IsListOf(b, "shrub")
  BY <1>1, <1>2, <1>3, <1>5, FlattenKind
<1> HIDE DEF a, b
<1> DEFINE both == a \o b
<1>7. IsSteps(both) /\ \A i \in DOMAIN both : both[i].kind \in {"tie", "shrub"}
  <2>1. /\ IsSteps(both) /\ Len(both) = Len(a) + Len(b)
        /\ \A i \in 1 .. Len(a) : both[i] = a[i]
        /\ \A i \in 1 .. Len(b) : both[Len(a) + i] = b[i]
    BY <1>6, ConcatSteps DEF IsListOf
  <2> HIDE DEF both
  <2>2. /\ Len(a) \in Nat /\ DOMAIN a = 1 .. Len(a) /\ Len(b) \in Nat /\ DOMAIN b = 1 .. Len(b)
        /\ DOMAIN both = 1 .. Len(a) + Len(b)
    BY <1>6, <2>1 DEF IsListOf, IsSteps
  <2>3. ASSUME NEW i \in DOMAIN both PROVE both[i].kind \in {"tie", "shrub"}
    <3>1. CASE i <= Len(a)
      <4>1. i \in 1 .. Len(a)
        BY <2>2, <3>1
      <4> QED BY <1>6, <2>1, <2>2, <4>1 DEF IsListOf
    <3>2. CASE ~(i <= Len(a))
      <4> DEFINE j == i - Len(a)
      <4>1. j \in 1 .. Len(b) /\ i = Len(a) + j
        BY <2>2, <3>2
      <4> HIDE DEF j
      <4> QED BY <1>6, <2>1, <2>2, <4>1 DEF IsListOf
    <3> QED BY <3>1, <3>2
  <2> QED BY <2>1, <2>3
<1> HIDE DEF both
<1> DEFINE merged == Merged(both)
<1>8. IsSteps(merged) /\ \A k \in DOMAIN merged : \E i \in DOMAIN both : merged[k].kind = both[i].kind
  BY <1>7, MergedFacts
<1> HIDE DEF merged
<1>9. IsSteps(merged) /\ \A k \in DOMAIN merged : merged[k].kind \in {"tie", "shrub"}
  BY <1>7, <1>8
<1> QED BY <1>4, <1>9 DEF merged, both

(* decodeRac1StaticScene reads only inside the core, its index, the        *)
(* gameplay WAD and its own tables.                                        *)
LEMMA StaticStepsSound ==
  ASSUME NEW core \in Int, NEW coreIndex \in Int, NEW gameplay \in Int, NEW scene, IsScene(scene),
         NEW tieCount \in Nat, NEW shrubCount \in Nat
  PROVE  /\ Sound(StaticSteps(core, coreIndex, gameplay, scene, tieCount, shrubCount))
         /\ AllHold(StaticSteps(core, coreIndex, gameplay, scene, tieCount, shrubCount)) =>
              /\ IsSteps(StaticBatches(scene, shrubCount))
              /\ \A i \in DOMAIN StaticBatches(scene, shrubCount) :
                   StaticBatches(scene, shrubCount)[i].kind \in {"tie", "shrub"}
<1> DEFINE ties == Instances(scene.tieBlock)
           shrubs == Instances(scene.shrubBlock)
           m == Len(ties)
           n == Len(shrubs)
           first == BlockSteps(coreIndex, gameplay, scene)
           tie(i) == TieInstanceSteps(core, scene.tieTable, ties[i], tieCount)
           shrub(i) == ShrubInstanceSteps(core, scene.shrubTable, shrubs[i], shrubCount)
           tieTurns == [i \in DOMAIN ties |-> tie(i)]
           shrubTurns == [i \in DOMAIN shrubs |-> shrub(i)]
           some == Instances(scene.tieBlock) \o Instances(scene.shrubBlock) = <<>>
                     \/ StaticBatches(scene, shrubCount) # <<>>
           last == <<Require("EmptyScene", some, {})>>
           a == ForEach(tieTurns)
           b == ForEach(shrubTurns)
           tieOk(i) == ClassOf(scene.tieTable, ties[i].oClass) \in Range(scene.tieTable.classes)
           shrubOk(i) == /\ ClassOf(scene.shrubTable, shrubs[i].oClass) \in Range(scene.shrubTable.classes)
                         /\ IsCountedClass(ClassOf(scene.shrubTable, shrubs[i].oClass))
<1>1. StaticSteps(core, coreIndex, gameplay, scene, tieCount, shrubCount) =
        Then(first, Then(a, Then(b, last)))
  BY DEF StaticSteps
<1>2. m \in Nat /\ DOMAIN ties = 1 .. m /\ n \in Nat /\ DOMAIN shrubs = 1 .. n
  BY InstancesFacts DEF IsScene
<1>3. Sound(first)
  BY BlockStepsSound
<1>4. \A i \in 1 .. m : Sound(tie(i)) /\ (AllHold(tie(i)) => tieOk(i))
  <2> HIDE DEF ties, m
  <2> QED BY TieInstanceStepsSound DEF IsScene
<1>5. \A i \in 1 .. n : Sound(shrub(i)) /\ (AllHold(shrub(i)) => shrubOk(i))
  <2> HIDE DEF shrubs, n
  <2> QED BY ShrubInstanceStepsSound DEF IsScene
<1>6. /\ tieTurns = [i \in 1 .. m |-> tieTurns[i]] /\ \A i \in 1 .. m : tieTurns[i] = tie(i)
      /\ shrubTurns = [i \in 1 .. n |-> shrubTurns[i]] /\ \A i \in 1 .. n : shrubTurns[i] = shrub(i)
  <2> HIDE DEF ties, shrubs, tie, shrub, m, n
  <2> QED BY <1>2
<1>7. Sound(last)
  <2> HIDE DEF some
  <2> QED BY StepSound DEF Verdicts
<1>8. (\A i \in 1 .. m : tieOk(i)) /\ (\A i \in 1 .. n : shrubOk(i)) =>
        /\ IsSteps(StaticBatches(scene, shrubCount))
        /\ \A i \in DOMAIN StaticBatches(scene, shrubCount) :
             StaticBatches(scene, shrubCount)[i].kind \in {"tie", "shrub"}
  <2>1. (\A i \in 1 .. m : tieOk(i)) => \A i \in DOMAIN ties : tieOk(i)
    BY <1>2
  <2>2. (\A i \in 1 .. n : shrubOk(i)) => \A i \in DOMAIN shrubs : shrubOk(i)
    BY <1>2
  <2> HIDE DEF m, n
  <2> QED BY <2>1, <2>2, StaticBatchFacts
<1> HIDE DEF ties, shrubs, tie, shrub, m, n, tieTurns, shrubTurns, first, last, tieOk, shrubOk
<1>9. /\ Sound(a) /\ (AllHold(a) => \A i \in 1 .. m : tieOk(i))
      /\ Sound(b) /\ (AllHold(b) => \A i \in 1 .. n : shrubOk(i))
  <2>1. Sound(a) /\ (AllHold(a) => \A i \in 1 .. m : AllHold(tieTurns[i]))
    BY <1>2, <1>4, <1>6, ForEachSound
  <2>2. Sound(b) /\ (AllHold(b) => \A i \in 1 .. n : AllHold(shrubTurns[i]))
    BY <1>2, <1>5, <1>6, ForEachSound
  <2> HIDE DEF a, b
  <2> QED BY <1>4, <1>5, <1>6, <2>1, <2>2
<1> HIDE DEF a, b
<1> DEFINE c == Then(b, last)
<1>10. Sound(c) /\ (AllHold(c) => AllHold(b))
  BY <1>7, <1>9, ThenSound
<1> HIDE DEF c
<1> DEFINE d == Then(a, c)
<1>11. Sound(d) /\ (AllHold(d) => AllHold(a) /\ AllHold(c))
  BY <1>9, <1>10, ThenSound
<1> HIDE DEF d
<1>12. Sound(Then(first, d)) /\ (AllHold(Then(first, d)) => AllHold(d))
  BY <1>3, <1>11, ThenSound
<1> QED BY <1>1, <1>8, <1>9, <1>10, <1>11, <1>12 DEF c, d

----------------------------------------------------------------------------
(* The parity digest.                                                      *)

\* A batch the digest takes: not empty, and its texture is one of its kind's.
IsDigested(batch, textures) ==
  batch.vertices # 0 /\ batch.material \in 0 .. Len(textures[batch.kind]) - 1

(* A batch's digest looks its texture up only where it is one.             *)
LEMMA BatchStepsSound ==
  ASSUME NEW batch, NEW textures, Len(textures[batch.kind]) \in Nat,
         NEW invalid, invalid \notin Verdicts
  PROVE  /\ Sound(BatchSteps(batch, invalid, textures))
         /\ AllHold(BatchSteps(batch, invalid, textures)) => IsDigested(batch, textures)
<1> DEFINE count == Len(textures[batch.kind])
           some == batch.vertices # 0
           threes == batch.vertices % 3 = 0
           whole == some /\ threes
           named == batch.material \in 0 .. count - 1
           slot == Element(batch.material, count)
           steps == <<Require(invalid, whole, {}), Require("InvalidMaterialIndex", named, {slot}),
                      Require("NonFiniteVertex", batch.finite, {})>>
<1>1. BatchSteps(batch, invalid, textures) = steps
  BY DEF BatchSteps
<1>2. named => InRange(slot)
  <2> HIDE DEF count
  <2>1. count \in Nat
    BY DEF count
  <2> QED BY <2>1 DEF InRange, RangeFits, Element
<1>3. some /\ named <=> IsDigested(batch, textures)
  BY DEF IsDigested
<1> HIDE DEF named, slot, some, threes
<1>4. Sound(steps)
  <2> HIDE DEF whole
  <2> QED BY <1>2 DEF Require, Sound, IsSteps, FailuresNamed, Verdicts, Guarded
<1>5. AllHold(steps) => whole /\ named
  <2> HIDE DEF whole
  <2> QED BY DEF AllHold, Require
<1> HIDE DEF steps
<1> QED BY <1>1, <1>3, <1>4, <1>5

(* All the batches of a world.                                             *)
LEMMA BatchesSound ==
  ASSUME NEW batches, IsSteps(batches), NEW textures, NEW invalid, invalid \notin Verdicts,
         \A i \in DOMAIN batches : Len(textures[batches[i].kind]) \in Nat
  PROVE  LET steps == ForEach([i \in DOMAIN batches |-> BatchSteps(batches[i], invalid, textures)]) IN
         Sound(steps) /\ (AllHold(steps) => \A i \in DOMAIN batches : IsDigested(batches[i], textures))
<1> DEFINE n == Len(batches)
           turn(i) == BatchSteps(batches[i], invalid, textures)
           turns == [i \in DOMAIN batches |-> turn(i)]
<1>1. n \in Nat /\ DOMAIN batches = 1 .. n
  BY DEF IsSteps
<1>2. \A i \in 1 .. n : Sound(turn(i)) /\ (AllHold(turn(i)) => IsDigested(batches[i], textures))
  BY <1>1, BatchStepsSound
<1> HIDE DEF n, turn
<1>3. turns = [i \in 1 .. n |-> turns[i]] /\ \A i \in 1 .. n : turns[i] = turn(i)
  BY <1>1
<1> HIDE DEF turns
<1>4. Sound(ForEach(turns)) /\ (AllHold(ForEach(turns)) => \A i \in 1 .. n : AllHold(turns[i]))
  BY <1>1, <1>2, <1>3, ForEachSound
<1>5. AllHold(ForEach(turns)) => \A i \in DOMAIN batches : IsDigested(batches[i], textures)
  BY <1>1, <1>2, <1>3, <1>4
<1> QED BY <1>4, <1>5 DEF turns, turn

(* The parity digest looks a batch's texture up only where it is one.      *)
LEMMA ParityStepsSound ==
  ASSUME NEW terrain, IsSteps(terrain), NEW static, IsSteps(static), NEW textures,
         \A i \in DOMAIN terrain : Len(textures[terrain[i].kind]) \in Nat,
         \A i \in DOMAIN static : Len(textures[static[i].kind]) \in Nat
  PROVE  /\ Sound(ParitySteps(terrain, static, textures))
         /\ AllHold(ParitySteps(terrain, static, textures)) =>
              /\ \A i \in DOMAIN terrain : IsDigested(terrain[i], textures)
              /\ \A i \in DOMAIN static : IsDigested(static[i], textures)
<1> DEFINE some == terrain # <<>> /\ static # <<>>
           first == <<Require("EmptyWorld", some, {})>>
           a == ForEach([i \in DOMAIN terrain |-> BatchSteps(terrain[i], "InvalidTerrainBatch", textures)])
           b == ForEach([i \in DOMAIN static |-> BatchSteps(static[i], "InvalidStaticBatch", textures)])
           ground == \A i \in DOMAIN terrain : IsDigested(terrain[i], textures)
           placed == \A i \in DOMAIN static : IsDigested(static[i], textures)
<1>1. ParitySteps(terrain, static, textures) = Then(Then(first, a), b)
  BY DEF ParitySteps
<1>2. Sound(first)
  <2> HIDE DEF some
  <2> QED BY StepSound DEF Verdicts
<1>3. Sound(a) /\ (AllHold(a) => ground)
  BY BatchesSound DEF Verdicts
<1>4. Sound(b) /\ (AllHold(b) => placed)
  BY BatchesSound DEF Verdicts
<1> HIDE DEF first, a, b, ground, placed
<1> DEFINE c == Then(first, a)
<1>5. Sound(c) /\ (AllHold(c) => AllHold(a))
  BY <1>2, <1>3, ThenSound
<1> HIDE DEF c
<1>6. Sound(Then(c, b)) /\ (AllHold(Then(c, b)) => AllHold(c) /\ AllHold(b))
  BY <1>4, <1>5, ThenSound
<1> QED BY <1>1, <1>3, <1>4, <1>5, <1>6 DEF c, ground, placed
=============================================================================
