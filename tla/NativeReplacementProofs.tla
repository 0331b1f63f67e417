---------------------- MODULE NativeReplacementProofs ----------------------
(***************************************************************************)
(* The native replacements: how initialize puts them over the recompiled   *)
(* functions (Startup), for any lists of them and any program, and the one *)
(* that decompresses WAD streams, for any call, stream and RAM.  Nothing   *)
(* here is an induction over data the library could do: the one there is,  *)
(* that copying byte by byte repeats, argues from the first byte that      *)
(* would be wrong.                                                         *)
(***************************************************************************)
EXTENDS WadDecompressor, Startup, FiniteSetTheorems, SequenceTheorems,
        WellFoundedInduction, TLAPS

----------------------------------------------------------------------------
(* The naturals are well ordered.                                          *)
LEMMA LeastNatural ==
  ASSUME NEW S \in SUBSET Nat, S # {}
  PROVE  \E s \in S : \A k \in S : s <= k
<1> DEFINE UpTo(k) == S \cap 0 .. k
           Initials == {UpTo(k) : k \in S}
<1>1. ASSUME NEW k \in S PROVE IsFiniteSet(UpTo(k))
  <2>1. IsFiniteSet(0 .. k)
    BY FS_Interval
  <2> QED
    BY <2>1, FS_Subset
<1>2. Initials \subseteq FiniteSubsetsOf(S) /\ Initials # {}
  BY <1>1 DEF FiniteSubsetsOf
<1>3. IsWellFoundedOn(StrictSubsetOrdering(S), FiniteSubsetsOf(S))
  BY FS_StrictSubsetOrderingWellFounded
<1>4. PICK U \in Initials : \A V \in Initials : <<V, U>> \notin StrictSubsetOrdering(S)
  <2> HIDE DEF Initials
  <2> QED
    BY <1>2, <1>3, WFMin
<1>5. PICK s \in S : U = UpTo(s)
  OBVIOUS
<1>6. ASSUME NEW k \in S, k < s PROVE FALSE
  <2>1. UpTo(k) \subseteq UpTo(s) /\ s \in UpTo(s) /\ s \notin UpTo(k)
    BY <1>6
  <2> QED
    BY <1>4, <1>5, <2>1 DEF StrictSubsetOrdering
<1> QED
  BY <1>6

----------------------------------------------------------------------------
(* Startup.                                                                *)
StartupPhases ==
  {"Start", "Vfs", "Bound", "Backend", "Loaded", "Install", "Initialized", "Running",
   "Failed", "Destroyed"}

(* What add lets a registry hold, and what the lists give it.              *)
EntriesSound(entries) ==
  /\ DOMAIN entries \subseteq Nat
  /\ \A i \in DOMAIN entries :
       /\ entries[i].stage \in {"Bootstrap", "Runtime"}
       /\ entries[i].storage # "none" => entries[i].storage \in Storages
  /\ \A i, j \in DOMAIN entries :
       /\ entries[i].address = entries[j].address /\ entries[i].stage = entries[j].stage => i = j
       /\ entries[i].storage = entries[j].storage /\ entries[i].storage # "none" => i = j
       /\ entries[i].stage = "Bootstrap" /\ entries[j].storage # "none" =>
            entries[i].address # entries[j].address

Wraps(i) == registry[i].storage # "none"
Fallback(i) == fallbacks[registry[i].storage]
SlotHolds(i, function) == registry[i].address \in Pcs => functions[registry[i].address] = function

(* Until the replacements are declared nothing has been touched; until the *)
(* second stage nothing a wrapper is to take has been.                     *)
RegistrySound ==
  /\ EntriesSound(registry) /\ DOMAIN fallbacks = Storages
  /\ host.phase \in {"Start", "Vfs", "Bound"} =>
       /\ registry = <<>>
       /\ \A pc \in Pcs : functions[pc] = Original(pc)
       /\ \A storage \in Storages : fallbacks[storage] = Missing
  /\ host.phase \in {"Backend", "Loaded", "Install"} =>
       \A i \in DOMAIN registry :
         /\ registry[i].stage = "Bootstrap" => SlotHolds(i, registry[i].function)
         /\ Wraps(i) => SlotHolds(i, Original(registry[i].address))
  /\ \A i \in DOMAIN registry : Wraps(i) => Fallback(i) \in {Missing, Original(registry[i].address)}

Initialized ==
  host.phase \in {"Initialized", "Running"} =>
    \A i \in DOMAIN registry :
      /\ Wraps(i) => Fallback(i) = Original(registry[i].address)
      /\ \E j \in DOMAIN registry : registry[j].address = registry[i].address
                                      /\ SlotHolds(i, registry[j].function)

LinksSound ==
  /\ links \in [slots : [0 .. kDbcLinkCapacity - 1 -> BOOLEAN], held : Seq(0 .. kDbcLinkCapacity - 1)]
  /\ \A i \in DOMAIN links.held : links.slots[links.held[i]]
  /\ \A i, j \in DOMAIN links.held : links.held[i] = links.held[j] => i = j

HostSound ==
  /\ host \in [phase : StartupPhases, services : BOOLEAN, bridges : BOOLEAN]
  /\ host.phase \in {"Bound", "Backend", "Loaded", "Install", "Initialized", "Running"} =>
       host.services
  /\ host.phase \in {"Backend", "Loaded", "Install", "Initialized", "Running"} =>
       frozen = GeneratedPcs

StartupInv == HostSound /\ RegistrySound /\ Initialized /\ LinksSound

----------------------------------------------------------------------------
(* add keeps the first entry of an address in a stage and refuses others.  *)
LEMMA AddedIsSound ==
  ASSUME NEW list \in Declarations
  PROVE  EntriesSound(Added(list))
<1> DEFINE entries == Added(list)
           Accepted == {j \in DOMAIN list : ~Refused(list, j)}
<1>1. DOMAIN entries = Accepted /\ \A i \in Accepted : entries[i] = list[i]
  BY DEF Added
<1>2. Accepted \subseteq DOMAIN list /\ DOMAIN list \subseteq Nat \ {0}
  BY StartupAssumption
<1>3. ASSUME NEW i \in Accepted, NEW j \in Accepted, i < j,
             list[i].address = list[j].address, list[i].stage = list[j].stage
      PROVE  FALSE
  <2>1. i \in 1 .. j - 1
    BY <1>2, <1>3
  <2> QED
    BY <1>3, <2>1 DEF Refused
<1>4. ASSUME NEW i \in Accepted, NEW j \in Accepted,
             list[i].address = list[j].address, list[i].stage = list[j].stage
      PROVE  i = j
  <2>1. i \in Nat /\ j \in Nat
    BY <1>2
  <2>2. ~(i < j) /\ ~(j < i)
    BY <1>3, <1>4
  <2> QED
    BY <2>1, <2>2
<1>5. \A i \in Accepted : list[i].storage # "none" => list[i].storage \in Storages
  BY <1>2 DEF Storages
<1> HIDE DEF entries
<1> QED
  <2> HIDE DEF Accepted
  <2>1. EntriesSound(entries)
    BY <1>1, <1>2, <1>4, <1>5, StartupAssumption DEF EntriesSound
  <2> QED
    BY <2>1 DEF entries

LEMMA MaxOfOne ==
  ASSUME NEW k \in Int
  PROVE  Max({k}) = k
BY DEF Max

LEMMA SlotAfterOne ==
  ASSUME NEW entries, NEW places, NEW k \in places, k \in Int,
         \A i \in places : entries[i].address = entries[k].address => i = k
  PROVE  SlotAfter(entries, places, entries[k].address) = entries[k].function
<1>1. {i \in places : entries[i].address = entries[k].address} = {k}
  OBVIOUS
<1> QED
  BY <1>1, MaxOfOne DEF SlotAfter

LEMMA SlotAfterNone ==
  ASSUME NEW entries, NEW places, NEW pc, \A i \in places : entries[i].address # pc
  PROVE  SlotAfter(entries, places, pc) = functions[pc]
BY DEF SlotAfter

(* Installing a stage puts each of its entries in its slot, captures what  *)
(* was there, and leaves the other slots and storages alone.               *)
LEMMA InstalledStage ==
  ASSUME NEW entries, EntriesSound(entries), NEW stage, Install(entries, stage),
         DOMAIN fallbacks = Storages
  PROVE  /\ DOMAIN fallbacks' = Storages
         /\ \A pc \in Pcs : (\A i \in OfStage(entries, stage) : entries[i].address # pc)
                              => functions'[pc] = functions[pc]
         /\ \A i \in OfStage(entries, stage) :
              /\ entries[i].address \in Pcs => functions'[entries[i].address] = entries[i].function
              /\ entries[i].storage # "none" =>
                   fallbacks'[entries[i].storage] =
                     IF entries[i].address \in Pcs THEN functions[entries[i].address] ELSE Missing
         /\ \A i \in DOMAIN entries \ OfStage(entries, stage) :
              entries[i].storage # "none" =>
                fallbacks'[entries[i].storage] = fallbacks[entries[i].storage]
<1> DEFINE places == OfStage(entries, stage)
           capturing(storage) == {i \in places : entries[i].storage = storage}
<1>1. /\ places \subseteq DOMAIN entries /\ places \subseteq Int
      /\ \A i, j \in places : entries[i].address = entries[j].address => i = j
  BY DEF EntriesSound, OfStage
<1>2. /\ \A pc \in Pcs : functions'[pc] = SlotAfter(entries, places, pc)
      /\ DOMAIN fallbacks' = Storages
      /\ \A storage \in Storages :
           fallbacks'[storage] = IF capturing(storage) = {} THEN fallbacks[storage]
                                 ELSE Captured(entries, places, Max(capturing(storage)))
  BY DEF Install
<1> HIDE DEF places
<1>3. ASSUME NEW pc \in Pcs, \A i \in places : entries[i].address # pc
      PROVE  functions'[pc] = functions[pc]
  BY <1>2, <1>3, SlotAfterNone
<1>4. ASSUME NEW i \in places, entries[i].address \in Pcs
      PROVE  functions'[entries[i].address] = entries[i].function
  <2>1. SlotAfter(entries, places, entries[i].address) = entries[i].function
    BY <1>1, SlotAfterOne
  <2> QED
    BY <1>2, <1>4, <2>1
<1>5. ASSUME NEW i \in places, entries[i].storage # "none"
      PROVE  fallbacks'[entries[i].storage] =
               IF entries[i].address \in Pcs THEN functions[entries[i].address] ELSE Missing
  <2>1. entries[i].storage \in Storages /\ capturing(entries[i].storage) = {i}
    BY <1>1, <1>5 DEF EntriesSound
  <2>2. fallbacks'[entries[i].storage] = Captured(entries, places, i)
    <3>1. Max({i}) = i
      BY <1>1, MaxOfOne
    <3> QED
      BY <1>2, <2>1, <3>1
  <2>3. \A j \in {k \in places : k < i} : entries[j].address # entries[i].address
    BY <1>1
  <2>4. SlotAfter(entries, {k \in places : k < i}, entries[i].address)
          = functions[entries[i].address]
    BY <2>3, SlotAfterNone
  <2> QED
    BY <2>2, <2>4 DEF Captured
<1>6. ASSUME NEW i \in DOMAIN entries, i \notin places, entries[i].storage # "none"
      PROVE  fallbacks'[entries[i].storage] = fallbacks[entries[i].storage]
  <2>1. entries[i].storage \in Storages /\ capturing(entries[i].storage) = {}
    BY <1>1, <1>6 DEF EntriesSound
  <2> QED
    BY <1>2, <2>1
<1> QED
  BY <1>2, <1>3, <1>4, <1>5, <1>6 DEF places

----------------------------------------------------------------------------
(* The steps.  Only the two installations touch slots and storages.        *)
LEMMA StartupInitEstablishesInv == StartupInit => StartupInv
<1> SUFFICES ASSUME StartupInit PROVE StartupInv
  OBVIOUS
<1>1. HostSound
  BY DEF StartupInit, HostSound, StartupPhases
<1>2. RegistrySound
  BY DEF StartupInit, RegistrySound, EntriesSound
<1>3. Initialized
  BY DEF StartupInit, Initialized
<1>4. LinksSound
  BY DEF StartupInit, LinksSound, EmptySlots
<1> QED
  BY <1>1, <1>2, <1>3, <1>4 DEF StartupInv

\* A step of the host that replaces nothing and does not reach a stage's end.
LEMMA HostStepKeepsInv ==
  ASSUME StartupInv, UNCHANGED <<registry, functions, fallbacks, links>>, frozen' = frozen,
         HostSound', host'.phase = host.phase
           \/ <<host.phase, host'.phase>> \in
                {<<"Start", "Vfs">>, <<"Vfs", "Bound">>, <<"Backend", "Loaded">>,
                 <<"Loaded", "Install">>, <<"Initialized", "Running">>}
           \/ host'.phase \in {"Failed", "Destroyed"}
  PROVE  StartupInv'
<1>1. RegistrySound'
  BY DEF StartupInv, RegistrySound, EntriesSound, Wraps, Fallback, SlotHolds
<1>2. Initialized'
  BY DEF StartupInv, Initialized, Wraps, Fallback, SlotHolds
<1>3. LinksSound'
  BY DEF StartupInv, LinksSound
<1> QED
  BY <1>1, <1>2, <1>3 DEF StartupInv

LEMMA CheckElfKeepsInv == StartupInv /\ CheckElf => StartupInv'
<1> SUFFICES ASSUME StartupInv, CheckElf PROVE StartupInv'
  OBVIOUS
<1>1. HostSound' /\ host'.phase \in {"Failed", "Vfs"} /\ host.phase = "Start"
  BY DEF StartupInv, CheckElf, Fails, HostSound, StartupPhases
<1> QED
  BY <1>1, HostStepKeepsInv DEF CheckElf

LEMMA InitializeVfsKeepsInv == StartupInv /\ InitializeVfs => StartupInv'
<1> SUFFICES ASSUME StartupInv, InitializeVfs PROVE StartupInv'
  OBVIOUS
<1>1. HostSound' /\ host'.phase \in {"Failed", "Bound"} /\ host.phase = "Vfs"
  BY DEF StartupInv, InitializeVfs, Fails, HostSound, StartupPhases
<1> QED
  BY <1>1, HostStepKeepsInv DEF InitializeVfs

LEMMA InitializeBackendKeepsInv == StartupInv /\ InitializeBackend => StartupInv'
<1> SUFFICES ASSUME StartupInv, InitializeBackend PROVE StartupInv'
  OBVIOUS
<1>1. HostSound' /\ (host'.phase = "Failed" \/ <<host.phase, host'.phase>> \in
                        {<<"Backend", "Loaded">>, <<"Loaded", "Install">>})
  BY DEF StartupInv, InitializeBackend, Fails, HostSound, StartupPhases
<1> QED
  BY <1>1, HostStepKeepsInv DEF InitializeBackend

LEMMA RunKeepsInv == StartupInv /\ Run => StartupInv'
<1> SUFFICES ASSUME StartupInv, Run PROVE StartupInv'
  OBVIOUS
<1>1. HostSound' /\ host'.phase = "Running" /\ host.phase = "Initialized"
  BY DEF StartupInv, Run, HostSound, StartupPhases
<1> QED
  BY <1>1, HostStepKeepsInv DEF Run

LEMMA DestroyKeepsInv == StartupInv /\ Destroy => StartupInv'
<1> SUFFICES ASSUME StartupInv, Destroy PROVE StartupInv'
  OBVIOUS
<1>1. HostSound' /\ host'.phase = "Destroyed"
  BY DEF StartupInv, Destroy, HostSound, StartupPhases
<1> QED
  BY <1>1, HostStepKeepsInv DEF Destroy

\* The static pcs are taken down from a table nothing has been replaced in.
LEMMA InstallBootstrapKeepsInv == StartupInv /\ InstallBootstrap => StartupInv'
<1> SUFFICES ASSUME StartupInv, InstallBootstrap PROVE StartupInv'
  OBVIOUS
<1>1. PICK list \in Declarations : registry' = Added(list) /\ Install(Added(list), "Bootstrap")
  BY DEF InstallBootstrap
<1> DEFINE entries == Added(list)
<1>2. EntriesSound(entries) /\ registry' = entries /\ Install(entries, "Bootstrap")
  BY <1>1, AddedIsSound
<1> HIDE DEF entries
<1>3. /\ DOMAIN fallbacks = Storages
      /\ \A pc \in Pcs : functions[pc] = Original(pc)
      /\ \A storage \in Storages : fallbacks[storage] = Missing
      /\ host.phase = "Bound" /\ host'.phase = "Backend"
  BY DEF StartupInv, RegistrySound, HostSound, InstallBootstrap
<1>4. HostSound'
  <2>1. \A pc \in Pcs : functions[pc] # Missing <=> pc \in GeneratedPcs
    <3>1. \A pc \in Pcs : Generated(pc)[1] = "generated" /\ Missing[1] = "missing"
      BY DEF Generated, Missing
    <3> QED
      BY <1>3, <3>1 DEF Original
  <2>2. frozen' = GeneratedPcs
    BY <2>1, StartupAssumption DEF InstallBootstrap
  <2> QED
    BY <2>2 DEF StartupInv, InstallBootstrap, HostSound, StartupPhases
<1>5. RegistrySound'
  <2>1. DOMAIN fallbacks' = Storages
    BY <1>2, <1>3, InstalledStage
  <2>2. ASSUME NEW i \in DOMAIN entries, entries[i].stage = "Bootstrap", entries[i].address \in Pcs
        PROVE  functions'[entries[i].address] = entries[i].function
    <3>1. i \in OfStage(entries, "Bootstrap")
      BY <2>2 DEF OfStage
    <3> QED
      BY <1>2, <1>3, <2>2, <3>1, InstalledStage
  <2>3. ASSUME NEW i \in DOMAIN entries, entries[i].storage # "none", entries[i].address \in Pcs
        PROVE  functions'[entries[i].address] = Original(entries[i].address)
    <3>1. \A j \in OfStage(entries, "Bootstrap") : entries[j].address # entries[i].address
      BY <1>2, <2>3 DEF OfStage, EntriesSound
    <3>2. functions'[entries[i].address] = functions[entries[i].address]
      BY <1>2, <1>3, <2>3, <3>1, InstalledStage
    <3> QED
      BY <1>3, <2>3, <3>2
  <2>4. ASSUME NEW i \in DOMAIN entries, entries[i].storage # "none"
        PROVE  fallbacks'[entries[i].storage] = Missing
    <3>1. i \in DOMAIN entries \ OfStage(entries, "Bootstrap")
      BY <1>2, <2>4 DEF OfStage, EntriesSound
    <3>2. fallbacks'[entries[i].storage] = fallbacks[entries[i].storage]
      BY <1>2, <1>3, <2>4, <3>1, InstalledStage
    <3> QED
      BY <1>2, <1>3, <2>4, <3>2 DEF EntriesSound
  <2> QED
    BY <1>2, <1>3, <2>1, <2>2, <2>3, <2>4 DEF RegistrySound, EntriesSound, Wraps, Fallback, SlotHolds
<1>6. Initialized'
  BY <1>3 DEF Initialized
<1>7. LinksSound'
  BY DEF StartupInv, LinksSound, InstallBootstrap
<1> QED
  BY <1>4, <1>5, <1>6, <1>7 DEF StartupInv

\* Every wrapper of the second stage takes what the recompiler generated.
LEMMA InstallRuntimeKeepsInv == StartupInv /\ InstallRuntime => StartupInv'
<1> SUFFICES ASSUME StartupInv, InstallRuntime PROVE StartupInv'
  OBVIOUS
<1>1. /\ EntriesSound(registry) /\ Install(registry, "Runtime") /\ DOMAIN fallbacks = Storages
      /\ registry' = registry /\ host.phase = "Install" /\ host'.phase = "Initialized"
  BY DEF StartupInv, RegistrySound, HostSound, InstallRuntime
<1>2. \A i \in DOMAIN registry :
        /\ registry[i].stage = "Bootstrap" => SlotHolds(i, registry[i].function)
        /\ Wraps(i) => SlotHolds(i, Original(registry[i].address))
  BY <1>1 DEF StartupInv, RegistrySound
<1>3. ASSUME NEW i \in DOMAIN registry, Wraps(i)
      PROVE  fallbacks'[registry[i].storage] = Original(registry[i].address)
  <2>1. i \in OfStage(registry, "Runtime")
    BY <1>1, <1>3 DEF OfStage, EntriesSound, Wraps
  <2>2. fallbacks'[registry[i].storage] =
          IF registry[i].address \in Pcs THEN functions[registry[i].address] ELSE Missing
    BY <1>1, <1>3, <2>1, InstalledStage DEF Wraps
  <2>3. registry[i].address \notin Pcs => Original(registry[i].address) = Missing
    BY StartupAssumption DEF Original
  <2> QED
    BY <1>2, <1>3, <2>2, <2>3 DEF SlotHolds
<1>4. ASSUME NEW i \in DOMAIN registry, registry[i].address \in Pcs
      PROVE  \E j \in DOMAIN registry : /\ registry[j].address = registry[i].address
                                        /\ functions'[registry[i].address] = registry[j].function
  <2>1. CASE \E j \in OfStage(registry, "Runtime") : registry[j].address = registry[i].address
    <3>1. PICK j \in OfStage(registry, "Runtime") : registry[j].address = registry[i].address
      BY <2>1
    <3>2. functions'[registry[j].address] = registry[j].function
      BY <1>1, <1>4, <3>1, InstalledStage
    <3> QED
      BY <3>1, <3>2 DEF OfStage
  <2>2. CASE \A j \in OfStage(registry, "Runtime") : registry[j].address # registry[i].address
    <3>1. functions'[registry[i].address] = functions[registry[i].address]
      BY <1>1, <1>4, <2>2, InstalledStage
    <3>2. registry[i].stage = "Bootstrap"
      BY <1>1, <2>2 DEF OfStage, EntriesSound
    <3> QED
      BY <1>2, <1>4, <3>1, <3>2 DEF SlotHolds
  <2> QED
    BY <2>1, <2>2
<1>5. DOMAIN fallbacks' = Storages
  BY <1>1, InstalledStage
<1>6. RegistrySound'
  BY <1>1, <1>3, <1>5 DEF RegistrySound, EntriesSound, Wraps, Fallback
<1>7. Initialized'
  BY <1>1, <1>3, <1>4 DEF Initialized, Wraps, Fallback, SlotHolds
<1>8. HostSound'
  BY DEF StartupInv, InstallRuntime, HostSound, StartupPhases
<1>9. LinksSound'
  BY DEF StartupInv, LinksSound, InstallRuntime
<1> QED
  BY <1>6, <1>7, <1>8, <1>9 DEF StartupInv

----------------------------------------------------------------------------
(* The guest's calls.                                                      *)
LEMMA LinkStepKeepsInv ==
  ASSUME StartupInv, UNCHANGED <<host, registry, functions, fallbacks, frozen>>, LinksSound'
  PROVE  StartupInv'
BY DEF StartupInv, HostSound, RegistrySound, EntriesSound, Initialized, Wraps, Fallback, SlotHolds

LEMMA CallDbcInitKeepsInv == StartupInv /\ CallDbcInit => StartupInv'
<1> SUFFICES ASSUME StartupInv, CallDbcInit PROVE StartupInv'
  OBVIOUS
<1>1. LinksSound'
  BY DEF StartupInv, LinksSound, CallDbcInit, EmptySlots
<1> QED
  BY <1>1, LinkStepKeepsInv DEF CallDbcInit

\* The slot handed out was free, so nobody holds it.
LEMMA CallDbcLinkAllocateKeepsInv == StartupInv /\ CallDbcLinkAllocate => StartupInv'
<1> SUFFICES ASSUME StartupInv, CallDbcLinkAllocate PROVE StartupInv'
  OBVIOUS
<1> DEFINE slot == CHOOSE first \in FreeSlots : \A other \in FreeSlots : first <= other
           Slots == 0 .. kDbcLinkCapacity - 1
<1>1. /\ links \in [slots : [Slots -> BOOLEAN], held : Seq(Slots)]
      /\ \A i \in DOMAIN links.held : links.slots[links.held[i]]
      /\ \A i, j \in DOMAIN links.held : links.held[i] = links.held[j] => i = j
  BY DEF StartupInv, LinksSound
<1>2. CASE FreeSlots = {}
  <2>1. LinksSound'
    BY <1>2 DEF CallDbcLinkAllocate, StartupInv, LinksSound
  <2> QED
    BY <2>1, LinkStepKeepsInv DEF CallDbcLinkAllocate
<1>3. CASE FreeSlots # {}
  <2>1. slot \in FreeSlots
    <3>1. FreeSlots \in SUBSET Nat
      BY <1>1, StartupAssumption DEF FreeSlots
    <3> QED
      BY <1>3, <3>1, LeastNatural
  <2>2. slot \in Slots /\ ~links.slots[slot]
    BY <1>1, <2>1 DEF FreeSlots
  <2>3. links' = [slots |-> [links.slots EXCEPT ![slot] = TRUE], held |-> Append(links.held, slot)]
    BY <1>3 DEF CallDbcLinkAllocate
  <2> HIDE DEF slot, Slots
  <2>4. /\ links' \in [slots : [Slots -> BOOLEAN], held : Seq(Slots)]
        /\ links'.slots[slot] /\ \A other \in Slots : links.slots[other] => links'.slots[other]
    BY <1>1, <2>2, <2>3
  <2>5. /\ DOMAIN links'.held = 1 .. Len(links.held) + 1 /\ Len(links.held) \in Nat
        /\ \A i \in 1 .. Len(links.held) : links'.held[i] = links.held[i]
        /\ links'.held[Len(links.held) + 1] = slot
        /\ DOMAIN links.held = 1 .. Len(links.held)
        /\ \A i \in 1 .. Len(links.held) : links.held[i] \in Slots
    BY <1>1, <2>2, <2>3
  <2>6. \A i \in 1 .. Len(links.held) : links.held[i] # slot
    BY <1>1, <2>2, <2>5
  <2>7. LinksSound'
    <3>1. \A i \in DOMAIN links'.held : links'.slots[links'.held[i]]
      BY <1>1, <2>4, <2>5
    <3>2. ASSUME NEW i \in DOMAIN links'.held, NEW j \in DOMAIN links'.held,
                 links'.held[i] = links'.held[j]
          PROVE  i = j
      <4>1. CASE i <= Len(links.held) /\ j <= Len(links.held)
        BY <1>1, <2>5, <3>2, <4>1
      <4>2. CASE i > Len(links.held) \/ j > Len(links.held)
        BY <2>5, <2>6, <3>2, <4>2
      <4> QED
        BY <2>5, <4>1, <4>2
    <3> QED
      BY <2>4, <3>1, <3>2 DEF LinksSound, Slots
  <2> QED
    BY <2>7, LinkStepKeepsInv DEF CallDbcLinkAllocate
<1> QED
  BY <1>2, <1>3

(* The inductive invariant of initialization and of the links.             *)
THEOREM StartupInvariant == StartupSpec => []StartupInv
<1>1. StartupInit => StartupInv
  BY StartupInitEstablishesInv
<1>2. StartupInv /\ [StartupNext]_startupVars => StartupInv'
  <2> SUFFICES ASSUME StartupInv, [StartupNext]_startupVars PROVE StartupInv'
    OBVIOUS
  <2>1. CASE StartupNext
    BY <2>1, CheckElfKeepsInv, InitializeVfsKeepsInv, InstallBootstrapKeepsInv,
       InitializeBackendKeepsInv, InstallRuntimeKeepsInv, RunKeepsInv, DestroyKeepsInv,
       CallDbcInitKeepsInv, CallDbcLinkAllocateKeepsInv DEF StartupNext
  <2>2. CASE UNCHANGED startupVars
    <3>1. LinksSound'
      BY <2>2 DEF StartupInv, LinksSound, startupVars
    <3> QED
      BY <2>2, <3>1, LinkStepKeepsInv DEF startupVars
  <2> QED
    BY <2>1, <2>2
<1> QED
  BY <1>1, <1>2, PTL DEF StartupSpec

(* Every fallback is the recompiler's function for its own pc, the frozen  *)
(* pcs are the recompiler's, a running guest finds every replacement, and  *)
(* no link is handed out twice.                                            *)
THEOREM FallbacksStayStatic == StartupSpec => []FallbacksAreStatic
<1>1. StartupInv => FallbacksAreStatic
  <2> SUFFICES ASSUME StartupInv PROVE FallbacksAreStatic
    OBVIOUS
  <2>1. \A i \in DOMAIN registry : registry[i].storage # "none" =>
          /\ fallbacks[registry[i].storage] \in {Missing, Original(registry[i].address)}
          /\ host.phase = "Running" =>
               fallbacks[registry[i].storage] = Original(registry[i].address)
    BY DEF StartupInv, RegistrySound, Initialized, Wraps, Fallback
  <2>2. host.phase = "Running" => \A i \in DOMAIN registry : registry[i].address \in Pcs =>
          \E j \in DOMAIN registry : /\ registry[j].address = registry[i].address
                                     /\ functions[registry[i].address] = registry[j].function
    BY DEF StartupInv, Initialized, SlotHolds
  <2> QED
    BY <2>1, <2>2 DEF StartupInv, HostSound, LinksSound, FallbacksAreStatic
<1> QED
  BY <1>1, StartupInvariant, PTL

----------------------------------------------------------------------------
(* The WAD decompressor.                                                   *)
WadBytes == {"stream", "before"} \X Int      \* FromStream and HeldBefore

WadStatuses ==
  {"Idle", "Decoding", "Ok", "Returned", "input-range", "output-range", "invalid-magic",
   "encoded-range", "InputExhausted", "OutputOverflow", "InvalidMatch", "InvalidBlockMarker"}

(* Memory after bytes were put at the destination, and nothing elsewhere.  *)
HoldsExactly(memory, bytes, destination) ==
  /\ memory \in [1 .. RamCells -> WadBytes] /\ bytes \in Seq(WadBytes)
  /\ bytes # <<>> => destination + Len(bytes) <= RamCells
  /\ \A i \in 1 .. Len(bytes) : memory[destination + i] = bytes[i]
  /\ \A cell \in 1 .. RamCells :
       memory[cell] # HeldBefore(cell) =>
         destination < cell /\ cell <= destination + Len(bytes)

WadTypeOK ==
  wad \in [status : WadStatuses, call : Calls \cup {IdleWad.call},
           input : Int, written : Nat, v0 : Nat]

WadInv ==
  /\ WadTypeOK
  /\ HoldsExactly(ram, expanded, wad.call.destination) /\ Len(expanded) = wad.written
  /\ wad.status = "Idle" => wad.written = 0
  /\ wad.status = "Ok" => wad.input = wad.call.size
  /\ wad.v0 # 0 => wad.v0 = wad.written /\ wad.status = "Returned"

----------------------------------------------------------------------------
(* Remainders.                                                             *)
LEMMA MultipleBetween ==
  ASSUME NEW d \in Nat \ {0}, NEW k \in Int, -d < d * k, d * k < d
  PROVE  k = 0
<1>1. CASE k >= 1
  <2>1. d * k >= d
    BY <1>1
  <2> QED
    BY <2>1
<1>2. CASE k <= -1
  <2>1. d * k <= -d
    BY <1>2
  <2> QED
    BY <2>1
<1> QED
  BY <1>1, <1>2

LEMMA RemainderRepeats ==
  ASSUME NEW i \in Nat, NEW d \in Nat \ {0}
  PROVE  /\ i < d => i % d = i
         /\ i >= d => (i - d) % d = i % d
<1>1. CASE i < d
  BY <1>1
<1>2. CASE i >= d
  <2> DEFINE q == i \div d
             p == (i - d) \div d
             r == i % d
             t == (i - d) % d
  <2>1. i = d * q + r /\ q \in Int /\ r \in 0 .. d - 1
    OBVIOUS
  <2>2. i - d = d * p + t /\ p \in Int /\ t \in 0 .. d - 1
    BY <1>2
  <2> HIDE DEF q, p, r, t
  <2>3. d * (q - p - 1) = d * q - d * p - d
    BY <2>1, <2>2
  <2>4. d * (q - p - 1) = t - r
    BY <2>1, <2>2, <2>3
  <2>5. q - p - 1 = 0
    BY <2>1, <2>2, <2>4, MultipleBetween
  <2>6. d * (q - p - 1) = 0
    BY <2>5
  <2>7. t = r
    BY <2>1, <2>2, <2>4, <2>6
  <2> QED
    BY <1>2, <2>7 DEF r, t
<1> QED
  BY <1>1, <1>2

----------------------------------------------------------------------------
(* A match copies byte by byte, each from distance back of the bytes that  *)
(* end before first, or of those copied already ...                        *)
IsCopy(copied, source, first, distance, length) ==
  \A i \in 0 .. length - 1 :
    copied[i] = IF i < distance THEN source[first + i - distance] ELSE copied[i - distance]

(* ... and stands for the last distance of them, repeated.                 *)
IsRepetition(copied, source, first, distance, length) ==
  \A i \in 0 .. length - 1 : copied[i] = source[first + (i % distance) - distance]

(* Repeating them is a copy, ...                                           *)
LEMMA RepetitionIsCopy ==
  ASSUME NEW source, NEW first \in Int, NEW distance \in Nat \ {0}, NEW length \in Nat,
         NEW copied, IsRepetition(copied, source, first, distance, length)
  PROVE  IsCopy(copied, source, first, distance, length)
<1> SUFFICES ASSUME NEW i \in 0 .. length - 1
             PROVE  copied[i] = IF i < distance THEN source[first + i - distance]
                                ELSE copied[i - distance]
  BY DEF IsCopy
<1>1. /\ i \in Nat
      /\ i < distance => i % distance = i
      /\ i >= distance => (i - distance) % distance = i % distance
  <2>1. i \in Nat
    OBVIOUS
  <2> QED
    BY <2>1, RemainderRepeats
<1>2. CASE i < distance
  BY <1>1, <1>2 DEF IsRepetition
<1>3. CASE i >= distance
  <2>1. i - distance \in 0 .. length - 1
    BY <1>3
  <2> QED
    BY <1>1, <1>3, <2>1 DEF IsRepetition
<1> QED
  BY <1>2, <1>3

(* ... and no other function is one: at the first index where another      *)
(* differed it would have copied an equal byte.                            *)
LEMMA CopyIsRepetition ==
  ASSUME NEW source, NEW first \in Int, NEW distance \in Nat \ {0}, NEW length \in Nat,
         NEW copied, IsCopy(copied, source, first, distance, length)
  PROVE  IsRepetition(copied, source, first, distance, length)
<1> DEFINE repeated(i) == source[first + (i % distance) - distance]
           Differs == {i \in 0 .. length - 1 : copied[i] # repeated(i)}
<1> SUFFICES ASSUME Differs # {} PROVE FALSE
  BY DEF IsRepetition
<1>1. PICK i \in Differs : \A j \in Differs : i <= j
  <2>1. Differs \in SUBSET Nat
    OBVIOUS
  <2> HIDE DEF Differs
  <2> QED
    BY <2>1, LeastNatural
<1>2. i \in 0 .. length - 1 /\ copied[i] # repeated(i)
  OBVIOUS
<1>3. /\ i < distance => i % distance = i
      /\ i >= distance => (i - distance) % distance = i % distance
  <2>1. i \in Nat
    BY <1>2
  <2> QED
    BY <2>1, RemainderRepeats
<1>4. CASE i < distance
  BY <1>2, <1>3, <1>4 DEF IsCopy
<1>5. CASE i >= distance
  <2>1. i - distance \in 0 .. length - 1 /\ ~(i <= i - distance)
    BY <1>2, <1>5
  <2>2. i - distance \notin Differs
    <3> HIDE DEF Differs
    <3> QED
      BY <1>1, <2>1
  <2>3. copied[i - distance] = repeated(i - distance)
    BY <2>1, <2>2
  <2> QED
    BY <1>2, <1>3, <1>5, <2>3 DEF IsCopy
<1> QED
  BY <1>2, <1>4, <1>5

----------------------------------------------------------------------------
(* The two copies put bytes after those already written.                   *)
LEMMA PutHoldsExactly ==
  ASSUME NEW memory, NEW bytes, NEW destination \in Nat, NEW n \in Nat,
         NEW more \in [1 .. n -> WadBytes],
         HoldsExactly(memory, bytes, destination),
         n # 0 => destination + Len(bytes) + n <= RamCells
  PROVE  HoldsExactly(Put(memory, destination + Len(bytes), more), bytes \o more, destination)
<1> DEFINE at == destination + Len(bytes)
           after == Put(memory, at, more)
<1>1. /\ memory \in [1 .. RamCells -> WadBytes] /\ bytes \in Seq(WadBytes)
      /\ more \in Seq(WadBytes) /\ Len(more) = n /\ at \in Nat /\ Len(bytes) \in Nat
  BY DEF HoldsExactly
<1>2. /\ bytes \o more \in Seq(WadBytes) /\ Len(bytes \o more) = Len(bytes) + n
      /\ \A i \in 1 .. Len(bytes) : (bytes \o more)[i] = bytes[i]
      /\ \A i \in 1 .. n : (bytes \o more)[Len(bytes) + i] = more[i]
  BY <1>1
<1>3. ASSUME NEW cell \in 1 .. RamCells
      PROVE  after[cell] = IF at < cell /\ cell <= at + n THEN more[cell - at] ELSE memory[cell]
  BY <1>1 DEF Put
<1>4. after \in [1 .. RamCells -> WadBytes]
  <2>1. ASSUME NEW cell \in 1 .. RamCells PROVE after[cell] \in WadBytes
    <3>1. CASE at < cell /\ cell <= at + n
      <4>1. cell - at \in 1 .. n
        BY <1>1, <3>1
      <4> QED
        BY <1>3, <3>1, <4>1
    <3>2. CASE ~(at < cell /\ cell <= at + n)
      BY <1>1, <1>3, <3>2
    <3> QED
      BY <3>1, <3>2
  <2>2. after = [cell \in 1 .. RamCells |-> after[cell]]
    BY <1>1 DEF Put
  <2> QED
    BY <2>1, <2>2
<1>5. bytes \o more # <<>> => destination + Len(bytes \o more) <= RamCells
  BY <1>1, <1>2 DEF HoldsExactly
<1>6. ASSUME NEW i \in 1 .. Len(bytes \o more)
      PROVE  after[destination + i] = (bytes \o more)[i]
  <2>1. i \in Nat /\ destination + i \in 1 .. RamCells
    BY <1>1, <1>2, <1>5, WadAssumption DEF HoldsExactly
  <2>2. CASE i <= Len(bytes)
    BY <1>1, <1>2, <1>3, <2>1, <2>2 DEF HoldsExactly
  <2>3. CASE i > Len(bytes)
    <3>1. i - Len(bytes) \in 1 .. n /\ (bytes \o more)[i] = more[i - Len(bytes)]
      BY <1>1, <1>2, <2>3
    <3>2. at < destination + i /\ destination + i <= at + n
      BY <1>1, <2>1, <2>3, <3>1
    <3>3. (destination + i) - at = i - Len(bytes)
      BY <1>1, <2>1
    <3> HIDE DEF after, at
    <3> QED
      BY <1>3, <2>1, <3>1, <3>2, <3>3
  <2> QED
    BY <1>1, <2>1, <2>2, <2>3
<1>7. ASSUME NEW cell \in 1 .. RamCells, after[cell] # HeldBefore(cell)
      PROVE  destination < cell /\ cell <= destination + Len(bytes \o more)
  BY <1>1, <1>2, <1>3, <1>7 DEF HoldsExactly
<1> QED
  <2> HIDE DEF after
  <2>1. HoldsExactly(after, bytes \o more, destination)
    BY <1>2, <1>4, <1>5, <1>6, <1>7 DEF HoldsExactly
  <2> QED
    BY <2>1 DEF after

LEMMA LenOfPut ==
  ASSUME NEW bytes \in Seq(WadBytes), NEW n \in Nat, NEW more \in [1 .. n -> WadBytes]
  PROVE  Len(bytes \o more) = Len(bytes) + n
<1>1. more \in Seq(WadBytes) /\ Len(more) = n
  OBVIOUS
<1> QED
  BY <1>1

LEMMA StreamBytesAreBytes ==
  ASSUME NEW input \in Int, NEW count \in Nat
  PROVE  StreamBytes(input, count) \in [1 .. count -> WadBytes]
BY DEF StreamBytes, FromStream, WadBytes

(* A match puts what it stands for, its last bytes repeated.               *)
LEMMA MatchPutsRepeated ==
  ASSUME NEW bytes, NEW distance \in Nat \ {0}, NEW length \in Nat,
         wad.call.destination \in Nat,
         HoldsExactly(ram, bytes, wad.call.destination), distance <= Len(bytes)
  PROVE  /\ Repeated(bytes, distance, length) \in [1 .. length -> WadBytes]
         /\ WithMatch(ram, Len(bytes), distance, length) =
              Put(ram, wad.call.destination + Len(bytes), Repeated(bytes, distance, length))
<1> DEFINE destination == wad.call.destination
           first == destination + Len(bytes) + 1
           more == Repeated(bytes, distance, length)
           copied[i \in 0 .. length - 1] ==
             IF i < distance THEN ram[first + i - distance] ELSE copied[i - distance]
<1>1. /\ Len(bytes) \in Nat /\ bytes \in Seq(WadBytes) /\ destination \in Nat /\ first \in Int
      /\ DOMAIN ram = 1 .. RamCells
  BY DEF HoldsExactly
<1>2. ASSUME NEW i \in 0 .. length - 1
      PROVE  LET k == Len(bytes) - distance + 1 + (i % distance)
             IN k \in 1 .. Len(bytes) /\ first + (i % distance) - distance = destination + k
  <2>1. i % distance \in 0 .. distance - 1
    OBVIOUS
  <2> QED
    BY <1>1, <2>1
<1>3. more \in [1 .. length -> WadBytes]
  <2>1. ASSUME NEW i \in 1 .. length
        PROVE  bytes[Len(bytes) - distance + 1 + ((i - 1) % distance)] \in WadBytes
    <3>1. i - 1 \in 0 .. length - 1
      OBVIOUS
    <3>2. Len(bytes) - distance + 1 + ((i - 1) % distance) \in 1 .. Len(bytes)
      BY <1>2, <3>1
    <3> QED
      BY <1>1, <3>2
  <2> QED
    BY <2>1 DEF Repeated
<1>4. IsRepetition(copied, ram, first, distance, length)
  <2> DEFINE Step(f) == [i \in 0 .. length - 1 |->
                           IF i < distance THEN ram[first + i - distance] ELSE f[i - distance]]
             repetition == [i \in 0 .. length - 1 |-> ram[first + (i % distance) - distance]]
  <2>1. first \in Int
    BY <1>1
  <2> HIDE DEF first
  <2>2. IsCopy(repetition, ram, first, distance, length)
    <3>1. IsRepetition(repetition, ram, first, distance, length)
      BY DEF IsRepetition
    <3> HIDE DEF repetition
    <3> QED
      BY <2>1, <3>1, RepetitionIsCopy
  <2>3. repetition = Step(repetition)
    BY <2>2 DEF IsCopy
  <2>4. copied = Step(copied)
    <3> HIDE DEF repetition
    <3> QED
      BY <2>3
  <2> HIDE DEF copied
  <2>5. IsCopy(copied, ram, first, distance, length)
    BY <2>4 DEF IsCopy
  <2> QED
    BY <2>1, <2>5, CopyIsRepetition
<1> HIDE DEF copied
<1>5. ASSUME NEW i \in 0 .. length - 1 PROVE copied[i] = more[i + 1]
  <2>1. ram[first + (i % distance) - distance]
          = bytes[Len(bytes) - distance + 1 + (i % distance)]
    BY <1>2 DEF HoldsExactly
  <2>2. i + 1 \in 1 .. length /\ (i + 1) - 1 = i
    OBVIOUS
  <2>3. more[i + 1] = bytes[Len(bytes) - distance + 1 + (i % distance)]
    BY <2>2 DEF Repeated
  <2> QED
    BY <1>4, <2>1, <2>3 DEF IsRepetition
<1>6. WithMatch(ram, Len(bytes), distance, length) =
        [cell \in DOMAIN ram |->
           IF first <= cell /\ cell < first + length THEN copied[cell - first] ELSE ram[cell]]
  BY DEF WithMatch, copied
<1>7. Len(more) = length
  BY <1>3
<1>8. ASSUME NEW cell \in 1 .. RamCells
      PROVE  (IF first <= cell /\ cell < first + length THEN copied[cell - first] ELSE ram[cell])
             = (IF first - 1 < cell /\ cell <= first - 1 + length
                THEN more[cell - (first - 1)] ELSE ram[cell])
  <2>1. CASE first <= cell /\ cell < first + length
    <3>1. cell - first \in 0 .. length - 1 /\ (cell - first) + 1 = cell - (first - 1)
      <4>1. cell \in Nat /\ first \in Int
        BY <1>1, WadAssumption
      <4> HIDE DEF first
      <4> QED
        BY <2>1, <4>1
    <3>2. copied[cell - first] = more[cell - (first - 1)]
      BY <1>5, <3>1
    <3>3. first - 1 < cell /\ cell <= first - 1 + length
      BY <1>1, <2>1
    <3> QED
      BY <2>1, <3>2, <3>3
  <2>2. CASE ~(first <= cell /\ cell < first + length)
    <3>1. ~(first - 1 < cell /\ cell <= first - 1 + length)
      BY <1>1, <2>2
    <3> QED
      BY <2>2, <3>1
  <2> QED
    BY <2>1, <2>2
<1>9. first - 1 = destination + Len(bytes)
  BY <1>1
<1> QED
  <2> HIDE DEF first, more
  <2>1. WithMatch(ram, Len(bytes), distance, length) = Put(ram, first - 1, more)
    BY <1>1, <1>6, <1>7, <1>8 DEF Put
  <2> QED
    BY <1>3, <1>9, <2>1 DEF more

----------------------------------------------------------------------------
LEMMA CallNumbersAreNaturals ==
  ASSUME WadTypeOK
  PROVE  /\ wad.call.source \in Nat /\ wad.call.destination \in Nat /\ wad.call.size \in Nat
         /\ RamCells \in Nat /\ HeaderCells \in Nat \ {0} /\ BlockCells \in Nat \ {0}
BY WadAssumption DEF WadTypeOK, IdleWad

(* The state a packet leaves, whether it fails, continues or completes.    *)
LEMMA AdvancedKeepsWadInv ==
  ASSUME WadInv, wad.status = "Decoding", NEW status \in WadStatuses \ {"Idle", "Ok", "Returned"},
         NEW input \in Int, NEW written \in Nat, wad' = Advanced(status, input, written),
         HoldsExactly(ram', expanded', wad.call.destination), Len(expanded') = written
  PROVE  WadInv'
<1>1. wad' = [wad EXCEPT !.status = wad'.status, !.input = input, !.written = written]
      /\ wad'.status \in {status, "Ok"} /\ (wad'.status = "Ok" => input = wad.call.size)
  BY DEF Advanced, WadInv, WadTypeOK, WadStatuses
<1>2. WadTypeOK'
  BY <1>1 DEF WadInv, WadTypeOK, WadStatuses
<1> QED
  BY <1>1, <1>2 DEF WadInv, WadTypeOK, WadStatuses

LEMMA CopyLiteralsKeepsWadInv ==
  ASSUME WadInv, wad.status = "Decoding", NEW input \in Int, NEW written \in Nat, NEW count \in Nat,
         NEW memory, NEW bytes, HoldsExactly(memory, bytes, wad.call.destination),
         Len(bytes) = written, count # 0 => CanWrite(written, count),
         CopyLiterals(input, written, count, memory, bytes)
  PROVE  WadInv'
<1>1. wad.call.destination \in Nat /\ RamCells \in Nat
  BY CallNumbersAreNaturals DEF WadInv
<1>2. StreamBytes(input, count) \in [1 .. count -> WadBytes]
  BY StreamBytesAreBytes
<1>3. count # 0 => wad.call.destination + Len(bytes) + count <= RamCells
  BY <1>1 DEF CanWrite, OutputRoom
<1>4. HoldsExactly(ram', expanded', wad.call.destination) /\ Len(expanded') = written + count
  <2> DEFINE more == StreamBytes(input, count)
             after == Put(memory, wad.call.destination + Len(bytes), more)
  <2>1. ram' = after /\ expanded' = bytes \o more
    BY DEF CopyLiterals, WithLiterals
  <2>2. HoldsExactly(after, bytes \o more, wad.call.destination)
    <3>1. more \in [1 .. count -> WadBytes]
      BY <1>2
    <3> HIDE DEF more
    <3> QED
      BY <1>1, <1>3, <3>1, PutHoldsExactly, Zenon
  <2>3. Len(bytes \o more) = written + count
    BY <1>2, LenOfPut DEF HoldsExactly
  <2> QED
    BY <2>1, <2>2, <2>3
<1>5. wad' = Advanced("Decoding", input + count, written + count)
  BY DEF CopyLiterals
<1> QED
  BY <1>4, <1>5, AdvancedKeepsWadInv DEF WadStatuses

LEMMA PacketFailsKeepsWadInv ==
  ASSUME WadInv, wad.status = "Decoding",
         NEW status \in WadStatuses \ {"Idle", "Ok", "Returned"}, PacketFails(status)
  PROVE  WadInv'
BY DEF PacketFails, WadInv, WadTypeOK, WadStatuses

LEMMA PacketIsTyped ==
  ASSUME NEW p \in WadPackets
  PROVE  /\ p.head \in Nat /\ p.literals \in Nat /\ p.distance \in Nat
         /\ p.length \in Nat /\ p.trailing \in Nat
BY WadAssumption

----------------------------------------------------------------------------
(* One lemma per action.                                                   *)
LEMMA CallWadKeepsWadInv == WadInv /\ CallWad => WadInv'
<1> SUFFICES ASSUME WadInv, CallWad PROVE WadInv'
  OBVIOUS
<1>1. PICK c \in Calls :
        wad' = [wad EXCEPT !.status = CallStatus(c), !.call = c, !.input = HeaderCells]
  BY DEF CallWad
<1>2. wad.status = "Idle" /\ wad.written = 0 /\ wad.v0 = 0 /\ Len(expanded) = 0
  BY DEF CallWad, WadInv
<1>3. CallStatus(c) \in WadStatuses \ {"Idle", "Returned"}
      /\ (CallStatus(c) = "Ok" => HeaderCells = c.size)
  BY DEF CallStatus, WadStatuses
<1>4. HeaderCells \in Int /\ c.destination \in Nat
  BY WadAssumption
<1>5. wad'.call = c /\ wad'.status = CallStatus(c) /\ wad'.input = HeaderCells
      /\ wad'.written = 0 /\ wad'.v0 = 0 /\ WadTypeOK'
  BY <1>1, <1>2, <1>3, <1>4 DEF WadInv, WadTypeOK
<1>6. HoldsExactly(ram', expanded', wad'.call.destination)
  <2>1. expanded = <<>>
    BY <1>2 DEF WadInv, HoldsExactly
  <2>2. \A cell \in 1 .. RamCells : ram[cell] = HeldBefore(cell)
    <3>1. wad.call.destination \in Nat
      BY CallNumbersAreNaturals DEF WadInv
    <3> QED
      BY <1>2, <3>1, WadAssumption DEF WadInv, HoldsExactly
  <2> QED
    BY <1>2, <1>4, <1>5, <2>1, <2>2 DEF CallWad, WadInv, HoldsExactly
<1> QED
  BY <1>2, <1>3, <1>5, <1>6 DEF CallWad, WadInv

LEMMA LiteralPacketKeepsWadInv ==
  ASSUME WadInv, wad.status = "Decoding", NEW p \in WadPackets, LiteralPacket(p)
  PROVE  WadInv'
<1>1. CASE LiteralStatus(p) # "Decoding"
  <2>1. LiteralStatus(p) \in WadStatuses \ {"Idle", "Ok", "Returned"}
    BY DEF LiteralStatus, WadStatuses
  <2> QED
    BY <1>1, <2>1, PacketFailsKeepsWadInv DEF LiteralPacket
<1>2. CASE LiteralStatus(p) = "Decoding"
  <2>1. CanWrite(wad.written, p.literals)
    BY <1>2 DEF LiteralStatus
  <2>2. CopyLiterals(wad.input + p.head, wad.written, p.literals, ram, expanded)
    BY <1>2 DEF LiteralPacket
  <2>3. wad.input + p.head \in Int /\ wad.written \in Nat /\ p.literals \in Nat
    BY PacketIsTyped DEF WadInv, WadTypeOK
  <2>4. HoldsExactly(ram, expanded, wad.call.destination) /\ Len(expanded) = wad.written
    BY DEF WadInv
  <2> QED
    BY <2>1, <2>2, <2>3, <2>4, CopyLiteralsKeepsWadInv
<1> QED
  BY <1>1, <1>2

LEMMA MatchPacketKeepsWadInv ==
  ASSUME WadInv, wad.status = "Decoding", NEW p \in WadPackets, MatchPacket(p)
  PROVE  WadInv'
<1> DEFINE matches == p.form = "match"
           input == wad.input + p.head
           written == IF matches THEN wad.written + p.length ELSE wad.written
           memory == IF matches THEN WithMatch(ram, wad.written, p.distance, p.length) ELSE ram
           bytes == IF matches THEN expanded \o Repeated(expanded, p.distance, p.length) ELSE expanded
           status == IF matches THEN MatchStatus(p)
                     ELSE IF CanRead(wad.input, p.head) THEN "Decoding" ELSE "InputExhausted"
           trailing == TrailingStatus(input, written, p.trailing)
<1>1. IF status # "Decoding" THEN PacketFails(status)
      ELSE IF trailing # "Decoding"
      THEN ram' = memory /\ expanded' = bytes /\ wad' = Advanced(trailing, input, written)
      ELSE CopyLiterals(input, written, p.trailing, memory, bytes)
  BY DEF MatchPacket
<1>2. input \in Int /\ written \in Nat /\ p.trailing \in Nat
  BY PacketIsTyped DEF WadInv, WadTypeOK
<1>3. status \in WadStatuses \ {"Idle", "Ok", "Returned"}
      /\ trailing \in WadStatuses \ {"Idle", "Ok", "Returned"}
  BY DEF MatchStatus, TrailingStatus, WadStatuses
<1>4. ASSUME status = "Decoding"
      PROVE  HoldsExactly(memory, bytes, wad.call.destination) /\ Len(bytes) = written
  <2>1. HoldsExactly(ram, expanded, wad.call.destination) /\ Len(expanded) = wad.written
        /\ wad.call.destination \in Nat /\ RamCells \in Nat /\ wad.written \in Nat
    BY CallNumbersAreNaturals DEF WadInv, WadTypeOK
  <2>2. CASE matches
    <3>1. p.distance \in Nat \ {0} /\ p.distance <= wad.written /\ p.length \in Nat
          /\ CanWrite(wad.written, p.length)
      BY <1>4, <2>1, <2>2, PacketIsTyped DEF MatchStatus
    <3> DEFINE more == Repeated(expanded, p.distance, p.length)
    <3>2. more \in [1 .. p.length -> WadBytes]
          /\ memory = Put(ram, wad.call.destination + Len(expanded), more)
          /\ bytes = expanded \o more /\ written = Len(expanded) + p.length
      BY <2>1, <2>2, <3>1, MatchPutsRepeated
    <3>3. wad.call.destination + Len(expanded) + p.length <= RamCells
      BY <2>1, <3>1 DEF CanWrite, OutputRoom
    <3> HIDE DEF memory, bytes, written, more
    <3>4. HoldsExactly(Put(ram, wad.call.destination + Len(expanded), more), expanded \o more,
                       wad.call.destination)
      BY <2>1, <3>1, <3>2, <3>3, PutHoldsExactly, Zenon
    <3>5. Len(expanded \o more) = Len(expanded) + p.length
      BY <2>1, <3>1, <3>2, LenOfPut DEF HoldsExactly
    <3> QED
      BY <3>2, <3>4, <3>5
  <2>3. CASE ~matches
    BY <2>1, <2>3
  <2> QED
    BY <2>2, <2>3
<1>5. trailing = "Decoding" /\ p.trailing # 0 => CanWrite(written, p.trailing)
  BY DEF TrailingStatus
<1> HIDE DEF input, written, memory, bytes, status, trailing
<1>6. CASE status # "Decoding"
  BY <1>1, <1>3, <1>6, PacketFailsKeepsWadInv
<1>7. CASE status = "Decoding" /\ trailing # "Decoding"
  BY <1>1, <1>2, <1>3, <1>4, <1>7, AdvancedKeepsWadInv
<1>8. CASE status = "Decoding" /\ trailing = "Decoding"
  BY <1>1, <1>2, <1>4, <1>5, <1>8, CopyLiteralsKeepsWadInv
<1> QED
  BY <1>6, <1>7, <1>8

LEMMA BlockPacketKeepsWadInv ==
  ASSUME WadInv, wad.status = "Decoding", NEW p \in WadPackets, BlockPacket(p)
  PROVE  WadInv'
<1> DEFINE next == NextBlock(wad.input + p.head)
<1>1. next \in Int
  <2>1. wad.input \in Int /\ p.head \in Nat /\ HeaderCells \in Nat /\ BlockCells \in Nat \ {0}
    BY PacketIsTyped, WadAssumption DEF WadInv, WadTypeOK
  <2>2. (wad.input + p.head - HeaderCells + BlockCells - 1) \div BlockCells \in Int
    BY <2>1
  <2> QED
    BY <2>1, <2>2 DEF NextBlock
<1> HIDE DEF next
<1>2. CASE PacketFails("InputExhausted") \/ PacketFails("InvalidBlockMarker")
  BY <1>2, PacketFailsKeepsWadInv DEF WadStatuses
<1>3. CASE wad' = Advanced("Decoding", next, wad.written) /\ UNCHANGED <<ram, expanded>>
  <2>1. wad.written \in Nat /\ HoldsExactly(ram', expanded', wad.call.destination)
        /\ Len(expanded') = wad.written
    BY <1>3 DEF WadInv, WadTypeOK
  <2> QED
    BY <1>1, <1>3, <2>1, AdvancedKeepsWadInv DEF WadStatuses
<1> QED
  BY <1>2, <1>3 DEF BlockPacket, next

LEMMA ReturnWadKeepsWadInv == WadInv /\ ReturnWad => WadInv'
BY DEF WadInv, WadTypeOK, WadStatuses, ReturnWad

----------------------------------------------------------------------------
LEMMA WadInitEstablishesWadInv == WadInit => WadInv
<1> SUFFICES ASSUME WadInit PROVE WadInv
  OBVIOUS
<1>1. WadTypeOK /\ wad.status = "Idle" /\ wad.written = 0 /\ wad.v0 = 0
  BY DEF WadInit, WadTypeOK, WadStatuses, IdleWad
<1>2. HoldsExactly(ram, expanded, wad.call.destination) /\ Len(expanded) = 0
  <2>1. RamCells \in Nat
    BY WadAssumption
  <2>2. ram \in [1 .. RamCells -> WadBytes]
    BY <2>1 DEF WadInit, HeldBefore, WadBytes
  <2> QED
    BY <2>1, <2>2 DEF WadInit, HoldsExactly
<1> QED
  BY <1>1, <1>2 DEF WadInv

(* The inductive invariant: at every packet memory holds exactly the bytes *)
(* the packets decoded so far stand for, and nothing else has changed.     *)
THEOREM WadInvariant == WadSpec => []WadInv
<1>1. WadInit => WadInv
  BY WadInitEstablishesWadInv
<1>2. WadInv /\ [WadNext]_wadVars => WadInv'
  <2> SUFFICES ASSUME WadInv, [WadNext]_wadVars PROVE WadInv'
    OBVIOUS
  <2>1. CASE CallWad
    BY <2>1, CallWadKeepsWadInv
  <2>2. CASE DecodePacket
    BY <2>2, LiteralPacketKeepsWadInv, MatchPacketKeepsWadInv, BlockPacketKeepsWadInv
       DEF DecodePacket
  <2>3. CASE ReturnWad
    BY <2>3, ReturnWadKeepsWadInv
  <2>4. CASE UNCHANGED wadVars
    BY <2>4 DEF wadVars, WadInv, WadTypeOK
  <2> QED
    BY <2>1, <2>2, <2>3, <2>4 DEF WadNext
<1> QED
  BY <1>1, <1>2, PTL DEF WadSpec

LEMMA PartOfMemory ==
  ASSUME NEW memory \in Seq(WadBytes), NEW bytes \in Seq(WadBytes), NEW from \in Nat,
         from + Len(bytes) <= Len(memory),
         \A i \in 1 .. Len(bytes) : memory[from + i] = bytes[i]
  PROVE  SubSeq(memory, from + 1, from + Len(bytes)) = bytes
<1> DEFINE part == SubSeq(memory, from + 1, from + Len(bytes))
<1>1. Len(bytes) \in Nat /\ Len(memory) \in Nat
  OBVIOUS
<1>2. \A i \in from + 1 .. from + Len(bytes) : memory[i] \in WadBytes
  BY <1>1
<1>3. /\ part \in Seq(WadBytes)
      /\ Len(part) = IF from + 1 <= from + Len(bytes)
                      THEN from + Len(bytes) - (from + 1) + 1 ELSE 0
      /\ \A i \in 1 .. from + Len(bytes) - (from + 1) + 1 :
           part[i] = memory[from + 1 + i - 1]
  <2>1. from + 1 \in Int /\ from + Len(bytes) \in Int
    BY <1>1
  <2> QED
    BY <1>2, <2>1, SubSeqProperties
<1> HIDE DEF part
<1>4. Len(part) = Len(bytes)
  BY <1>1, <1>3
<1>5. ASSUME NEW i \in 1 .. Len(bytes) PROVE part[i] = bytes[i]
  <2>1. i \in 1 .. from + Len(bytes) - (from + 1) + 1 /\ from + 1 + i - 1 = from + i
    BY <1>1
  <2> QED
    BY <1>3, <2>1
<1>6. part = bytes
  BY <1>3, <1>4, <1>5
<1> QED
  BY <1>6 DEF part

(* What nativeDecompressWad returns a size for is, at the destination,     *)
(* exactly the expansion of the packets it read, overlapping or not.       *)
THEOREM WadOutputIsExact == WadSpec => []WadOutputIsExpansion
<1>1. WadInv => WadOutputIsExpansion
  <2> SUFFICES ASSUME WadInv PROVE WadOutputIsExpansion
    OBVIOUS
  <2>1. wad.call.destination \in Nat /\ RamCells \in Nat
    BY CallNumbersAreNaturals DEF WadInv
  <2>2. ASSUME wad.v0 # 0
        PROVE  SubSeq(ram, wad.call.destination + 1, wad.call.destination + wad.v0) = expanded
    <3>1. wad.v0 = Len(expanded) /\ wad.v0 \in Nat \ {0} /\ expanded \in Seq(WadBytes)
          /\ \A i \in 1 .. Len(expanded) : ram[wad.call.destination + i] = expanded[i]
      BY <2>2 DEF WadInv, WadTypeOK, HoldsExactly
    <3>2. ram \in Seq(WadBytes) /\ wad.call.destination + Len(expanded) <= Len(ram)
      BY <2>1, <3>1 DEF WadInv, HoldsExactly
    <3> QED
      BY <2>1, <3>1, <3>2, PartOfMemory
  <2> QED
    BY <2>1, <2>2 DEF WadInv, HoldsExactly, WadOutputIsExpansion
<1> QED
  BY <1>1, WadInvariant, PTL
============================================================================
