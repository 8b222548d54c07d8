---------------------------- MODULE StartupProofs ----------------------------
(***************************************************************************)
(* Proofs about the start and the memory: the loader implements the        *)
(* register, a load is declarative, types, rows and blocks.                *)
(***************************************************************************)
EXTENDS StartupProperties, TLAPS

(***************************************************************************)
(* The loader implements the register                                      *)
(***************************************************************************)
\* Every step that is not one of the loader leaves the caller's view at "done",
\* and only run_command's changes the configuration.
LEMMA OtherStepsEdit ==
    ASSUME SetupSteps \/ SeedSteps \/ RowSteps
    PROVE  LoadCall = "done" /\ LoadCall' = "done"
<1>1. CASE SetupSteps
  BY <1>1 DEF SetupSteps, Command, OpenCheckpoint, SetUp, SetUpFails, OpenLog,
     OpenLogFails, Goto, AfterLog, LoadCall
<1>2. CASE SeedSteps
  BY <1>2 DEF SeedSteps, AllocateSeeds, Shape, MutateGenes, MutateRhythm, Flip,
     Inspect, AppendSeed, SeedsFail, SeedsDone, Dismantle, Goto, LoadCall
<1>3. CASE RowSteps
  BY <1>3 DEF RowSteps, RestoreArrays, RestoreRows, Abandon, Birth, Remove, Destroy,
     Dismantle, Goto, LoadCall
<1>4. QED BY <1>1, <1>2, <1>3

\* The program's configuration behaves as the register that config.h promises:
\* a call of alife_config_load replaces it by a valid one or leaves it alone.
THEOREM LoadsReplaceWhole == Spec => KeepsRegister
<1> USE DEF Configuration!Calls
<1>1. Init => Configuration!Init
  BY DEF Init, LoaderInit, Configuration!Init, LoadCall
<1>2. ASSUME [Next]_vars
      PROVE  [Configuration!Next]_<<dest, LoadCall>>
  <2>1. CASE Open
    <3>1. Configuration!Begin
      BY <2>1 DEF Open, Returned, Configuration!Begin, LoadCall
    <3>2. QED BY <3>1 DEF Configuration!Next
  <2>2. CASE SkipLine \/ Assign \/ EndOfFile
    BY <2>2 DEF SkipLine, Assign, EndOfFile, ReadLine, LoadCall
  <2>3. CASE RefuseLine \/ ReadFails \/ Reject
    <3>1. Configuration!Refuse
      BY <2>3 DEF RefuseLine, ReadFails, Reject, ReadLine, Return,
         Configuration!Refuse, LoadCall
    <3>2. QED BY <3>1 DEF Configuration!Next
  <2>4. CASE Accept
    <3>1. Configuration!Replace
      BY <2>4 DEF Accept, Return, Configuration!Replace, LoadCall
    <3>2. QED BY <3>1 DEF Configuration!Next
  <2>5. CASE SetupSteps \/ SeedSteps \/ RowSteps
    <3>1. Configuration!Edit
      BY <2>5, OtherStepsEdit DEF Configuration!Edit
    <3>2. QED BY <3>1 DEF Configuration!Next
  <2>6. CASE UNCHANGED vars
    BY <2>6 DEF vars, loader, LoadCall
  <2>7. QED
    BY <1>2, <2>1, <2>2, <2>3, <2>4, <2>5, <2>6 DEF Next, Loading, Load, Ended
<1>3. QED BY <1>1, <1>2, PTL DEF Spec, KeepsRegister, Configuration!Spec

(***************************************************************************)
(* Keys and readings                                                       *)
(***************************************************************************)
LEMMA DefaultDomain == DOMAIN DefaultConfig = Keys
BY DEF DefaultConfig, Keys, U32Keys, U64Keys, DoubleKeys, PathKeys

LEMMA KeysApart ==
    /\ U32Keys \cap U64Keys = {} /\ U32Keys \cap DoubleKeys = {}
    /\ U32Keys \cap PathKeys = {} /\ U64Keys \cap DoubleKeys = {}
    /\ U64Keys \cap PathKeys = {} /\ DoubleKeys \cap PathKeys = {}
BY DEF U32Keys, U64Keys, DoubleKeys, PathKeys

\* A text is read as one value at most.
LEMMA OneReading ==
    ASSUME NEW k \in Keys, NEW t, NEW v \in Readings(k, t)
    PROVE  Readings(k, t) = {v}
<1>1. \A w \in ParseU64(t) : ParseU64(t) = {w}
  BY DEF ParseU64
<1>2. \A w \in ParseU32(t) : ParseU32(t) = {w}
  BY <1>1 DEF ParseU32
<1>3. \A w \in ParseDouble(t) : ParseDouble(t) = {w}
  BY Zenon DEF ParseDouble
<1>4. \A w \in ParsePath(t) : ParsePath(t) = {w}
  BY DEF ParsePath
<1>5. \A w \in ParseLevel(t) : ParseLevel(t) = {w}
  BY Zenon DEF ParseLevel
<1>6. QED
  BY <1>1, <1>2, <1>3, <1>4, <1>5, KeysApart, Zenon DEF Readings

(***************************************************************************)
(* A load is declarative                                                   *)
(***************************************************************************)
\* Key k has in c what the assignments T make of it.
Row(k, c, T) ==
    {c[k]} = IF \E l \in T : l.key = k THEN Declared(k, T) ELSE {DefaultConfig[k]}

\* While a file is read, the bits seen are the keys of its assignments, and the
\* local configuration is what these declare.
LoadInv ==
    /\ pc \in {"reading", "read"} =>
        /\ DOMAIN loaded = Keys
        /\ seen = {l.key : l \in taken}
        /\ \A k \in Keys : Row(k, loaded, taken)
    /\ pc \notin {"reading", "read"} => seen = {} /\ taken = {}

\* One more assignment, of a key that no other assigns, makes its row and
\* leaves the others alone.
LEMMA RowsGrow ==
    ASSUME NEW T, NEW l, l.key \in Keys, l.key \notin {a.key : a \in T},
           NEW v \in Readings(l.key, l.text),
           NEW c, DOMAIN c = Keys, \A k \in Keys : Row(k, c, T),
           NEW k \in Keys
    PROVE  Row(k, [c EXCEPT ![l.key] = v], T \cup {l})
<1> DEFINE d == [c EXCEPT ![l.key] = v]
           U == T \cup {l}
<1>1. CASE k = l.key
  <2>1. d[k] = v
    BY <1>1
  <2>2. {a \in U : a.key = k} = {l}
    BY <1>1
  <2>3. Declared(k, U) = Readings(k, l.text)
    BY <2>2 DEF Declared
  <2>4. Readings(k, l.text) = {v}
    BY <1>1, OneReading
  <2>5. \E a \in U : a.key = k
    BY <1>1
  <2>6. Row(k, d, U)
    <3> HIDE DEF d, U
    <3> QED BY <2>1, <2>3, <2>4, <2>5 DEF Row
  <2>7. QED BY <2>6
<1>2. CASE k # l.key
  <2>1. d[k] = c[k]
    BY <1>2
  <2>2. {a \in U : a.key = k} = {a \in T : a.key = k}
    BY <1>2
  <2>3. Declared(k, U) = Declared(k, T)
    BY <2>2 DEF Declared
  <2>4. (\E a \in U : a.key = k) <=> (\E a \in T : a.key = k)
    BY <1>2
  <2>5. Row(k, c, T)
    OBVIOUS
  <2>6. Row(k, d, U)
    <3> HIDE DEF d, U
    <3> QED BY <2>1, <2>3, <2>4, <2>5 DEF Row
  <2>7. QED BY <2>6
<1>3. QED BY <1>1, <1>2

LEMMA LoadInvHolds == Spec => []LoadInv
<1>1. Init => LoadInv
  BY DEF Init, LoaderInit, LoadInv
<1>2. ASSUME LoadInv, [Next]_vars
      PROVE  LoadInv'
  <2>1. CASE Open
    <3>1. loaded' = DefaultConfig /\ seen' = {} /\ taken' = {} /\ pc' = "reading"
      BY <1>2, <2>1 DEF Open, Returned, LoadInv
    <3>2. \A k \in Keys : Row(k, loaded', taken')
      BY <3>1 DEF Row
    <3>3. seen' = {l.key : l \in taken'}
      BY <3>1
    <3>4. QED BY <3>1, <3>2, <3>3, DefaultDomain DEF LoadInv
  <2>2. CASE SkipLine \/ EndOfFile
    <3>1. UNCHANGED <<loaded, seen, taken>> /\ pc = "reading" /\ pc' \in {"reading", "read"}
      BY <2>2 DEF SkipLine, EndOfFile, ReadLine
    <3>2. QED BY <1>2, <3>1 DEF LoadInv, Row
  <2>3. CASE Assign
    <3>1. PICK l \in Lines : \E v \in Assigned(l) :
            /\ ReadLine(l)
            /\ loaded' = [loaded EXCEPT ![l.key] = v]
            /\ seen' = seen \cup {l.key}
            /\ taken' = taken \cup {l}
      BY <2>3 DEF Assign
    <3>2. PICK v \in Assigned(l) :
            /\ ReadLine(l)
            /\ loaded' = [loaded EXCEPT ![l.key] = v]
            /\ seen' = seen \cup {l.key}
            /\ taken' = taken \cup {l}
      BY <3>1
    <3>3. l.key \in Keys \ seen /\ v \in Readings(l.key, l.text)
      BY <3>2 DEF Assigned
    <3>4. pc = "reading" /\ pc' = "reading"
      BY <2>3, <3>2 DEF Assign, ReadLine
    <3>5. /\ DOMAIN loaded = Keys /\ seen = {a.key : a \in taken}
          /\ \A k \in Keys : Row(k, loaded, taken)
      BY <1>2, <3>4 DEF LoadInv
    <3>6. \A k \in Keys : Row(k, loaded', taken')
      BY <3>2, <3>3, <3>5, RowsGrow
    <3>7. DOMAIN loaded' = Keys /\ seen' = {a.key : a \in taken'}
      BY <3>2, <3>5
    <3>8. QED BY <3>4, <3>6, <3>7 DEF LoadInv
  <2>4. CASE RefuseLine \/ ReadFails \/ Reject \/ Accept
    BY <2>4 DEF RefuseLine, ReadFails, Reject, Accept, Return, LoadInv
  <2>5. CASE SetupSteps
    BY <1>2, <2>5 DEF SetupSteps, Command, OpenCheckpoint, SetUp, SetUpFails, OpenLog,
       OpenLogFails, Goto, AfterLog, LoadInv
  <2>6. CASE SeedSteps
    BY <1>2, <2>6 DEF SeedSteps, AllocateSeeds, Shape, MutateGenes, MutateRhythm, Flip,
       Inspect, AppendSeed, SeedsFail, SeedsDone, Dismantle, Goto, LoadInv
  <2>7. CASE RowSteps
    BY <1>2, <2>7 DEF RowSteps, RestoreArrays, RestoreRows, Abandon, Birth, Remove, Destroy,
       Dismantle, Goto, LoadInv
  <2>8. CASE UNCHANGED vars
    BY <1>2, <2>8 DEF vars, loader, LoadInv, Row
  <2>9. QED
    BY <1>2, <2>1, <2>2, <2>3, <2>4, <2>5, <2>6, <2>7, <2>8 DEF Next, Loading, Load, Ended
<1>3. QED BY <1>1, <1>2, PTL DEF Spec

\* Whatever the lines and their order, and whatever was loaded before, a load
\* hands over the defaults with the values of its file in them.
THEOREM LoadsAreDeclarative == Spec => LoadIsDeclarative
<1>1. ASSUME LoadInv, [Next]_vars
      PROVE  [pc = "read" /\ pc' = "loaded" =>
                \A k \in Keys :
                    {dest'[k]} = IF \E l \in taken : l.key = k
                                 THEN Declared(k, taken) ELSE {DefaultConfig[k]}]_loader
  <2> SUFFICES ASSUME pc = "read", pc' = "loaded", NEW k \in Keys
               PROVE  {dest'[k]} = IF \E l \in taken : l.key = k
                                   THEN Declared(k, taken) ELSE {DefaultConfig[k]}
    OBVIOUS
  <2>1. Row(k, loaded, taken)
    BY <1>1 DEF LoadInv
  <2>2. dest' = loaded
    <3>1. ~(SetupSteps \/ SeedSteps \/ RowSteps)
      BY OtherStepsEdit DEF LoadCall
    <3>2. Accept
      BY <1>1, <3>1 DEF Next, Loading, Load, Ended, vars, loader, Open, Returned, SkipLine,
         Assign, EndOfFile, ReadLine, RefuseLine, ReadFails, Reject, Return
    <3>3. QED BY <3>2 DEF Accept
  <2>3. QED BY <2>1, <2>2 DEF Row
<1>2. QED BY <1>1, LoadInvHolds, PTL DEF Spec, LoadIsDeclarative

(***************************************************************************)
(* The types of the configuration                                          *)
(***************************************************************************)
LEMMA DefaultTyped == InItsTypes(DefaultConfig)
<1>1. U64Max >= 268435455 /\ U32Max >= 16383 /\ U32Max \in Nat /\ U64Max \in Nat
  BY WidthAssumption
<1>2. \A k \in U32Keys : DefaultConfig[k] \in 0..U32Max
  BY <1>1 DEF U32Keys, DefaultConfig
<1>3. \A k \in U64Keys : DefaultConfig[k] \in 0..U64Max
  BY <1>1 DEF U64Keys, DefaultConfig
<1>4. \A k \in DoubleKeys : DefaultConfig[k] \in Int
  BY DEF DoubleKeys, DefaultConfig, One
<1>5. QED BY <1>2, <1>3, <1>4, DefaultDomain DEF InItsTypes

\* A value read for a key is of the key's type.
LEMMA ReadingTyped ==
    ASSUME NEW k \in Keys, NEW t, t.n \in Nat, NEW v \in Readings(k, t)
    PROVE  /\ k \in U32Keys => v \in 0..U32Max
           /\ k \in U64Keys => v \in 0..U64Max
           /\ k \in DoubleKeys => v \in Int
<1>1. ParseU64(t) \subseteq 0..U64Max
  BY WidthAssumption DEF ParseU64
<1>2. ParseU32(t) \subseteq 0..U32Max
  BY <1>1, WidthAssumption DEF ParseU32
<1>3. ParseDouble(t) \subseteq Int
  <2>1. {t.n * One} \subseteq Int /\ {-t.n * One} \subseteq Int /\ {t.n} \subseteq Int
    BY DEF One
  <2>2. {} \subseteq Int
    OBVIOUS
  <2>3. QED BY <2>1, <2>2, Zenon DEF ParseDouble
<1>4. /\ k \in U32Keys => Readings(k, t) = ParseU32(t)
      /\ k \in U64Keys => Readings(k, t) = ParseU64(t)
      /\ k \in DoubleKeys => Readings(k, t) = ParseDouble(t)
  BY KeysApart, Zenon DEF Readings
<1>5. QED BY <1>1, <1>2, <1>3, <1>4

LEMMA AssignTyped ==
    ASSUME NEW c, InItsTypes(c), NEW k \in Keys, NEW v,
           k \in U32Keys => v \in 0..U32Max,
           k \in U64Keys => v \in 0..U64Max,
           k \in DoubleKeys => v \in Int
    PROVE  InItsTypes([c EXCEPT ![k] = v])
<1> DEFINE d == [c EXCEPT ![k] = v]
<1>1. DOMAIN d = Keys
  BY DEF InItsTypes
<1>2. \A j \in Keys : d[j] = IF j = k THEN v ELSE c[j]
  BY DEF InItsTypes
<1>3. U32Keys \subseteq Keys /\ U64Keys \subseteq Keys /\ DoubleKeys \subseteq Keys
  BY DEF Keys
<1> HIDE DEF d
<1>4. InItsTypes(d)
  BY <1>1, <1>2, <1>3 DEF InItsTypes
<1>5. QED BY <1>4 DEF d

LEMMA PathTyped ==
    ASSUME NEW c, InItsTypes(c), NEW path
    PROVE  InItsTypes([c EXCEPT !.checkpoint_path = path])
<1>1. "checkpoint_path" \in Keys /\ "checkpoint_path" \in PathKeys
  BY DEF Keys, PathKeys
<1>2. QED BY <1>1, KeysApart, AssignTyped

\* From the end of a successful load on there is a configuration, and until
\* the command ends it is valid.
LoadPhases == {"idle", "reading", "read", "refused"}

ConfigInv ==
    /\ pc \in Phases /\ resume \in BOOLEAN
    /\ dest = NoConfig \/ InItsTypes(dest)
    /\ loaded = NoConfig \/ InItsTypes(loaded)
    /\ seen \subseteq Keys /\ taken \subseteq Lines /\ lines \in 0..MaxLines
    /\ pc \in {"reading", "read"} => InItsTypes(loaded)
    /\ pc \notin LoadPhases => InItsTypes(dest)
    /\ pc \notin LoadPhases \cup {"exited"} => Valid(dest)

LEMMA ConfigInvHolds == Spec => []ConfigInv
<1>1. ASSUME Init PROVE ConfigInv
  <2>1. lines \in 0..MaxLines
    BY <1>1, LoaderAssumption DEF Init, LoaderInit
  <2>2. /\ pc = "idle" /\ resume = FALSE /\ dest = NoConfig /\ loaded = NoConfig
        /\ seen = {} /\ taken = {}
    BY <1>1, Zenon DEF Init, LoaderInit
  <2>3. resume \in BOOLEAN
    BY <2>2, Zenon
  <2>4. QED
    BY <2>1, <2>2, <2>3 DEF ConfigInv, Phases, LoaderPhases, LoadPhases
<1>2. ASSUME ConfigInv, [Next]_vars
      PROVE  ConfigInv'
  <2> USE DEF ConfigInv, Phases, LoaderPhases, SeedPhases, LoadPhases
  <2>1. CASE Loading
    <3>0. resume' = resume
      BY <2>1 DEF Loading
    <3>1. CASE Open
      BY <1>2, <3>0, <3>1, DefaultTyped DEF Open, Returned
    <3>2. CASE SkipLine \/ EndOfFile
      BY <1>2, <3>0, <3>2, LoaderAssumption DEF SkipLine, EndOfFile, ReadLine
    <3>3. CASE Assign
      <4>1. PICK l \in Lines : \E v \in Assigned(l) :
              /\ ReadLine(l)
              /\ loaded' = [loaded EXCEPT ![l.key] = v]
              /\ seen' = seen \cup {l.key}
              /\ taken' = taken \cup {l}
        BY <3>3 DEF Assign
      <4>2. PICK v \in Assigned(l) :
              /\ ReadLine(l)
              /\ loaded' = [loaded EXCEPT ![l.key] = v]
              /\ seen' = seen \cup {l.key}
              /\ taken' = taken \cup {l}
        BY <4>1
      <4>3. l.kind = "assign" /\ l.key \in Keys /\ v \in Readings(l.key, l.text)
        BY <4>2 DEF Assigned
      <4>4. l.text.n \in Nat
        BY <4>3, LoaderAssumption
      <4>5. pc = "reading" /\ pc' = "reading" /\ dest' = dest
        BY <3>3, <4>2 DEF Assign, ReadLine
      <4>6. InItsTypes(loaded')
        BY <1>2, <4>2, <4>3, <4>4, <4>5, ReadingTyped, AssignTyped
      <4>7. lines' \in 0..MaxLines
        BY <1>2, <4>2, LoaderAssumption DEF ReadLine
      <4>8. QED BY <1>2, <3>0, <4>2, <4>3, <4>5, <4>6, <4>7
    <3>4. CASE RefuseLine \/ ReadFails \/ Reject
      BY <1>2, <3>0, <3>4, LoaderAssumption
         DEF RefuseLine, ReadFails, Reject, Return, ReadLine
    <3>5. CASE Accept
      BY <1>2, <3>0, <3>5 DEF Accept, Return
    <3>6. QED BY <2>1, <3>1, <3>2, <3>3, <3>4, <3>5 DEF Loading, Load
  <2>2. CASE Command
    BY <1>2, <2>2, PathTyped DEF Command
  <2>3. CASE SetupSteps /\ ~Command
    BY <1>2, <2>3 DEF SetupSteps, OpenCheckpoint, SetUp, SetUpFails, OpenLog,
       OpenLogFails, Goto, AfterLog
  <2>4. CASE SeedSteps
    BY <1>2, <2>4 DEF SeedSteps, AllocateSeeds, Shape, MutateGenes, MutateRhythm, Flip,
       Inspect, AppendSeed, SeedsFail, SeedsDone, Dismantle, Goto
  <2>5. CASE RowSteps
    BY <1>2, <2>5 DEF RowSteps, RestoreArrays, RestoreRows, Abandon, Birth, Remove, Destroy,
       Dismantle, Goto
  <2>6. CASE UNCHANGED vars
    BY <1>2, <2>6 DEF vars, loader
  <2>7. QED
    BY <1>2, <2>1, <2>2, <2>3, <2>4, <2>5, <2>6 DEF Next, Ended, SetupSteps
<1>3. QED BY <1>1, <1>2, PTL DEF Spec

(***************************************************************************)
(* Memory: what each operation does to the blocks                          *)
(***************************************************************************)
\* The heap is what the pointers hold, each a block of its own.
HeapSound ==
    /\ ptr \in [Pointers -> Blocks \cup {Null}]
    /\ heap = Held(Pointers)
    /\ \A p \in Pointers : ptr[p] # Null => ptr[p].of = p

\* The three arrays have the rows that the world counts.
ArraysMatch ==
    /\ rows \in Nat
    /\ \A p \in Arrays : ptr[p] = IF rows = 0 THEN Null ELSE Block(p, rows)

KeepPointers(P) == \A p \in P : ptr'[p] = ptr[p]

LEMMA PointerSets ==
    /\ Arrays \subseteq Pointers /\ Scratch \subseteq Pointers
    /\ SeedPointers \subseteq Pointers /\ WorldPointers \subseteq Pointers
    /\ Arrays \subseteq WorldPointers /\ "event_log" \in WorldPointers
    /\ "file" \in Pointers /\ "file" \notin WorldPointers \cup SeedPointers
    /\ WorldPointers \cap SeedPointers = {} /\ Scratch \subseteq WorldPointers
    /\ Arrays \cap Scratch = {} /\ "event_log" \notin Arrays \cup Scratch
    /\ Pointers = WorldPointers \cup SeedPointers \cup {"file"}
    /\ WorldPointers = Arrays \cup Scratch \cup {"event_log"}
BY DEF Arrays, Scratch, SeedPointers, WorldPointers, Pointers

LEMMA BlockTyped ==
    ASSUME NEW p \in Pointers, NEW n \in Nat
    PROVE  Block(p, n) \in Blocks /\ Block(p, n) # Null /\ Block(p, n).of = p
BY StartupAssumption DEF Block, Blocks

\* Blocks made for pointers that held none.
LEMMA AllocateHolds ==
    ASSUME HeapSound, NEW P, P \subseteq Pointers, \A p \in P : ptr[p] = Null,
           Allocate(P)
    PROVE  /\ HeapSound' /\ KeepPointers(Pointers \ P)
           /\ \A p \in P : ptr'[p] = Block(p, 0)
<1> USE BlockTyped
<1>1. /\ \A p \in P : ptr'[p] = Block(p, 0)
      /\ \A p \in Pointers \ P : ptr'[p] = ptr[p]
  BY DEF Allocate
<1>2. ptr' \in [Pointers -> Blocks \cup {Null}]
  BY DEF Allocate, HeapSound
<1>3. \A p \in Pointers : ptr'[p] # Null => ptr'[p].of = p
  BY <1>1 DEF HeapSound
<1>4. heap' = Held(Pointers)'
  <2>1. heap' = heap \cup {Block(p, 0) : p \in P}
    BY DEF Allocate
  <2>2. \A b : b \in heap' => b \in Held(Pointers)'
    BY <1>1, <2>1 DEF HeapSound, Held
  <2>3. \A b : b \in Held(Pointers)' => b \in heap'
    BY <1>1, <2>1 DEF HeapSound, Held
  <2>4. QED BY <2>2, <2>3
<1>5. QED BY <1>1, <1>2, <1>3, <1>4 DEF HeapSound, KeepPointers

LEMMA FreeHolds ==
    ASSUME HeapSound, NEW P, P \subseteq Pointers, Free(P)
    PROVE  /\ HeapSound' /\ KeepPointers(Pointers \ P)
           /\ \A p \in P : ptr'[p] = Null
<1>1. /\ \A p \in P : ptr'[p] = Null
      /\ \A p \in Pointers \ P : ptr'[p] = ptr[p]
  BY DEF Free
<1>2. ptr' \in [Pointers -> Blocks \cup {Null}]
  BY DEF Free, HeapSound
<1>3. \A p \in Pointers : ptr'[p] # Null => ptr'[p].of = p
  BY <1>1 DEF HeapSound
<1>4. heap' = Held(Pointers)'
  <2>1. heap' = heap \ Held(P)
    BY DEF Free
  <2>2. \A b : b \in heap' => b \in Held(Pointers)'
    BY <1>1, <2>1 DEF HeapSound, Held
  <2>3. ASSUME NEW p \in Pointers \ P, ptr[p] # Null PROVE ptr[p] \notin Held(P)
    BY <2>3 DEF HeapSound, Held
  <2>4. \A b : b \in Held(Pointers)' => b \in heap'
    BY <1>1, <2>1, <2>3 DEF HeapSound, Held
  <2>5. QED BY <2>2, <2>4
<1>5. QED BY <1>1, <1>2, <1>3, <1>4 DEF HeapSound, KeepPointers

LEMMA GrowHolds ==
    ASSUME HeapSound, NEW n \in Nat \ {0}, Grow(n)
    PROVE  /\ HeapSound' /\ ArraysMatch' /\ KeepPointers(Pointers \ Arrays)
           /\ rows' = n
<1>1. Arrays \subseteq Pointers
  BY PointerSets
<1>2. \A p \in Arrays : Block(p, n) \in Blocks /\ Block(p, n) # Null /\ Block(p, n).of = p
  BY <1>1, BlockTyped
<1>3. /\ \A p \in Arrays : ptr'[p] = Block(p, n)
      /\ \A p \in Pointers \ Arrays : ptr'[p] = ptr[p]
      /\ rows' = n
  BY <1>1 DEF Grow
<1>4. ptr' \in [Pointers -> Blocks \cup {Null}]
  BY <1>2 DEF Grow, HeapSound
<1>5. \A p \in Pointers : ptr'[p] # Null => ptr'[p].of = p
  BY <1>1, <1>2, <1>3 DEF HeapSound
<1>6. heap' = Held(Pointers)'
  <2>1. heap' = (heap \ Held(Arrays)) \cup {Block(p, n) : p \in Arrays}
    BY DEF Grow
  <2>2. \A b : b \in heap' => b \in Held(Pointers)'
    BY <1>1, <1>2, <1>3, <2>1 DEF HeapSound, Held
  <2>3. ASSUME NEW p \in Pointers \ Arrays, ptr[p] # Null PROVE ptr[p] \notin Held(Arrays)
    BY <1>1, <2>3 DEF HeapSound, Held
  <2>4. \A b : b \in Held(Pointers)' => b \in heap'
    BY <1>1, <1>2, <1>3, <2>1, <2>3 DEF HeapSound, Held
  <2>5. QED BY <2>2, <2>4
<1>7. QED BY <1>3, <1>4, <1>5, <1>6 DEF HeapSound, KeepPointers, ArraysMatch

\* alife_reserve leaves room, and no other pointer is touched.
LEMMA ReserveHolds ==
    ASSUME HeapSound, ArraysMatch, NEW needed \in Nat, Reserve(needed)
    PROVE  /\ HeapSound' /\ ArraysMatch' /\ KeepPointers(Pointers \ Arrays)
           /\ needed <= rows'
<1>1. CASE needed <= rows
  BY <1>1 DEF Reserve, memory, HeapSound, ArraysMatch, KeepPointers, Held
<1>2. CASE ~(needed <= rows)
  <2>1. PICK k \in 0..needed :
            FirstRows * 2^k >= needed /\ Grow(FirstRows * 2^k)
    BY <1>2 DEF Reserve
  <2>2. k \in Nat
    OBVIOUS
  <2>3. 2^k \in Int
    BY <2>2, Z3
  <2>4. FirstRows \in Int
    BY DEF FirstRows, ArraysMatch
  <2>5. FirstRows * 2^k \in Int
    BY <2>3, <2>4
  <2>6. FirstRows * 2^k \in Nat \ {0}
    BY <1>2, <2>1, <2>5 DEF ArraysMatch
  <2>7. QED BY <2>1, <2>6, GrowHolds
<1>3. QED BY <1>1, <1>2

(***************************************************************************)
(* Memory: which pointers are free in which phase                          *)
(***************************************************************************)
NoneHeld(P) == \A p \in P : ptr[p] = Null

\* What each phase has not acquired yet, or has released; the checkpoint is
\* open on the way to a resume only.
PhaseInv ==
    /\ pc \in LoaderPhases \cup {"open", "exited"} => NoneHeld(Pointers)
    /\ pc = "setup" => NoneHeld(WorldPointers \cup SeedPointers)
    /\ pc = "log" => NoneHeld(Arrays \cup {"event_log"} \cup SeedPointers)
    /\ pc \in {"setup", "log"} /\ ~resume => NoneHeld({"file"})
    /\ pc \in {"restore", "rows", "seed", "running"} => NoneHeld(SeedPointers)
    /\ pc \in SeedPhases \cup {"seed", "running"} => NoneHeld({"file"})
    /\ pc = "open" => resume

MemoryInv == HeapSound /\ ArraysMatch /\ PhaseInv

\* The rows are of the organisms; ids are given out in order.
RowsInv ==
    /\ ids \in Seq(0..MaxId) /\ owners \in Seq(0..MaxId) /\ nextId \in 0..(MaxId + 1)
    /\ Len(ids) <= rows /\ owners = ids
    /\ pc # "rows" =>
        /\ \A j, k \in DOMAIN ids : ids[j] = ids[k] => j = k
        /\ \A k \in DOMAIN ids : ids[k] < nextId
    /\ pc \notin {"append", "rows", "running"} => ids = <<>>
    /\ pc \in SeedPhases \cup {"log", "seed"} => nextId = Len(ids) + 1

LEMMA DismantleHolds ==
    ASSUME MemoryInv, NEW P, P \subseteq Pointers, WorldPointers \subseteq P,
           NoneHeld(Pointers \ P), Dismantle(P)
    PROVE  MemoryInv'
<1>1. HeapSound' /\ KeepPointers(Pointers \ P) /\ \A p \in P : ptr'[p] = Null
  BY FreeHolds DEF Dismantle, MemoryInv
<1>2. NoneHeld(Pointers)'
  BY <1>1 DEF NoneHeld, KeepPointers
<1>3. ArraysMatch'
  BY <1>2, PointerSets DEF Dismantle, ArraysMatch, NoneHeld
<1>4. pc' = "exited"
  BY DEF Dismantle, Goto
<1>5. PhaseInv'
  BY <1>2, <1>4 DEF PhaseInv, SeedPhases
<1>6. QED BY <1>1, <1>3, <1>5 DEF MemoryInv

LEMMA MemoryStep ==
    ASSUME MemoryInv, RowsInv, [Next]_vars
    PROVE  MemoryInv'
<1> USE DEF MemoryInv
<1>1. ASSUME UNCHANGED memory
      PROVE  HeapSound' /\ ArraysMatch' /\ KeepPointers(Pointers)
  BY <1>1 DEF memory, HeapSound, ArraysMatch, KeepPointers, Held
<1>2. CASE Loading
  <2>1. UNCHANGED memory
    BY <1>2 DEF Loading
  <2>2. pc \in LoaderPhases /\ pc' \in LoaderPhases
    BY <1>2 DEF Loading, Load, Open, Returned, SkipLine, Assign, RefuseLine, ReadLine,
       EndOfFile, ReadFails, Accept, Reject, Return, LoaderPhases
  <2>3. NoneHeld(Pointers)'
    BY <1>1, <2>1, <2>2 DEF PhaseInv, NoneHeld, KeepPointers
  <2>4. PhaseInv'
    BY <2>2, <2>3 DEF PhaseInv, LoaderPhases, SeedPhases
  <2>5. QED BY <1>1, <2>1, <2>4
<1>3. CASE Command
  <2>1. /\ UNCHANGED memory /\ pc = "loaded" /\ pc' \in {"exited", "open", "setup"}
        /\ pc' = "open" => resume'
    BY <1>3 DEF Command
  <2>2. NoneHeld(Pointers)'
    BY <1>1, <2>1 DEF PhaseInv, NoneHeld, KeepPointers, LoaderPhases
  <2>3. PhaseInv'
    BY <2>1, <2>2, PointerSets DEF PhaseInv, LoaderPhases, SeedPhases, NoneHeld
  <2>4. QED BY <1>1, <2>1, <2>3
<1>4. CASE OpenCheckpoint
  <2>1. pc = "open" /\ NoneHeld(Pointers) /\ resume /\ resume' = resume
    BY <1>4 DEF OpenCheckpoint, PhaseInv, Goto
  <2>2. CASE Allocate({"file"}) /\ Goto("setup") /\ UNCHANGED rows
    <3>1. HeapSound' /\ KeepPointers(Pointers \ {"file"})
      BY <2>1, <2>2, AllocateHolds, PointerSets DEF NoneHeld
    <3>2. ArraysMatch'
      BY <2>2, <3>1, PointerSets DEF ArraysMatch, KeepPointers
    <3>3. PhaseInv'
      BY <2>1, <2>2, <3>1, PointerSets
         DEF PhaseInv, NoneHeld, KeepPointers, Goto, LoaderPhases, SeedPhases
    <3>4. QED BY <3>1, <3>2, <3>3
  <2>3. CASE Goto("exited") /\ UNCHANGED memory
    <3>1. HeapSound' /\ ArraysMatch' /\ KeepPointers(Pointers)
      BY <1>1, <2>3
    <3>2. NoneHeld(Pointers)' /\ pc' = "exited"
      BY <2>1, <2>3, <3>1 DEF NoneHeld, KeepPointers, Goto
    <3>3. PhaseInv'
      BY <3>2 DEF PhaseInv, SeedPhases
    <3>4. QED BY <3>1, <3>3
  <2>4. QED BY <1>4, <2>2, <2>3 DEF OpenCheckpoint
<1>5. CASE SetUp
  <2>1. /\ pc = "setup" /\ pc' = "log" /\ resume' = resume
        /\ Allocate(Scratch) /\ UNCHANGED rows
    BY <1>5 DEF SetUp, Goto
  <2>2. NoneHeld(Scratch)
    BY <2>1, PointerSets DEF PhaseInv, NoneHeld
  <2>3. HeapSound' /\ KeepPointers(Pointers \ Scratch)
    BY <2>1, <2>2, AllocateHolds, PointerSets DEF NoneHeld
  <2>4. ArraysMatch'
    BY <2>1, <2>3, PointerSets DEF ArraysMatch, KeepPointers
  <2>5. PhaseInv'
    BY <2>1, <2>3, PointerSets
       DEF PhaseInv, NoneHeld, KeepPointers, LoaderPhases, SeedPhases
  <2>6. QED BY <2>3, <2>4, <2>5
<1>6. CASE SetUpFails \/ OpenLogFails
  <2>1. /\ pc' = "exited" /\ UNCHANGED rows
        /\ \/ pc = "setup" /\ Free({"file"})
           \/ pc = "log" /\ Free(Scratch \cup {"file"})
    BY <1>6 DEF SetUpFails, OpenLogFails, Goto
  <2>2. NoneHeld(Arrays)
    BY <2>1, PointerSets DEF PhaseInv, NoneHeld
  <2>3. HeapSound' /\ NoneHeld(Pointers)'
    BY <2>1, FreeHolds, PointerSets DEF PhaseInv, NoneHeld, KeepPointers
  <2>4. ArraysMatch'
    <3>1. rows = 0
      BY <2>2 DEF ArraysMatch, NoneHeld, Arrays, Block, Pointers
    <3>2. QED BY <2>1, <2>3, <3>1, PointerSets DEF ArraysMatch, NoneHeld
  <2>5. PhaseInv'
    BY <2>1, <2>3 DEF PhaseInv, SeedPhases
  <2>6. QED BY <2>3, <2>4, <2>5
<1>7. CASE OpenLog
  <2>1. /\ pc = "log" /\ pc' = AfterLog /\ resume' = resume /\ UNCHANGED rows
        /\ UNCHANGED <<heap, ptr>> \/ Allocate({"event_log"})
    BY <1>7 DEF OpenLog, Goto
  <2>2. NoneHeld(Arrays \cup {"event_log"} \cup SeedPointers)
    BY <2>1 DEF PhaseInv
  <2>3. HeapSound' /\ KeepPointers(Pointers \ {"event_log"})
    BY <2>1, <2>2, AllocateHolds, PointerSets
       DEF NoneHeld, KeepPointers, HeapSound, Held
  <2>4. ArraysMatch'
    BY <2>1, <2>3, PointerSets DEF ArraysMatch, KeepPointers
  <2>5. NoneHeld(SeedPointers)'
    BY <2>2, <2>3, PointerSets DEF NoneHeld, KeepPointers
  <2>6. ~resume => NoneHeld({"file"})'
    BY <2>1, <2>3, PointerSets DEF PhaseInv, NoneHeld, KeepPointers
  <2>7. PhaseInv'
    BY <2>1, <2>5, <2>6 DEF PhaseInv, AfterLog, LoaderPhases, SeedPhases
  <2>8. QED BY <2>3, <2>4, <2>7
<1>8. CASE AllocateSeeds
  <2>1. /\ pc = "seed" /\ pc' = "shape" /\ Allocate(SeedPointers) /\ UNCHANGED rows
    BY <1>8 DEF AllocateSeeds, Goto
  <2>2. HeapSound' /\ KeepPointers(Pointers \ SeedPointers)
    BY <2>1, AllocateHolds, PointerSets DEF PhaseInv, NoneHeld
  <2>3. ArraysMatch'
    BY <2>1, <2>2, PointerSets DEF ArraysMatch, KeepPointers
  <2>4. PhaseInv'
    BY <2>1, <2>2, PointerSets
       DEF PhaseInv, NoneHeld, KeepPointers, LoaderPhases, SeedPhases
  <2>5. QED BY <2>2, <2>3, <2>4
<1>9. CASE Shape \/ MutateGenes \/ MutateRhythm \/ Flip \/ Inspect
  <2>1. UNCHANGED memory /\ pc \in SeedPhases /\ pc' \in SeedPhases
    BY <1>9 DEF Shape, MutateGenes, MutateRhythm, Flip, Inspect, Goto, SeedPhases
  <2>2. PhaseInv'
    BY <1>1, <2>1, PointerSets
       DEF PhaseInv, NoneHeld, KeepPointers, LoaderPhases, SeedPhases
  <2>3. QED BY <1>1, <2>1, <2>2
<1>10. CASE AppendSeed \/ Birth
  <2>1. Reserve(Len(ids) + 1) /\ pc' = pc /\ pc \in {"append", "running"}
    BY <1>10 DEF AppendSeed, Birth
  <2>2. HeapSound' /\ ArraysMatch' /\ KeepPointers(Pointers \ Arrays)
    <3>1. Len(ids) + 1 \in Nat
      BY DEF RowsInv
    <3>2. QED BY <2>1, <3>1, ReserveHolds
  <2>3. PhaseInv'
    BY <2>1, <2>2, PointerSets
       DEF PhaseInv, NoneHeld, KeepPointers, LoaderPhases, SeedPhases
  <2>4. QED BY <2>2, <2>3
<1>11. CASE SeedsFail
  <2>1. pc \in SeedPhases \cup {"seed"} /\ Dismantle(SeedPointers \cup WorldPointers)
    BY <1>11 DEF SeedsFail, SeedPhases
  <2>2. NoneHeld(Pointers \ (SeedPointers \cup WorldPointers))
    BY <2>1, PointerSets DEF PhaseInv, NoneHeld
  <2>3. QED BY <2>1, <2>2, PointerSets, DismantleHolds
<1>12. CASE SeedsDone
  <2>1. /\ pc = "append" /\ pc' = "running" /\ Free(SeedPointers) /\ UNCHANGED rows
    BY <1>12 DEF SeedsDone, Goto
  <2>2. /\ HeapSound' /\ KeepPointers(Pointers \ SeedPointers)
        /\ \A p \in SeedPointers : ptr'[p] = Null
    BY <2>1, FreeHolds, PointerSets
  <2>3. ArraysMatch'
    BY <2>1, <2>2, PointerSets DEF ArraysMatch, KeepPointers
  <2>4. PhaseInv'
    BY <2>1, <2>2, PointerSets
       DEF PhaseInv, NoneHeld, KeepPointers, LoaderPhases, SeedPhases
  <2>5. QED BY <2>2, <2>3, <2>4
<1>13. CASE RestoreArrays
  <2>1. PICK n \in 0..MaxId : Reserve(n)
    BY <1>13 DEF RestoreArrays
  <2>2. pc = "restore" /\ pc' = "rows" /\ n \in Nat
    BY <1>13, StartupAssumption DEF RestoreArrays, Goto
  <2>3. HeapSound' /\ ArraysMatch' /\ KeepPointers(Pointers \ Arrays)
    BY <2>1, <2>2, ReserveHolds
  <2>4. PhaseInv'
    BY <2>2, <2>3, PointerSets
       DEF PhaseInv, NoneHeld, KeepPointers, LoaderPhases, SeedPhases
  <2>5. QED BY <2>3, <2>4
<1>14. CASE RestoreRows
  <2>1. /\ pc = "rows" /\ pc' = "running" /\ Free({"file"}) /\ UNCHANGED rows
    BY <1>14 DEF RestoreRows, Goto
  <2>2. HeapSound' /\ KeepPointers(Pointers \ {"file"}) /\ ptr'["file"] = Null
    BY <2>1, FreeHolds, PointerSets
  <2>3. ArraysMatch'
    BY <2>1, <2>2, PointerSets DEF ArraysMatch, KeepPointers
  <2>4. PhaseInv'
    BY <2>1, <2>2, PointerSets
       DEF PhaseInv, NoneHeld, KeepPointers, LoaderPhases, SeedPhases
  <2>5. QED BY <2>2, <2>3, <2>4
<1>15. CASE Abandon
  <2>1. pc \in {"restore", "rows"} /\ Dismantle(WorldPointers \cup {"file"})
    BY <1>15 DEF Abandon
  <2>2. NoneHeld(Pointers \ (WorldPointers \cup {"file"}))
    BY <2>1, PointerSets DEF PhaseInv, NoneHeld
  <2>3. QED BY <2>1, <2>2, PointerSets, DismantleHolds
<1>16. CASE Remove
  <2>1. UNCHANGED memory /\ pc' = pc /\ pc = "running"
    BY <1>16 DEF Remove
  <2>2. PhaseInv'
    BY <1>1, <2>1, PointerSets
       DEF PhaseInv, NoneHeld, KeepPointers, LoaderPhases, SeedPhases
  <2>3. QED BY <1>1, <2>1, <2>2
<1>17. CASE Destroy
  <2>1. pc = "running" /\ Dismantle(WorldPointers)
    BY <1>17 DEF Destroy
  <2>2. NoneHeld(Pointers \ WorldPointers)
    BY <2>1, PointerSets DEF PhaseInv, NoneHeld
  <2>3. QED BY <2>1, <2>2, PointerSets, DismantleHolds
<1>18. CASE UNCHANGED vars
  <2>1. UNCHANGED memory /\ pc' = pc /\ resume' = resume
    BY <1>18 DEF vars, loader
  <2>2. PhaseInv'
    BY <1>1, <2>1, PointerSets DEF PhaseInv, NoneHeld, KeepPointers
  <2>3. QED BY <1>1, <2>1, <2>2
<1>19. QED
  BY <1>2, <1>3, <1>4, <1>5, <1>6, <1>7, <1>8, <1>9, <1>10, <1>11, <1>12, <1>13, <1>14,
     <1>15, <1>16, <1>17, <1>18
     DEF Next, SetupSteps, SeedSteps, RowSteps, Ended

(***************************************************************************)
(* The rows                                                                *)
(***************************************************************************)
Distinct(s) == \A j, k \in DOMAIN s : s[j] = s[k] => j = k

LEMMA RowLength ==
    ASSUME NEW S, NEW n \in Nat, NEW s \in [1..n -> S]
    PROVE  s \in Seq(S) /\ Len(s) = n
OBVIOUS

\* The last row in the place of the k-th loses that one and doubles none.
LEMMA WithoutHolds ==
    ASSUME NEW S, NEW s \in Seq(S), NEW k \in 1..Len(s)
    PROVE  /\ Without(s, k) \in Seq(S) /\ Len(Without(s, k)) = Len(s) - 1
           /\ \A j \in DOMAIN Without(s, k) : \E i \in DOMAIN s : Without(s, k)[j] = s[i]
           /\ Distinct(s) => Distinct(Without(s, k))
<1> DEFINE w == Without(s, k)
           at(j) == IF j = k THEN Len(s) ELSE j
<1>1. Len(s) \in Nat /\ Len(s) >= 1 /\ DOMAIN s = 1..Len(s)
  OBVIOUS
<1>2. w = [j \in 1..(Len(s) - 1) |-> IF j = k THEN s[Len(s)] ELSE s[j]]
  BY DEF Without
<1>3. \A j \in 1..(Len(s) - 1) : at(j) \in 1..Len(s) /\ w[j] = s[at(j)]
  BY <1>1, <1>2
<1>4. \A i \in 1..Len(s) : s[i] \in S
  OBVIOUS
<1>5. w \in [1..(Len(s) - 1) -> S]
  BY <1>2, <1>3, <1>4
<1>6. Len(s) - 1 \in Nat
  BY <1>1
<1>7. w \in Seq(S)
  BY <1>5, <1>6
<1>8. Len(w) = Len(s) - 1 /\ DOMAIN w = 1..(Len(s) - 1)
  BY <1>2, <1>6, <1>7
<1>9. \A i, j \in 1..(Len(s) - 1) : at(i) = at(j) => i = j
  BY <1>1
<1>10. Distinct(s) => Distinct(w)
  BY <1>1, <1>3, <1>8, <1>9 DEF Distinct
<1>11. \A j \in DOMAIN w : \E i \in DOMAIN s : w[j] = s[i]
  BY <1>1, <1>3, <1>8
<1>12. QED BY <1>7, <1>8, <1>10, <1>11

\* A new organism gets a new id and a row of its own.
LEMMA AppendHolds ==
    ASSUME RowsInv, pc # "rows", Reserve(Len(ids) + 1), MemoryInv,
           nextId <= MaxId, AppendOrganism
    PROVE  /\ ids' \in Seq(0..MaxId) /\ owners' \in Seq(0..MaxId)
           /\ nextId' \in 0..(MaxId + 1)
           /\ Len(ids') = Len(ids) + 1 /\ Len(ids') <= rows' /\ owners' = ids'
           /\ Distinct(ids') /\ \A k \in DOMAIN ids' : ids'[k] < nextId'
<1>1. ids \in Seq(0..MaxId) /\ nextId \in 0..MaxId /\ MaxId \in Nat
  BY StartupAssumption DEF RowsInv
<1>2. ids' = Append(ids, nextId) /\ owners' = ids' /\ nextId' = nextId + 1
  BY DEF AppendOrganism, RowsInv
<1>3. /\ ids' \in Seq(0..MaxId) /\ Len(ids') = Len(ids) + 1
      /\ DOMAIN ids' = 1..(Len(ids) + 1) /\ ids'[Len(ids) + 1] = nextId
      /\ \A k \in 1..Len(ids) : ids'[k] = ids[k]
  BY <1>1, <1>2
<1>4. Len(ids) \in Nat /\ DOMAIN ids = 1..Len(ids)
  BY <1>1
<1>5. Len(ids) + 1 <= rows'
  BY <1>4, ReserveHolds DEF MemoryInv
<1>6. Distinct(ids) /\ \A k \in 1..Len(ids) : ids[k] < nextId
  BY <1>4 DEF RowsInv, Distinct
<1>7. \A k \in 1..Len(ids) : ids[k] \in 0..MaxId
  BY <1>1
<1>8. \A k \in DOMAIN ids' : ids'[k] < nextId'
  BY <1>1, <1>2, <1>3, <1>4, <1>6, <1>7
<1>9. ASSUME NEW j \in 1..(Len(ids) + 1), NEW k \in 1..(Len(ids) + 1), ids'[j] = ids'[k]
      PROVE  j = k
  <2>1. CASE j \in 1..Len(ids) /\ k \in 1..Len(ids)
    BY <1>3, <1>4, <1>6, <1>9, <2>1 DEF Distinct
  <2>2. CASE j = Len(ids) + 1 /\ k \in 1..Len(ids)
    BY <1>1, <1>3, <1>4, <1>6, <1>7, <1>9, <2>2
  <2>3. CASE j \in 1..Len(ids) /\ k = Len(ids) + 1
    BY <1>1, <1>3, <1>4, <1>6, <1>7, <1>9, <2>3
  <2>4. QED BY <1>4, <2>1, <2>2, <2>3
<1>10. Distinct(ids')
  BY <1>3, <1>9 DEF Distinct
<1>11. QED BY <1>1, <1>2, <1>3, <1>5, <1>8, <1>10

LEMMA DismantledRows ==
    ASSUME NEW P, Dismantle(P)
    PROVE  RowsInv'
BY StartupAssumption DEF Dismantle, Goto, RowsInv, SeedPhases

LEMMA RowsStep ==
    ASSUME MemoryInv, RowsInv, [Next]_vars
    PROVE  RowsInv'
<1>1. ASSUME UNCHANGED <<population, rows>>, pc # "rows", pc' # "rows",
             ids = <<>> \/ pc' \in {"append", "running"},
             pc' \in SeedPhases \cup {"log", "seed"} => nextId = Len(ids) + 1
      PROVE  RowsInv'
  BY <1>1 DEF RowsInv, population
<1>2. CASE Loading
  <2>1. UNCHANGED <<population, rows>>
    BY <1>2 DEF Loading, memory
  <2>2. pc \in LoaderPhases /\ pc' \in LoaderPhases
    BY <1>2 DEF Loading, Load, Open, Returned, SkipLine, Assign, RefuseLine, ReadLine,
       EndOfFile, ReadFails, Accept, Reject, Return, LoaderPhases
  <2>3. ids = <<>>
    BY <2>2 DEF RowsInv, LoaderPhases
  <2>4. QED BY <1>1, <2>1, <2>2, <2>3 DEF LoaderPhases, SeedPhases
<1>3. CASE Command \/ OpenCheckpoint
  <2>1. UNCHANGED <<population, rows>>
    BY <1>3 DEF Command, OpenCheckpoint, memory
  <2>2. pc \in {"loaded", "open"} /\ pc' \in {"exited", "open", "setup"}
    BY <1>3 DEF Command, OpenCheckpoint, Goto
  <2>3. ids = <<>>
    BY <2>2 DEF RowsInv
  <2>4. QED BY <1>1, <2>1, <2>2, <2>3 DEF SeedPhases
<1>4. CASE SetUp
  <2>1. /\ pc = "setup" /\ pc' = "log" /\ nextId' = 1
        /\ ids' = ids /\ owners' = owners /\ rows' = rows
    BY <1>4 DEF SetUp, Goto
  <2>2. ids = <<>>
    BY <2>1 DEF RowsInv
  <2>3. QED BY <2>1, <2>2, StartupAssumption DEF RowsInv, SeedPhases
<1>5. CASE SetUpFails \/ OpenLog \/ OpenLogFails
  <2>1. UNCHANGED <<population, rows>>
    BY <1>5 DEF SetUpFails, OpenLog, OpenLogFails
  <2>2. /\ pc \in {"setup", "log"} /\ pc' \in {"exited", "restore", "seed"}
        /\ pc' \in {"restore", "seed"} => pc = "log"
    BY <1>5 DEF SetUpFails, OpenLog, OpenLogFails, Goto, AfterLog
  <2>3. ids = <<>> /\ (pc = "log" => nextId = Len(ids) + 1)
    BY <2>2 DEF RowsInv, SeedPhases
  <2>4. QED BY <1>1, <2>1, <2>2, <2>3 DEF SeedPhases
<1>6. CASE AllocateSeeds \/ Shape \/ MutateGenes \/ MutateRhythm \/ Flip \/ Inspect
  <2>1. UNCHANGED <<population, rows>>
    BY <1>6 DEF AllocateSeeds, Shape, MutateGenes, MutateRhythm, Flip, Inspect, memory
  <2>2. pc \in (SeedPhases \ {"append"}) \cup {"seed"} /\ pc' \in SeedPhases
    BY <1>6 DEF AllocateSeeds, Shape, MutateGenes, MutateRhythm, Flip, Inspect, Goto, SeedPhases
  <2>3. ids = <<>> /\ nextId = Len(ids) + 1
    BY <2>2 DEF RowsInv, SeedPhases
  <2>4. QED BY <1>1, <2>1, <2>2, <2>3 DEF SeedPhases
<1>7. CASE AppendSeed
  <2>1. /\ pc = "append" /\ pc' = "append" /\ Len(ids) < 2
        /\ Reserve(Len(ids) + 1) /\ AppendOrganism
    BY <1>7 DEF AppendSeed
  <2>2. nextId = Len(ids) + 1 /\ Len(ids) \in Nat
    BY <2>1 DEF RowsInv, SeedPhases
  <2>3. nextId <= MaxId
    BY <2>1, <2>2, StartupAssumption
  <2>4. nextId' = nextId + 1
    BY <2>1 DEF AppendOrganism
  <2>5. QED BY <2>1, <2>2, <2>3, <2>4, AppendHolds DEF RowsInv, Distinct, SeedPhases
<1>8. CASE SeedsFail \/ Abandon \/ Destroy
  BY <1>8, DismantledRows DEF SeedsFail, Abandon, Destroy
<1>9. CASE SeedsDone
  <2>1. UNCHANGED <<population, rows>> /\ pc = "append" /\ pc' = "running"
    BY <1>9 DEF SeedsDone, Goto
  <2>2. QED BY <1>1, <2>1 DEF SeedPhases
<1>10. CASE Birth
  <2>1. /\ pc = "running" /\ pc' = "running" /\ nextId <= MaxId
        /\ Reserve(Len(ids) + 1) /\ AppendOrganism
    BY <1>10 DEF Birth
  <2>2. QED BY <2>1, AppendHolds DEF RowsInv, Distinct, SeedPhases
<1>11. CASE RestoreArrays
  <2>1. PICK n \in 0..MaxId :
            Reserve(n) /\ ids' = [k \in 1..n |-> 0] /\ owners' = [k \in 1..n |-> 0]
    BY <1>11 DEF RestoreArrays
  <2>2. n \in Nat /\ pc' = "rows" /\ nextId' = nextId
    BY <1>11, StartupAssumption DEF RestoreArrays, Goto
  <2>3. ids' \in Seq(0..MaxId) /\ Len(ids') = n
    <3>1. 0 \in 0..MaxId
      BY StartupAssumption
    <3>2. [k \in 1..n |-> 0] \in [1..n -> 0..MaxId]
      BY <3>1
    <3>3. QED BY <2>1, <2>2, <3>2, RowLength
  <2>4. n <= rows'
    BY <2>1, <2>2, ReserveHolds DEF MemoryInv
  <2>5. QED BY <2>1, <2>2, <2>3, <2>4 DEF RowsInv, SeedPhases
<1>12. CASE RestoreRows
  <2>1. PICK order \in [1..Len(ids) -> 1..MaxId], next \in 1..(MaxId + 1) :
            /\ \A j, k \in 1..Len(ids) : order[j] = order[k] => j = k
            /\ \A k \in 1..Len(ids) : order[k] < next
            /\ ids' = order /\ owners' = order /\ nextId' = next
    BY <1>12 DEF RestoreRows
  <2>2. pc' = "running" /\ rows' = rows
    BY <1>12 DEF RestoreRows, Goto
  <2>3. Len(ids) \in Nat /\ MaxId \in Nat
    BY StartupAssumption DEF RowsInv
  <2>4. order \in [1..Len(ids) -> 0..MaxId]
    BY <2>3
  <2>5. order \in Seq(0..MaxId) /\ Len(order) = Len(ids) /\ DOMAIN order = 1..Len(ids)
    BY <2>3, <2>4
  <2>6. next \in 0..(MaxId + 1)
    BY <2>3
  <2>7. QED BY <2>1, <2>2, <2>5, <2>6 DEF RowsInv, SeedPhases
<1>13. CASE Remove
  <2>1. PICK k \in 1..Len(ids) : ids' = Without(ids, k) /\ owners' = Without(owners, k)
    BY <1>13 DEF Remove
  <2>2. pc = "running" /\ pc' = pc /\ rows' = rows /\ nextId' = nextId
    BY <1>13 DEF Remove, memory
  <2>3. ids \in Seq(0..MaxId) /\ Len(ids) \in Nat /\ owners = ids /\ Distinct(ids)
    BY <2>2 DEF RowsInv, Distinct
  <2>4. /\ ids' \in Seq(0..MaxId) /\ Len(ids') = Len(ids) - 1 /\ Distinct(ids')
        /\ \A j \in DOMAIN ids' : \E i \in DOMAIN ids : ids'[j] = ids[i]
    BY <2>1, <2>3, WithoutHolds
  <2>5. \A j \in DOMAIN ids' : ids'[j] < nextId'
    BY <2>2, <2>4 DEF RowsInv
  <2>6. Len(ids') <= rows'
    BY <2>2, <2>3, <2>4 DEF RowsInv, MemoryInv, ArraysMatch
  <2>7. QED BY <2>1, <2>2, <2>3, <2>4, <2>5, <2>6 DEF RowsInv, Distinct, SeedPhases
<1>14. CASE UNCHANGED vars
  <2>1. UNCHANGED <<population, rows>> /\ pc' = pc
    BY <1>14 DEF vars, loader, memory
  <2>2. QED BY <2>1 DEF RowsInv, population
<1>15. QED
  BY <1>2, <1>3, <1>4, <1>5, <1>6, <1>7, <1>8, <1>9, <1>10, <1>11, <1>12, <1>13, <1>14
     DEF Next, SetupSteps, SeedSteps, RowSteps, Ended

LEMMA MemoryInvHolds == Spec => [](MemoryInv /\ RowsInv)
<1>1. Init => MemoryInv /\ RowsInv
  BY StartupAssumption
     DEF Init, LoaderInit, MemoryInv, HeapSound, Held, ArraysMatch, PhaseInv, NoneHeld,
         RowsInv, SeedPhases, Arrays, Scratch, SeedPointers, WorldPointers, Pointers
<1>2. MemoryInv /\ RowsInv /\ [Next]_vars => (MemoryInv /\ RowsInv)'
  BY MemoryStep, RowsStep
<1>3. QED BY <1>1, <1>2, PTL DEF Spec

\* Whatever allocation, open or read fails, no block is lost, freed twice or
\* left behind at the end (alife_setup_world, seed_population, alife_world_load,
\* abandon_world, alife_world_destroy).
THEOREM HeapStaysHeld == Spec => []HeapIsHeld
<1>1. MemoryInv /\ RowsInv => HeapIsHeld
  <2> SUFFICES ASSUME MemoryInv PROVE HeapIsHeld
    OBVIOUS
  <2>1. NoneHeld(Pointers) => heap = {}
    BY DEF NoneHeld, MemoryInv, HeapSound, Held
  <2>2. pc \in LoaderPhases \cup {"exited"} => NoneHeld(Pointers)
    BY DEF MemoryInv, PhaseInv
  <2>3. pc = "running" => NoneHeld(SeedPointers) /\ NoneHeld({"file"})
    BY DEF MemoryInv, PhaseInv
  <2>4. QED BY <2>1, <2>2, <2>3 DEF HeapIsHeld, MemoryInv, HeapSound, NoneHeld
<1>2. QED BY <1>1, MemoryInvHolds, PTL

\* The arrays are large enough for the organisms, and organisms[k] and data[k]
\* are of the same one, in every order of births, deaths and reloads
\* (alife_reserve, append_organism, remove_at, alife_world_load).
THEOREM RowsStayTogether == Spec => []RowsFollow
<1>1. MemoryInv /\ RowsInv => RowsFollow
  BY DEF MemoryInv, ArraysMatch, RowsInv, RowsFollow
<1>2. QED BY <1>1, MemoryInvHolds, PTL

=============================================================================
