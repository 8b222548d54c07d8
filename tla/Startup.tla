------------------------------ MODULE Startup -------------------------------
(***************************************************************************)
(* From the command line to a world and back: run_command (src/src/main.c),*)
(* alife_setup_world, alife_world_init, alife_world_destroy and the arrays *)
(* of src/src/simulation.c, and what alife_world_load (src/src/checkpoint.c)*)
(* does to memory.  Any allocation, any fopen and any read may fail.       *)
(*                                                                         *)
(* A block of memory (or an open file) is the pointer it was made for and  *)
(* the rows it has room for, 0 for one that is no array.                   *)
(***************************************************************************)
EXTENDS ConfigLoad, Layout, Heredity, OffDuration, Sequences

CONSTANTS
    MaxId,          \* bound: organisms born
    StructBytes,    \* sizeof(AlifeOrganism)
    SizeMax,        \* SIZE_MAX
    Overrides,      \* bound: paths given with --checkpoint
    Null

VARIABLES
    resume,         \* the command is resume
    heap,           \* the blocks allocated and not freed
    ptr,            \* ptr[p]: the block that the pointer p holds, or Null
    rows,           \* slot_capacity, and scratch_capacity with it
    ids,            \* organisms[0..count-1], by id
    owners,         \* data[0..count-1], by the id of the organism it is of
    nextId,         \* next_id
    base, related,  \* the two seed genomes
    mutations       \* those counted for the second

memory == <<heap, ptr, rows>>
population == <<ids, owners, nextId>>
seeds == <<base, related, mutations>>
vars == <<loader, resume, memory, population, seeds>>

Arrays == {"organisms", "data", "scratch_ids"}
Scratch == {"scratch_hidden", "scratch_genome"}
SeedPointers == {"base", "related"}
WorldPointers == Arrays \cup Scratch \cup {"event_log"}
Pointers == WorldPointers \cup SeedPointers \cup {"file"}

Block(p, n) == [of |-> p, rows |-> n]
Blocks == [of : Pointers, rows : Nat]

ASSUME StartupAssumption ==
    /\ MaxId \in Nat /\ MaxId >= 2   \* the seeds
    /\ StructBytes \in Nat \ {0} /\ SizeMax \in Nat
    /\ Null \notin Blocks

Held(P) == {ptr[p] : p \in P} \ {Null}

NoGenome == [g \in Genes |-> 0]

(***************************************************************************)
(* Memory                                                                  *)
(***************************************************************************)
\* malloc or fopen for each pointer of P.
Allocate(P) ==
    /\ heap' = heap \cup {Block(p, 0) : p \in P}
    /\ ptr' = [p \in Pointers |-> IF p \in P THEN Block(p, 0) ELSE ptr[p]]

\* free or fclose for each pointer of P; free(NULL) does nothing.
Free(P) ==
    /\ heap' = heap \ Held(P)
    /\ ptr' = [p \in Pointers |-> IF p \in P THEN Null ELSE ptr[p]]

\* alife_reserve: its guards against overflow, ...
Representable(n) ==
    n <= SizeMax \div StructBytes /\ n <= SizeMax \div (SlotFloats(dest) * 4)

\* ... the three arrays replaced together, ...
Grow(n) ==
    /\ heap' = (heap \ Held(Arrays)) \cup {Block(p, n) : p \in Arrays}
    /\ ptr' = [p \in Pointers |-> IF p \in Arrays THEN Block(p, n) ELSE ptr[p]]
    /\ rows' = n

\* ... with 4 rows doubled until they are enough.  When one of the three
\* cannot be had, none is replaced, and the caller is told.
FirstRows == IF rows = 0 THEN 4 ELSE rows

Reserve(needed) ==
    IF needed <= rows THEN UNCHANGED memory
    ELSE \E k \in 0..needed :
            /\ FirstRows * 2^k >= needed
            /\ k > 0 => FirstRows * 2^(k - 1) < needed
            /\ Representable(FirstRows * 2^k)
            /\ Grow(FirstRows * 2^k)

ReserveMayFail(needed) == needed > rows

\* append_organism, once there is room
AppendOrganism ==
    /\ ids' = Append(ids, nextId)
    /\ owners' = Append(owners, nextId)
    /\ nextId' = nextId + 1

(***************************************************************************)
(* The command                                                             *)
(***************************************************************************)
Init ==
    /\ LoaderInit
    /\ resume = FALSE
    /\ heap = {} /\ ptr = [p \in Pointers |-> Null] /\ rows = 0
    /\ ids = <<>> /\ owners = <<>> /\ nextId = 0
    /\ base = NoGenome /\ related = NoGenome /\ mutations = 0

Goto(phase) == pc' = phase /\ UNCHANGED <<dest, loaded, seen, taken, lines, resume>>

\* The world is cleared with memset when the pointers P have been released.
Dismantle(P) ==
    /\ Free(P) /\ rows' = 0
    /\ ids' = <<>> /\ owners' = <<>> /\ nextId' = 0
    /\ base' = NoGenome /\ related' = NoGenome /\ mutations' = 0
    /\ Goto("exited")

\* copy_checkpoint_override, which leaves a part of a path that is too long,
\* and the second validation.
Command ==
    /\ pc = "loaded"
    /\ \E path \in Overrides \cup {dest.checkpoint_path}, r \in BOOLEAN :
        /\ r => path \in Overrides
        /\ resume' = r
        /\ dest' = [dest EXCEPT !.checkpoint_path = path]
        /\ pc' = IF ~Valid(dest') THEN "exited" ELSE IF r THEN "open" ELSE "setup"
    /\ UNCHANGED <<loaded, seen, taken, lines, memory, population, seeds>>

\* alife_world_load opens the checkpoint before it touches the world.
OpenCheckpoint ==
    /\ pc = "open"
    /\ \/ Allocate({"file"}) /\ Goto("setup") /\ UNCHANGED rows
       \/ Goto("exited") /\ UNCHANGED memory
    /\ UNCHANGED <<population, seeds>>

(***************************************************************************)
(* alife_setup_world                                                       *)
(***************************************************************************)
OrganismSize(c) == StructBytes + SlotFloats(c) * 4

HoldsTheSeeds(c) == OrganismSize(c) <= c.capacity_bytes \div c.initial_population

SetUp ==
    /\ pc = "setup"
    /\ Valid(dest) /\ LayoutAccepts(dest) /\ HoldsTheSeeds(dest)
    /\ Allocate(Scratch)
    /\ nextId' = 1
    /\ Goto("log")
    /\ UNCHANGED <<rows, ids, owners, seeds>>

\* The configuration is refused, or one of the two allocations is.
SetUpFails ==
    /\ pc = "setup"
    /\ Free({"file"})
    /\ Goto("exited")
    /\ UNCHANGED <<rows, population, seeds>>

AfterLog == IF resume THEN "restore" ELSE "seed"

OpenLog ==
    /\ pc = "log"
    /\ IF dest.logging_level = "error" THEN UNCHANGED <<heap, ptr>>
       ELSE Allocate({"event_log"})
    /\ Goto(AfterLog)
    /\ UNCHANGED <<rows, population, seeds>>

\* Fault: one of the two scratch arrays is left.
OpenLogFailsLeaking ==
    /\ pc = "log" /\ dest.logging_level # "error"
    /\ Free({"scratch_hidden", "file"})
    /\ Goto("exited")
    /\ UNCHANGED <<rows, population, seeds>>

OpenLogFails ==
    /\ pc = "log" /\ dest.logging_level # "error"
    /\ Free(Scratch \cup {"file"})
    /\ Goto("exited")
    /\ UNCHANGED <<rows, population, seeds>>

(***************************************************************************)
(* resume: alife_world_load and abandon_world                              *)
(***************************************************************************)
\* The header has been checked; its count is n.
RestoreArrays ==
    /\ pc = "restore"
    /\ \E n \in 0..MaxId :
        /\ n <= dest.capacity_bytes \div OrganismSize(dest)
        /\ Reserve(n)
        /\ ids' = [k \in 1..n |-> 0] /\ owners' = [k \in 1..n |-> 0]
    /\ Goto("rows")
    /\ UNCHANGED <<nextId, seeds>>

\* The rows are read in the order in which they were saved.
RestoreRows ==
    /\ pc = "rows"
    /\ \E order \in [1..Len(ids) -> 1..MaxId], next \in 1..(MaxId + 1) :
        /\ \A j, k \in 1..Len(ids) : order[j] = order[k] => j = k
        /\ \A k \in 1..Len(ids) : order[k] < next
        /\ ids' = order /\ owners' = order /\ nextId' = next
    /\ Free({"file"})
    /\ Goto("running")
    /\ UNCHANGED <<rows, seeds>>

\* The header or an organism is refused, or the arrays cannot be had.
Abandon == pc \in {"restore", "rows"} /\ Dismantle(WorldPointers \cup {"file"})

(***************************************************************************)
(* run: alife_world_init and seed_population                               *)
(***************************************************************************)
AllocateSeeds ==
    /\ pc = "seed"
    /\ Allocate(SeedPointers)
    /\ Goto("shape")
    /\ UNCHANGED <<rows, population, seeds>>

Shape ==
    /\ pc = "shape"
    /\ \E s \in Draws : base' = InitialGenome(dest, s)
    /\ related' = base'
    /\ Goto("mutate")
    /\ UNCHANGED <<memory, population, mutations>>

MutateGenes ==
    /\ pc = "mutate"
    /\ \E drawn \in SUBSET Genes, shift \in [Genes -> Draws] :
        /\ SeedMutationProbability(dest) = One => drawn = Genes
        /\ related' = MutatedGenes(dest, related, drawn, shift)
    /\ mutations' = Cardinality(Changed(base, related'))
    /\ Goto("rhythm")
    /\ UNCHANGED <<memory, population, base>>

MutateRhythm ==
    /\ pc = "rhythm"
    /\ IF Changed(base, related) \cap RhythmGenes # {}
       THEN UNCHANGED <<related, mutations>>
       ELSE \E step \in RhythmSteps(dest) :
                /\ related' = [related EXCEPT !.bias = RhythmStep(dest, @, step)]
                /\ mutations' = IF related'.bias = related.bias THEN mutations
                                ELSE mutations + 1
    /\ Goto("flip")
    /\ UNCHANGED <<memory, population, base>>

\* Fault: the seeds may be identical.
FlipNever ==
    /\ pc = "flip"
    /\ Goto("inspect")
    /\ UNCHANGED <<memory, population, seeds>>

\* When nothing has changed a gene is turned over.
Flip ==
    /\ pc = "flip"
    /\ IF mutations # 0 THEN UNCHANGED <<related, mutations>>
       ELSE /\ \E g \in Genes :
                    related' = [related EXCEPT ![g] = Flipped(dest, @)]
            /\ mutations' = 1
    /\ Goto("inspect")
    /\ UNCHANGED <<memory, population, base>>

SeedsValid == \A g \in Genes : GeneValid(dest, base[g]) /\ GeneValid(dest, related[g])

Inspect ==
    /\ pc = "inspect" /\ SeedsValid
    /\ Goto("append")
    /\ UNCHANGED <<memory, population, seeds>>

AppendSeed ==
    /\ pc = "append" /\ Len(ids) < 2
    /\ Reserve(Len(ids) + 1)
    /\ AppendOrganism
    /\ UNCHANGED <<pc, dest, loaded, seen, taken, lines, resume, seeds>>

\* Out of memory at any point, or a genome that alife_genome_validate refuses;
\* the world is destroyed with what there is of it.
SeedsFail ==
    /\ \/ pc = "seed"
       \/ pc = "inspect" /\ ~SeedsValid
       \/ pc = "append" /\ Len(ids) < 2 /\ ReserveMayFail(Len(ids) + 1)
    /\ Dismantle(SeedPointers \cup WorldPointers)

SeedsDone ==
    /\ pc = "append" /\ Len(ids) = 2
    /\ Free(SeedPointers)
    /\ base' = NoGenome /\ related' = NoGenome /\ mutations' = 0
    /\ Goto("running")
    /\ UNCHANGED <<rows, population>>

(***************************************************************************)
(* The run: organisms come and go, in Substrate by the rules of the tick   *)
(***************************************************************************)
\* complete_birth; one that is refused changes nothing here.
Birth ==
    /\ pc = "running" /\ Len(ids) >= 2 /\ nextId <= MaxId
    /\ Reserve(Len(ids) + 1)
    /\ AppendOrganism
    /\ UNCHANGED <<pc, dest, loaded, seen, taken, lines, resume, seeds>>

Without(s, k) ==
    [j \in 1..(Len(s) - 1) |-> IF j = k THEN s[Len(s)] ELSE s[j]]

\* Fault: the data row of the last organism does not move with it.
RemoveOrganismOnly ==
    /\ pc = "running"
    /\ \E k \in 1..Len(ids) :
        /\ ids' = Without(ids, k)
        /\ owners' = [j \in 1..(Len(ids) - 1) |-> owners[j]]
    /\ UNCHANGED <<pc, dest, loaded, seen, taken, lines, resume, memory, nextId, seeds>>

\* remove_at: the last row moves into the hole, in both arrays.
Remove ==
    /\ pc = "running"
    /\ \E k \in 1..Len(ids) :
        /\ ids' = Without(ids, k)
        /\ owners' = Without(owners, k)
    /\ UNCHANGED <<pc, dest, loaded, seen, taken, lines, resume, memory, nextId, seeds>>

\* alife_world_destroy, at the end of run_command or when the run has failed.
Destroy == pc = "running" /\ Dismantle(WorldPointers)

Ended == pc \in {"refused", "exited"} /\ UNCHANGED vars

Loading == Load /\ UNCHANGED <<resume, memory, population, seeds>>

SetupSteps == Command \/ OpenCheckpoint \/ SetUp \/ SetUpFails \/ OpenLog \/ OpenLogFails

SeedSteps ==
    \/ AllocateSeeds \/ Shape \/ MutateGenes \/ MutateRhythm \/ Flip \/ Inspect
    \/ AppendSeed \/ SeedsFail \/ SeedsDone

RowSteps == RestoreArrays \/ RestoreRows \/ Abandon \/ Birth \/ Remove \/ Destroy

Next == Loading \/ SetupSteps \/ SeedSteps \/ RowSteps \/ Ended

Spec == Init /\ [][Next]_vars

=============================================================================
