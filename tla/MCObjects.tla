------------------------------ MODULE MCObjects ------------------------------
(***************************************************************************)
(* The library's small classes, in one run.  They do not interact, so a    *)
(* behaviour is of a client of one class, the one that class names; the    *)
(* states of the run are those of the classes side by side, not their      *)
(* product.  Each class is checked under the module that models it.        *)
(*                                                                         *)
(* Sizes: three handles, handlers, storages, guards, lists or owners are   *)
(* what one needs to move something away, replace it and move it back;     *)
(* there is one more resource than handles, and one more handler than      *)
(* units, of a counter whose shares run out.  Two exceptions, so that one  *)
(* waits in a kept frame while the other is delivered.  Two uuids,         *)
(* threads, identifiers and spellings.  Lists of two and three levels.     *)
(* Bytes of two bits, integers of one, two and four of them, values on     *)
(* the boundaries of each type.                                            *)
(***************************************************************************)
EXTENDS Integers, FiniteSets, TLC

CONSTANTS None,
          Handle, MaxFd, Resource,
          Handler, Unit, W, Deltas, Limits, MaxOnline,
          Storage, Block, MaxObjects,
          Exception, Held,
          Object, Thread, Id, Spelling,
          Base, Type, Values, MaxSize,
          List, Element, MaxLevels,
          Count, Guard, Originals,
          Owner, Piece, Allocator, Sizes, Alignment

\* The values of the constants that Objects.cfg does not write out.
MCTypes == {[size |-> 1, signed |-> TRUE], [size |-> 2, signed |-> FALSE],
            [size |-> 4, signed |-> FALSE], [size |-> 4, signed |-> TRUE]}
MCIntegers == {-128, -2, 1, 4, 27, 255}

VARIABLES
    class,
    m_fd, open, serial, got,
    m_resource, m_valid, made, deleted,
    m_parent, m_tid, active, m_global_counter_max,
    m_global_counter_reserve, m_global_counter, registered, counter_max,
    counter, m_num_online, lockHolders, pc, call, counted, loaded, sum,
    todo,
    live, m_storage, m_has_value, inside, created, destroyed,
    promised, m_ex, m_value, alive, step, failing, thrown, raised, taken,
    ended, careless,
    m_uuid, m_str, at, self, generated, answer,
    native, dst, items,
    listed, m_head, m_max_level, m_level, m_size, holder, m_list, height,
    demade, astray,
    m_count, owed, guards, m_cnt, source, retired,
    kind, existing, m_memory, m_alloc, m_capacity, m_written, lent,
    returned, wrongly, given_up, dropped

Fd == INSTANCE UniquePosixFd
Resources == INSTANCE UniqueResource WITH Discipline <- {"valid", "vacant"}
Handlers == INSTANCE SpecificHandler WITH Discipline <- {"vacant"},
                                          SerialMembership <- TRUE,
                                          answer <- counted
Storages == INSTANCE ObjectStorage WITH Discipline <- {"clears", "empties"}
Promise == INSTANCE CallbackPromise
Uuids == INSTANCE Uuid WITH Discipline <- {"alone"}
Encoding == INSTANCE Encode
Lists == INSTANCE SkipListMoves WITH Discipline <- {"outlives"}, alive <- listed
Counts == INSTANCE RefCount
Memories == INSTANCE OwnedMemory WITH Discipline <- {"single"},
                                      m_storage <- m_memory, m_size <- m_written

ASSUME ClassAssumptions ==
    /\ Fd!FdAssumption /\ Resources!ResourceAssumption
    /\ Handlers!CounterAssumption /\ Handlers!HandlerAssumption
    /\ Storages!StorageAssumption
    /\ Promise!CallbackAssumption /\ Uuids!UuidAssumption
    /\ Encoding!EncodeAssumption /\ Lists!MovesAssumption
    /\ Counts!RefCountAssumption /\ Memories!MemoryAssumption

Init == /\ class \in {"unique_posix_fd", "unique_resource",
                      "specific_counter_handler", "object_storage",
                      "callback_promise", "uuid", "encode", "skip_list",
                      "ref_count", "owned_memory"}
        /\ Fd!Init /\ Resources!Init /\ Handlers!HandlerInit /\ Storages!Init
        /\ Promise!Init /\ Uuids!Init /\ Encoding!Init
        /\ Lists!Init /\ Counts!Init /\ Memories!Init
        /\ class = "encode" \/ native = "little"
        /\ class = "callback_promise" \/ promised = "value"
        /\ class = "ref_count" \/ \A r \in Count : owed[r] = 0
        /\ class = "owned_memory" \/ kind = "page"

fd == <<m_fd, open, serial, got>>
resource == <<m_resource, m_valid, made, deleted>>
handler == <<m_parent, m_tid, active, m_global_counter_max,
             m_global_counter_reserve, m_global_counter, registered,
             counter_max, counter, m_num_online, lockHolders, pc, call,
             counted, loaded, sum, todo>>
storage == <<live, m_storage, m_has_value, inside, created, destroyed>>
promise == <<promised, m_ex, m_value, alive, step, failing, thrown,
             raised, taken, ended, careless>>
uuid == <<m_uuid, m_str, at, self, generated, answer>>
encode == <<native, dst, items>>
skip_list == <<listed, m_head, m_max_level, m_level, m_size, holder,
               m_list, height, demade, astray>>
ref_count == <<m_count, owed, guards, m_cnt, source, retired>>
owned_memory == <<kind, existing, m_memory, m_alloc, m_capacity,
                  m_written, lent, returned, wrongly, given_up, dropped>>

vars == <<class, fd, resource, handler, storage, promise, uuid, encode,
          skip_list, ref_count, owned_memory>>

\* A step of the class that this behaviour is about, and of no other.
Next ==
    /\ UNCHANGED class
    /\ \/ /\ class = "unique_posix_fd" /\ Fd!Next
          /\ UNCHANGED <<resource, handler, storage, promise, uuid, encode,
                         skip_list, ref_count, owned_memory>>
       \/ /\ class = "unique_resource" /\ Resources!Next
          /\ UNCHANGED <<fd, handler, storage, promise, uuid, encode,
                         skip_list, ref_count, owned_memory>>
       \/ /\ class = "specific_counter_handler" /\ Handlers!HandlerNext
          /\ UNCHANGED <<fd, resource, storage, promise, uuid, encode,
                         skip_list, ref_count, owned_memory>>
       \/ /\ class = "object_storage" /\ Storages!Next
          /\ UNCHANGED <<fd, resource, handler, promise, uuid, encode,
                         skip_list, ref_count, owned_memory>>
       \/ /\ class = "callback_promise" /\ Promise!Next
          /\ UNCHANGED <<fd, resource, handler, storage, uuid, encode,
                         skip_list, ref_count, owned_memory>>
       \/ /\ class = "uuid" /\ Uuids!Next
          /\ UNCHANGED <<fd, resource, handler, storage, promise, encode,
                         skip_list, ref_count, owned_memory>>
       \/ /\ class = "encode" /\ Encoding!Next
          /\ UNCHANGED <<fd, resource, handler, storage, promise, uuid,
                         skip_list, ref_count, owned_memory>>
       \/ /\ class = "skip_list" /\ Lists!Next
          /\ UNCHANGED <<fd, resource, handler, storage, promise, uuid,
                         encode, ref_count, owned_memory>>
       \/ /\ class = "ref_count" /\ Counts!Next
          /\ UNCHANGED <<fd, resource, handler, storage, promise, uuid,
                         encode, skip_list, owned_memory>>
       \/ /\ class = "owned_memory" /\ Memories!Next
          /\ UNCHANGED <<fd, resource, handler, storage, promise, uuid,
                         encode, skip_list, ref_count>>

Spec == Init /\ [][Next]_vars

-----------------------------------------------------------------------------
(* Properties: those of the classes, under their names.                    *)

\* unique_posix_fd and unique_resource: every descriptor is closed, and every
\* resource deleted, exactly once, by the last handle.
HandlesOwnOnce == Fd!DescriptorsOwned /\ Resources!DeletedExactlyOnce

\* specific_counter_handler, over the counter: a unit's entry and reserve last
\* exactly as long as its handler.
EntryIffHandler == Handlers!EntryIffHandler

\* object_storage: every object is destroyed exactly once.
DestroyedExactlyOnce == Storages!DestroyedExactlyOnce

\* callback_promise: every exception reaches somebody, exactly once.
ExceptionsDelivered == Promise!ExceptionsDelivered

\* callback_promise: a careful callback never brings the program to its end.
NeverEnds == Promise!NeverEnds

\* uuid: texts, kept or answered, are those of their identifiers.
TextsRight == Uuids!TextsRight

\* encode: integers survive being written, in either byte order.
IntegersSurvive == Encoding!IntegersSurvive

\* skip_list, moved and assigned: values are freed once, through a living list.
ValuesFreedOnce == Lists!ValuesFreedOnce

\* ref_count: the count is the number of shares, and none is left at the end.
SharesCounted == Counts!SharesCounted

\* page, buffer_block, allocator_ptr: memory goes back once, where it came from.
BlocksReturned == Memories!BlocksReturned
=============================================================================
