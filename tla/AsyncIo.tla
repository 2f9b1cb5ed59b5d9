------------------------------ MODULE AsyncIo -------------------------------
(***************************************************************************)
(* Asynchronous I/O (sdk/dm/io_req.c) next to the requests of IoReq: a     *)
(* vCPU that writes a registered address puts a descriptor into a shared   *)
(* ring (core/sbuf.c) and continues; the device model, woken by an upcall, *)
(* takes it out.  Hypercalls register and remove addresses meanwhile.      *)
(*                                                                         *)
(* Addresses stand for their eventfds, and the fields of a descriptor that *)
(* also have to match (type, data) are left out.  The asyncio lock is held *)
(* by one vCPU at a time because the vCPUs share a pCPU.                   *)
(***************************************************************************)
EXTENDS IoReq, Integers, Sequences

CONSTANTS
    Ringing,   \* the vCPUs that write such addresses
    Addr,      \* the addresses
    Slots,     \* ACRN_ASYNCIO_MAX
    EleNum     \* elements of the ring; it holds one less

ASSUME AsyncIoAssumption ==
    /\ Ringing \subseteq Thread
    /\ Slots \in Nat \ {0} /\ EleNum \in Nat \ {0, 1}
    /\ None \notin Addr

VARIABLES
    rings,     \* whether the behaviour has asynchronous I/O, or else what IoReq has
    desc,      \* vm->aio_desc: the address in each slot, or None
    aio,       \* each vCPU: the slot found, then the descriptor to insert
    sbuf,      \* [cell, head, tail]
    upcall,    \* the HSM interrupt is pending in the Service VM
    dm,        \* the device model: where it is and what it has copied
    queue,     \* observer: descriptors put and not yet taken
    access     \* observer: the address a vCPU writes, None once its slot changed

avars == <<desc, aio, sbuf, upcall, dm, queue, access>>

allvars == <<ivars, avars>>

AioInit ==
    /\ IoInit
    /\ rings \in {Ringing # {}, FALSE}
    /\ desc = [s \in 1..Slots |-> None]
    /\ aio = [v \in Thread |-> None]
    /\ sbuf = [cell |-> [i \in 0 .. EleNum - 1 |-> None], head |-> 0, tail |-> 0]
    /\ upcall = FALSE
    /\ dm = [at |-> "wait", got |-> None]
    /\ queue = <<>>
    /\ access = [v \in Thread |-> None]

-----------------------------------------------------------------------------
\* Hypercalls of the device model.

FirstFree(s) ==
    /\ desc[s] = None
    /\ \A u \in 1 .. s - 1 : desc[u] # None

\* Mutant: the first slot is taken, free or not.
AddAsyncioFirst(a) ==
    /\ \A s \in 1..Slots : desc[s] # a
    /\ desc' = [desc EXCEPT ![1] = a]
    /\ UNCHANGED <<ivars, aio, sbuf, upcall, dm, queue, access>>

\* add_asyncio; it fails if the address is registered or no slot is free.
AddAsyncio(a) ==
    /\ \A s \in 1..Slots : desc[s] # a
    /\ \E s \in 1..Slots : FirstFree(s) /\ desc' = [desc EXCEPT ![s] = a]
    /\ UNCHANGED <<ivars, aio, sbuf, upcall, dm, queue, access>>

\* remove_asyncio.
RemoveAsyncio(a) ==
    \E s \in 1..Slots :
        /\ desc[s] = a
        /\ desc' = [desc EXCEPT ![s] = None]
        /\ access' = [v \in Thread |-> IF aio[v] = s THEN None ELSE access[v]]
        /\ UNCHANGED <<ivars, aio, sbuf, upcall, dm, queue>>

-----------------------------------------------------------------------------
\* The vCPU.

\* emulate_io and get_asyncio_desc, for an address that is registered; for the
\* others InsertRequest follows.
GetAsyncioDesc(v) ==
    /\ v \in Ringing
    /\ Step(v, "guest", "found")
    /\ \E s \in 1..Slots :
         /\ desc[s] # None
         /\ aio' = [aio EXCEPT ![v] = s]
         /\ access' = [access EXCEPT ![v] = desc[s]]
    /\ UNCHANGED <<evars, iovars, desc, sbuf, upcall, dm, queue>>

\* The descriptor is read after the lock was released.
LoadFd(v) ==
    /\ Step(v, "found", "aio")
    /\ aio' = [aio EXCEPT ![v] = desc[aio[v]]]
    /\ access' = [access EXCEPT ![v] = None]
    /\ UNCHANGED <<evars, iovars, desc, sbuf, upcall, dm, queue>>

Wrap(i) == IF i >= EleNum THEN i - EleNum ELSE i

\* sbuf_next_ptr; positions are counted in elements.
NextPtr(i) == Wrap(i + 1)

\* Mutant: the ring is not tested for room.
InsertOverruns(v) ==
    /\ Step(v, "aio", "tail")
    /\ sbuf' = [sbuf EXCEPT !.cell[sbuf.tail] = aio[v]]
    /\ UNCHANGED <<evars, iovars, desc, aio, upcall, dm, queue, access>>

\* acrn_insert_asyncio up to the data of sbuf_put: while the ring is full, the
\* lock is released and another thread may run.
InsertAsyncio(v) ==
    /\ owner = v /\ pc[v] = "aio"
    /\ IF NextPtr(sbuf.tail) = sbuf.head
       THEN Dispatch /\ UNCHANGED <<pc, sbuf>>
       ELSE /\ Goto(v, "tail") /\ UNCHANGED <<awake, owner>>
            /\ sbuf' = [sbuf EXCEPT !.cell[sbuf.tail] = aio[v]]
    /\ UNCHANGED <<evars, iovars, desc, aio, upcall, dm, queue, access>>

\* Mutant: the device model is not told.
PutTailSilent(v) ==
    /\ Step(v, "tail", "top")
    /\ sbuf' = [sbuf EXCEPT !.tail = NextPtr(@)]
    /\ queue' = Append(queue, aio[v])
    /\ aio' = [aio EXCEPT ![v] = None]
    /\ UNCHANGED <<evars, iovars, desc, upcall, dm, access>>

\* The tail is published.
PutTail(v) ==
    /\ Step(v, "tail", "fire")
    /\ sbuf' = [sbuf EXCEPT !.tail = NextPtr(@)]
    /\ queue' = Append(queue, aio[v])
    /\ aio' = [aio EXCEPT ![v] = None]
    /\ UNCHANGED <<evars, iovars, desc, upcall, dm, access>>

\* arch_fire_hsm_interrupt.
Fire(v) ==
    /\ Step(v, "fire", "top")
    /\ upcall' = TRUE
    /\ UNCHANGED <<evars, iovars, desc, aio, sbuf, dm, queue, access>>

-----------------------------------------------------------------------------
\* The device model (external, with sbuf_get of sdk/udev): an upcall makes it
\* empty the ring.

DmWake ==
    /\ dm.at = "wait" /\ upcall
    /\ upcall' = FALSE /\ dm' = [dm EXCEPT !.at = "get"]
    /\ UNCHANGED <<ivars, desc, aio, sbuf, queue, access>>

DmCopy ==
    /\ dm.at = "get"
    /\ dm' = IF sbuf.head = sbuf.tail THEN [dm EXCEPT !.at = "wait"]
             ELSE [at |-> "copied", got |-> sbuf.cell[sbuf.head]]
    /\ UNCHANGED <<ivars, desc, aio, sbuf, upcall, queue, access>>

DmHead ==
    /\ dm.at = "copied"
    /\ dm' = [at |-> "get", got |-> None]
    /\ sbuf' = [sbuf EXCEPT !.head = NextPtr(@)]
    /\ queue' = Tail(queue)
    /\ UNCHANGED <<ivars, desc, aio, upcall, access>>

DmRing == DmWake \/ DmCopy \/ DmHead

-----------------------------------------------------------------------------

AioStep(v) == GetAsyncioDesc(v) \/ LoadFd(v) \/ InsertAsyncio(v) \/ PutTail(v) \/ Fire(v)

AioThreadStep(v) == (ThreadStep(v) /\ UNCHANGED avars) \/ AioStep(v)

\* Of IoReq, only the loop of the vCPUs in Ringing.
Plain ==
    /\ pending = {}
    /\ \A v \in Thread : pc[v] \notin {"vint", "ioreq", "poll"} /\ vstate[v] # "ZOMBIE"
    /\ \A v \in Thread \ Ringing : vstate[v] = "INIT"

AioNext ==
    /\ \/ IoNext /\ UNCHANGED avars /\ (rings => Plain')
       \/ rings /\ \E a \in Addr : AddAsyncio(a) \/ RemoveAsyncio(a)
       \/ rings /\ \E v \in Thread : AioStep(v)
       \/ rings /\ DmRing
    /\ UNCHANGED rings

AioSpec == AioInit /\ [][AioNext]_<<rings, allvars>>

AioSwitchTo(v) ==
    /\ (IdleSchedule /\ UNCHANGED avars) \/ \E u \in Thread : AioThreadStep(u)
    /\ owner' = v

\* As in IoReq, and the device model empties the ring.
AioFairSpec ==
    /\ AioSpec
    /\ WF_ivars(Boot /\ UNCHANGED avars) /\ WF_ivars(IdleSchedule /\ UNCHANGED avars)
    /\ WF_avars(DmRing)
    /\ \A v \in Thread :
          /\ WF_allvars(AioThreadStep(v)) /\ SF_ivars(AioSwitchTo(v))
          /\ WF_ivars(DmStep(v) /\ UNCHANGED avars)
          /\ WF_ivars(InjectSignal(v) /\ UNCHANGED avars)

-----------------------------------------------------------------------------

\* The ring between head and tail is the queue of what was put and not taken,
\* and the device model reads its oldest element: nothing is overwritten while
\* it is copied, read before it was written, taken twice or lost.
RingIsQueue ==
    /\ Wrap(sbuf.head + Len(queue)) = sbuf.tail
    /\ Len(queue) < EleNum
    /\ \A i \in DOMAIN queue : sbuf.cell[Wrap(sbuf.head + i - 1)] = queue[i]
    /\ dm.at = "copied" => queue # <<>> /\ dm.got = Head(queue)

\* A write to a registered address inserts the descriptor of that address,
\* unless it is removed between the lookup under the lock and its use.
OwnDescriptor ==
    [][\A v \in Thread :
         pc[v] = "found" /\ pc'[v] = "aio" /\ access[v] # None =>
             aio'[v] = access[v]]_allvars

\* A vCPU that meets a full ring gets in ("sbuf is full, try later"), unless
\* others fill it again for ever.
RingAdmits ==
    \A v \in Thread :
        (<>[](\A u \in Thread \ {v} : pc[u] # "tail")) =>
            (pc[v] = "aio" ~> pc[v] # "aio" \/ vstate[v] = "ZOMBIE")

=============================================================================
