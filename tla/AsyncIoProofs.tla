--------------------------- MODULE AsyncIoProofs ----------------------------
(***************************************************************************)
(* Proofs about the asynchronous I/O ring for every set of vCPUs, every    *)
(* number of slots and every size of the ring.                             *)
(***************************************************************************)
EXTENDS AsyncIo, TLAPS

Pos == 0 .. EleNum - 1

Data == Addr \cup {None}

Place == {"top", "pending", "reset", "guest", "vint", "ioreq", "poll", "complete",
          "found", "aio", "tail", "fire"}

Phase == {"enter", "schedule", "check"}

AioTypeOK ==
    /\ pc \in [Thread -> Place]
    /\ phase \in [Thread -> Phase]
    /\ desc \in [1..Slots -> Data]
    /\ aio \in [Thread -> (1..Slots) \cup Data]
    /\ access \in [Thread -> Data]
    /\ sbuf \in [cell : [Pos -> Data], head : Pos, tail : Pos]
    /\ dm \in [at : {"wait", "get", "copied"}, got : Data]
    /\ queue \in Seq(Data)

\* What the locations of a vCPU on its way through the ring stand for: it owns
\* the pCPU from the data to the tail, the cell it wrote is past the queue, and
\* it is not in wait_event.
AioPlace ==
    \A v \in Thread :
        /\ phase[v] # "enter" => pc[v] \in Kind
        /\ pc[v] = "found" => aio[v] \in 1..Slots
        /\ pc[v] = "aio" => aio[v] \in Data
        /\ pc[v] = "tail" =>
             /\ owner = v
             /\ aio[v] \in Data /\ sbuf.cell[sbuf.tail] = aio[v]
             /\ NextPtr(sbuf.tail) # sbuf.head

\* An address under way is still in the slot it was found in.
AioLookup ==
    \A v \in Thread :
        pc[v] = "found" /\ access[v] # None => desc[aio[v]] = access[v]

\* The inductive invariant.
AioInv == AioTypeOK /\ AioPlace /\ RingIsQueue /\ AioLookup

USE AsyncIoAssumption, IoReqAssumption

-----------------------------------------------------------------------------
\* Arithmetic of sbuf_next_ptr.

\* A position moved by at most a whole turn is a position.
LEMMA WrapPos ==
    ASSUME NEW i \in Pos, NEW n \in 0..EleNum
    PROVE  Wrap(i + n) \in Pos
BY DEF Wrap, Pos

\* sbuf_next_ptr moves a position by one, before or after another move.
LEMMA WrapNext ==
    ASSUME NEW i \in Pos, NEW n \in Pos
    PROVE  /\ NextPtr(i) \in Pos
           /\ NextPtr(Wrap(i + n)) = Wrap(i + (n + 1))
           /\ Wrap(NextPtr(i) + n) = Wrap(i + (n + 1))
BY DEF Wrap, Pos, NextPtr

\* Different moves within a turn reach different positions.
LEMMA WrapDiffer ==
    ASSUME NEW i \in Pos, NEW m \in Pos, NEW n \in Pos, m # n
    PROVE  Wrap(i + m) # Wrap(i + n)
BY DEF Wrap, Pos

\* A whole turn comes back.
LEMMA WrapTurn ==
    ASSUME NEW i \in Pos
    PROVE  Wrap(i + EleNum) = i
BY DEF Wrap, Pos

-----------------------------------------------------------------------------

\* The ring is empty at first.
LEMMA AioInitInv == AioInit => AioInv
<1> SUFFICES ASSUME AioInit PROVE AioInv
  OBVIOUS
<1> USE DEF AioInit, IoInit, Init, InitEvent
<1>1. AioTypeOK
  <2>1. /\ pc \in [Thread -> Place] /\ phase \in [Thread -> Phase]
        /\ desc \in [1..Slots -> Data] /\ aio \in [Thread -> (1..Slots) \cup Data]
        /\ access \in [Thread -> Data]
    BY DEF Data, Place, Phase
  <2>2. sbuf \in [cell : [Pos -> Data], head : Pos, tail : Pos]
    BY DEF Pos, Data
  <2>3. dm \in [at : {"wait", "get", "copied"}, got : Data] /\ queue \in Seq(Data)
    BY DEF Data
  <2>4. QED
    BY <2>1, <2>2, <2>3 DEF AioTypeOK
<1>2. AioPlace /\ AioLookup
  BY DEF AioPlace, AioLookup
<1>3. RingIsQueue
  BY DEF RingIsQueue, Wrap
<1>4. QED
  BY <1>1, <1>2, <1>3 DEF AioInv

\* The actions of IoReq neither bring a vCPU to the places of the ring nor take
\* the pCPU from one that is between the data and the tail.
LEMMA IoFrame ==
    ASSUME AioTypeOK, AioPlace, IoNext
    PROVE  /\ pc' \in [Thread -> Place] /\ phase' \in [Thread -> Phase]
           /\ \A v \in Thread :
                /\ phase'[v] # "enter" => pc'[v] \in Kind
                /\ pc'[v] \in {"found", "aio", "tail"} => pc'[v] = pc[v]
                /\ pc'[v] = "tail" => owner' = owner
<1>t. /\ pc \in [Thread -> Place] /\ phase \in [Thread -> Phase]
      /\ \A u \in Thread : phase[u] # "enter" => pc[u] \in {"ioreq", "vint"}
      /\ \A u \in Thread : pc[u] = "tail" => owner = u
  BY DEF AioTypeOK, AioPlace
<1> USE DEF Place, Phase, Goto, evars, iovars, Step
<1>1. CASE Boot
  BY <1>1, <1>t DEF Boot, Start
<1>2. CASE IdleSchedule
  BY <1>2, <1>t DEF IdleSchedule, Dispatch
<1>3. ASSUME NEW v \in Thread,
             LaunchVcpu(v) \/ ZombieVcpu(v) \/ SleepSyncDone(v) \/ Inject(v)
             \/ InjectSignal(v) \/ DmStep(v)
      PROVE  pc' = pc /\ phase' = phase /\ owner' = owner
  BY <1>3 DEF LaunchVcpu, ZombieVcpu, SleepSyncDone, Inject, InjectSignal, DmStep,
              DmAnswer, NotifyIoreqFinish, Sleep, Wake, SignalEvent
<1>4. ASSUME NEW v \in Thread, ThreadStep(v)
      PROVE  /\ pc' \in [Thread -> Place] /\ phase' \in [Thread -> Phase]
             /\ \A u \in Thread \ {v} : pc'[u] = pc[u] /\ phase'[u] = phase[u]
             /\ phase'[v] # "enter" => pc'[v] \in Kind
             /\ pc'[v] \notin {"found", "aio", "tail"}
             /\ owner = v
  <2>1. CASE TopSchedule(v) \/ TopContinue(v)
    BY <2>1, <1>t DEF TopSchedule, TopContinue
  <2>2. CASE HandlePending(v) \/ ResetVint(v)
    BY <2>2, <1>t DEF HandlePending, ResetVint, ResetEvent
  <2>3. CASE Exit(v) \/ HltExit(v)
    BY <2>3, <1>t DEF Exit, HltExit
  <2>4. CASE HltWait(v)
    BY <2>4, <1>t DEF HltWait, WaitEvent, WaitCheck, Leave, GoToSleep, Sleep
  <2>5. CASE InsertRequest(v)
    BY <2>5, <1>t DEF InsertRequest
  <2>6. CASE RequestWait(v)
    BY <2>6, <1>t DEF RequestWait, WaitEvent, WaitCheck, Leave, GoToSleep, Sleep
  <2>7. CASE Poll(v) \/ IoComplete(v)
    BY <2>7, <1>t DEF Poll, IoComplete
  <2>8. CASE WaitSchedule(v)
    BY <2>8, <1>t DEF WaitSchedule
  <2>9. QED
    BY <1>4, <2>1, <2>2, <2>3, <2>4, <2>5, <2>6, <2>7, <2>8 DEF ThreadStep
<1>5. ASSUME NEW v \in Thread, ThreadStep(v), NEW u \in Thread, pc'[u] = "tail"
      PROVE  FALSE
  BY <1>t, <1>4, <1>5
<1>6. QED
  BY <1>t, <1>1, <1>2, <1>3, <1>4, <1>5 DEF IoNext

\* A step that leaves the ring alone and moves vCPUs as IoFrame says.
LEMMA IoKeepsAio ==
    ASSUME AioInv, IoNext, UNCHANGED avars
    PROVE  AioInv'
<1> USE DEF AioInv, avars
<1>1. AioTypeOK'
  BY IoFrame DEF AioTypeOK
<1>2. AioPlace'
  BY IoFrame DEF AioPlace, NextPtr, Wrap
<1>3. RingIsQueue'
  BY DEF RingIsQueue, Wrap
<1>4. AioLookup'
  BY IoFrame DEF AioLookup
<1>5. QED
  BY <1>1, <1>2, <1>3, <1>4

\* Registering and removing an address: a slot that a vCPU has found is not
\* free, and the observer forgets the address when it is removed.
LEMMA HypercallKeepsAio ==
    ASSUME AioInv, NEW a \in Addr, AddAsyncio(a) \/ RemoveAsyncio(a)
    PROVE  AioInv'
<1> USE DEF AioInv, ivars, evars, iovars
<1>1. /\ UNCHANGED <<ivars, aio, sbuf, upcall, dm, queue>>
      /\ desc' \in [1..Slots -> Data]
      /\ access' \in [Thread -> Data]
  <2>1. CASE AddAsyncio(a)
    BY <2>1 DEF AddAsyncio, AioTypeOK, Data
  <2>2. CASE RemoveAsyncio(a)
    BY <2>2 DEF RemoveAsyncio, AioTypeOK, Data
  <2>3. QED
    BY <2>1, <2>2
<1>2. AioTypeOK'
  BY <1>1 DEF AioTypeOK
<1>3. AioPlace'
  BY <1>1 DEF AioPlace, NextPtr, Wrap
<1>4. RingIsQueue'
  BY <1>1 DEF RingIsQueue, Wrap
<1>5. AioLookup'
  <2> SUFFICES ASSUME NEW v \in Thread, pc[v] = "found", access'[v] # None
               PROVE  desc'[aio[v]] = access'[v]
    BY <1>1 DEF AioLookup
  <2>1. aio[v] \in 1..Slots
    BY DEF AioPlace
  <2>2. CASE AddAsyncio(a)
    BY <2>1, <2>2 DEF AddAsyncio, FirstFree, AioLookup, AioTypeOK
  <2>3. CASE RemoveAsyncio(a)
    BY <2>1, <2>3 DEF RemoveAsyncio, AioLookup, AioTypeOK
  <2>4. QED
    BY <2>2, <2>3
<1>6. QED
  BY <1>2, <1>3, <1>4, <1>5

\* The lookup of a descriptor and its use do not touch the ring.
LEMMA LookupKeepsAio ==
    ASSUME AioInv, NEW v \in Thread, GetAsyncioDesc(v) \/ LoadFd(v) \/ Fire(v)
    PROVE  AioInv'
<1> USE DEF AioInv, evars, iovars, Step, Goto
<1>1. UNCHANGED <<owner, phase, desc, sbuf, dm, queue>> /\ owner = v
  BY DEF GetAsyncioDesc, LoadFd, Fire
<1>2. AioTypeOK'
  <2>1. CASE GetAsyncioDesc(v)
    BY <1>1, <2>1 DEF AioTypeOK, Place, GetAsyncioDesc
  <2>2. CASE LoadFd(v)
    <3>1. aio[v] \in 1..Slots
      BY <2>2 DEF LoadFd, AioPlace
    <3>2. QED
      BY <1>1, <2>2, <3>1 DEF AioTypeOK, Data, Place, LoadFd
  <2>3. CASE Fire(v)
    BY <1>1, <2>3 DEF AioTypeOK, Place, Fire
  <2>4. QED
    BY <2>1, <2>2, <2>3
<1>3. AioPlace'
  <2>1. /\ pc' = [pc EXCEPT ![v] = pc'[v]] /\ pc \in [Thread -> Place]
        /\ pc[v] \in {"guest", "found", "fire"}
        /\ pc'[v] \in {"found", "aio", "top"}
        /\ pc'[v] = "found" => aio'[v] \in 1..Slots
        /\ pc'[v] = "aio" => aio'[v] \in Data
        /\ \A u \in Thread \ {v} : pc'[u] = pc[u] /\ aio'[u] = aio[u]
    <3>1. CASE GetAsyncioDesc(v)
      BY <3>1 DEF GetAsyncioDesc, AioTypeOK
    <3>2. CASE LoadFd(v)
      BY <3>2 DEF LoadFd, AioTypeOK, AioPlace
    <3>3. CASE Fire(v)
      BY <3>3 DEF Fire, AioTypeOK
    <3>4. QED
      BY <3>1, <3>2, <3>3
  <2>2. phase[v] = "enter"
    BY <2>1 DEF AioPlace
  <2>3. QED
    BY <1>1, <2>1, <2>2 DEF AioPlace, NextPtr, Wrap
<1>4. RingIsQueue'
  BY <1>1 DEF RingIsQueue, Wrap
<1>5. AioLookup'
  BY <1>1 DEF AioLookup, AioTypeOK, Place, GetAsyncioDesc, LoadFd, Fire
<1>6. QED
  BY <1>2, <1>3, <1>4, <1>5

\* The data goes into a cell past the queue, so nothing queued is overwritten.
LEMMA InsertKeepsAio ==
    ASSUME AioInv, NEW v \in Thread, InsertAsyncio(v)
    PROVE  AioInv'
<1> USE DEF AioInv, evars, iovars
<1>1. /\ owner = v /\ pc[v] = "aio" /\ phase[v] = "enter" /\ aio[v] \in Data
      /\ UNCHANGED <<phase, desc, aio, dm, queue, access>>
      /\ \A u \in Thread : pc[u] # "tail"
  BY DEF InsertAsyncio, AioPlace
<1>2. CASE NextPtr(sbuf.tail) = sbuf.head
  <2>1. UNCHANGED <<pc, sbuf>>
    BY <1>2 DEF InsertAsyncio
  <2>2. QED
    BY <1>1, <2>1 DEF AioTypeOK, AioPlace, RingIsQueue, AioLookup, NextPtr, Wrap
<1>3. CASE NextPtr(sbuf.tail) # sbuf.head
  <2>1. /\ pc' = [pc EXCEPT ![v] = "tail"] /\ owner' = owner
        /\ sbuf' = [sbuf EXCEPT !.cell[sbuf.tail] = aio[v]]
    BY <1>3 DEF InsertAsyncio, Goto
  <2>2. /\ sbuf' \in [cell : [Pos -> Data], head : Pos, tail : Pos]
        /\ sbuf'.head = sbuf.head /\ sbuf'.tail = sbuf.tail
        /\ sbuf'.cell[sbuf.tail] = aio[v]
        /\ \A i \in Pos \ {sbuf.tail} : sbuf'.cell[i] = sbuf.cell[i]
    BY <1>1, <2>1, Zenon DEF AioTypeOK
  <2>3. AioTypeOK'
    BY <1>1, <2>1, <2>2, Zenon DEF AioTypeOK, Place
  <2>4. AioPlace'
    BY <1>1, <1>3, <2>1, <2>2 DEF AioPlace, AioTypeOK, NextPtr, Wrap
  <2>5. RingIsQueue'
    <3>1. ASSUME NEW i \in DOMAIN queue
          PROVE  sbuf'.cell[Wrap(sbuf.head + i - 1)] = queue[i]
      <4>1. /\ i - 1 \in Pos /\ Len(queue) \in Pos /\ i - 1 # Len(queue)
            /\ sbuf.head \in Pos /\ sbuf.head + i - 1 = sbuf.head + (i - 1)
        <5>1. Len(queue) \in Nat /\ i \in 1..Len(queue) /\ Len(queue) < EleNum
          BY <3>1 DEF RingIsQueue, AioTypeOK
        <5>2. sbuf.head \in Pos
          BY DEF AioTypeOK
        <5>3. QED
          BY <5>1, <5>2 DEF Pos
      <4>2. Wrap(sbuf.head + (i - 1)) \in Pos \ {sbuf.tail}
        BY <4>1, WrapDiffer, WrapPos, SMTT(30) DEF RingIsQueue, Pos
      <4>3. QED
        BY <4>1, <4>2, <2>2, <3>1 DEF RingIsQueue
    <3>2. QED
      BY <1>1, <2>2, <3>1 DEF RingIsQueue, Wrap
  <2>6. AioLookup'
    BY <1>1, <2>1 DEF AioLookup, AioTypeOK
  <2>7. QED
    BY <2>3, <2>4, <2>5, <2>6
<1>4. QED
  BY <1>2, <1>3

\* Publishing the tail appends the cell that was written.
LEMMA PutTailKeepsAio ==
    ASSUME AioInv, NEW v \in Thread, PutTail(v)
    PROVE  AioInv'
<1> USE DEF AioInv, evars, iovars
<1>1. /\ owner = v /\ pc[v] = "tail" /\ phase[v] = "enter"
      /\ aio[v] \in Data /\ sbuf.cell[sbuf.tail] = aio[v]
      /\ NextPtr(sbuf.tail) # sbuf.head
      /\ pc' = [pc EXCEPT ![v] = "fire"] /\ aio' = [aio EXCEPT ![v] = None]
      /\ queue' = Append(queue, aio[v])
      /\ UNCHANGED <<owner, phase, desc, dm, access>>
  BY DEF PutTail, Step, Goto, AioPlace
<1>2. /\ sbuf.head \in Pos /\ sbuf.tail \in Pos
      /\ Len(queue) \in Pos /\ Len(queue) + 1 \in Nat
      /\ sbuf.tail = Wrap(sbuf.head + Len(queue))
  BY DEF AioTypeOK, RingIsQueue, Pos
<1>3. /\ sbuf' \in [cell : [Pos -> Data], head : Pos, tail : Pos]
      /\ sbuf'.head = sbuf.head /\ sbuf'.tail = NextPtr(sbuf.tail)
      /\ sbuf'.cell = sbuf.cell
  BY <1>2, WrapNext, Zenon DEF AioTypeOK, PutTail
<1>4. AioTypeOK'
  BY <1>1, <1>3 DEF AioTypeOK, Place, Data
<1>5. AioPlace'
  BY <1>1 DEF AioPlace, AioTypeOK
<1>6. RingIsQueue'
  <2>1. Wrap(sbuf.head + (Len(queue) + 1)) = NextPtr(sbuf.tail)
    BY <1>2, WrapNext, Zenon
  <2>2. Len(queue) + 1 < EleNum
    BY <1>1, <1>2, <2>1, WrapTurn DEF Pos
  <2>3. /\ queue' \in Seq(Data) /\ Len(queue') = Len(queue) + 1
        /\ \A i \in 1..Len(queue) : queue'[i] = queue[i]
        /\ queue'[Len(queue) + 1] = aio[v]
    BY <1>1 DEF AioTypeOK
  <2>4. ASSUME NEW i \in 1 .. Len(queue) + 1
        PROVE  sbuf.cell[Wrap(sbuf.head + i - 1)] = queue'[i]
    <3>1. CASE i \in 1..Len(queue)
      BY <2>3, <3>1 DEF RingIsQueue, AioTypeOK
    <3>2. CASE i = Len(queue) + 1
      <4>1. sbuf.head + i - 1 = sbuf.head + Len(queue)
        BY <1>2, <3>2 DEF Pos
      <4>2. QED
        BY <1>1, <1>2, <2>3, <3>2, <4>1
    <3>3. QED
      BY <3>1, <3>2, <1>2, SMTT(30) DEF Pos
  <2>5. dm.at = "copied" => queue' # <<>> /\ dm.got = Head(queue')
    <3>1. SUFFICES ASSUME dm.at = "copied" PROVE queue' # <<>> /\ dm.got = Head(queue')
      OBVIOUS
    <3>2. queue # <<>> /\ dm.got = Head(queue)
      BY <3>1 DEF RingIsQueue
    <3>3. 1 \in 1..Len(queue) /\ Head(queue) = queue[1]
      BY <3>2 DEF AioTypeOK
    <3>4. queue' # <<>> /\ Head(queue') = queue'[1]
      BY <1>2, <2>3 DEF Pos
    <3>5. QED
      BY <2>3, <3>2, <3>3, <3>4
  <2>6. Wrap(sbuf'.head + Len(queue')) = sbuf'.tail /\ Len(queue') < EleNum
    BY <1>3, <2>1, <2>2, <2>3
  <2>7. \A i \in DOMAIN queue' : sbuf'.cell[Wrap(sbuf'.head + i - 1)] = queue'[i]
    BY <1>3, <2>3, <2>4
  <2>8. QED
    BY <1>1, <2>5, <2>6, <2>7 DEF RingIsQueue, Wrap
<1>7. AioLookup'
  BY <1>1 DEF AioLookup, AioTypeOK
<1>8. QED
  BY <1>4, <1>5, <1>6, <1>7

\* The device model copies the oldest element and moves the head past it.
LEMMA DmKeepsAio ==
    ASSUME AioInv, DmRing
    PROVE  AioInv'
<1> USE DEF AioInv, ivars, evars, iovars
<1>1. /\ UNCHANGED <<pc, owner, phase, desc, aio, access>>
      /\ sbuf.head \in Pos /\ sbuf.tail \in Pos /\ Len(queue) \in Pos
      /\ sbuf.tail = Wrap(sbuf.head + Len(queue))
  BY SMTT(30) DEF DmRing, DmWake, DmCopy, DmHead, AioTypeOK, RingIsQueue, Pos
<1>2. CASE DmWake
  <2>1. sbuf' = sbuf /\ queue' = queue /\ dm' = [dm EXCEPT !.at = "get"]
    BY <1>2 DEF DmWake
  <2>2. QED
    BY <1>1, <2>1, SMTT(30) DEF AioTypeOK, AioPlace, RingIsQueue, AioLookup, NextPtr, Wrap
<1>3. CASE DmCopy
  <2>1. sbuf' = sbuf /\ queue' = queue
    BY <1>3 DEF DmCopy
  <2>2. CASE sbuf.head = sbuf.tail
    <3>1. dm' = [dm EXCEPT !.at = "wait"]
      BY <1>3, <2>2 DEF DmCopy
    <3>2. QED
      BY <1>1, <2>1, <3>1, Zenon DEF AioTypeOK, AioPlace, RingIsQueue, AioLookup, NextPtr, Wrap
  <2>3. CASE sbuf.head # sbuf.tail
    <3>1. dm' = [at |-> "copied", got |-> sbuf.cell[sbuf.head]]
      BY <1>3, <2>3 DEF DmCopy
    <3>2. Len(queue) # 0
      BY <1>1, <2>3 DEF Wrap, Pos
    <3>3. 1 \in DOMAIN queue /\ queue # <<>> /\ Head(queue) = queue[1]
      BY <3>2 DEF AioTypeOK
    <3>4. Wrap(sbuf.head + 1 - 1) = sbuf.head
      BY <1>1 DEF Wrap, Pos
    <3>5. dm'.at = "copied" => queue # <<>> /\ dm'.got = Head(queue)
      BY <3>1, <3>3, <3>4 DEF RingIsQueue
    <3>6. RingIsQueue'
      BY <2>1, <3>5 DEF RingIsQueue, Wrap
    <3>7. AioTypeOK'
      BY <1>1, <2>1, <3>1 DEF AioTypeOK
    <3>8. QED
      BY <1>1, <2>1, <3>6, <3>7 DEF AioPlace, AioLookup, NextPtr, Wrap
  <2>4. QED
    BY <2>2, <2>3
<1>4. CASE DmHead
  <2>1. /\ dm.at = "copied" /\ queue # <<>>
        /\ dm' = [at |-> "get", got |-> None] /\ queue' = Tail(queue)
    BY <1>4 DEF DmHead, RingIsQueue
  <2>2. /\ sbuf' \in [cell : [Pos -> Data], head : Pos, tail : Pos]
        /\ sbuf'.head = NextPtr(sbuf.head) /\ sbuf'.tail = sbuf.tail
        /\ sbuf'.cell = sbuf.cell
    BY <1>1, <1>4, WrapNext DEF AioTypeOK, DmHead
  <2>3. /\ queue' \in Seq(Data) /\ Len(queue') = Len(queue) - 1 /\ Len(queue) > 0
        /\ \A i \in 1 .. Len(queue) - 1 : queue'[i] = queue[i + 1]
    BY <2>1 DEF AioTypeOK
  <2>4. AioTypeOK'
    BY <1>1, <2>1, <2>2, <2>3 DEF AioTypeOK, Data
  <2>5. RingIsQueue'
    <3>1. /\ Wrap(sbuf'.head + Len(queue')) = sbuf'.tail
          /\ Len(queue') < EleNum
      <4>1. Len(queue) - 1 \in Pos /\ (Len(queue) - 1) + 1 = Len(queue)
        BY <1>1, <2>3 DEF Pos
      <4>2. Wrap(NextPtr(sbuf.head) + (Len(queue) - 1)) = Wrap(sbuf.head + Len(queue))
        BY <1>1, <4>1, WrapNext
      <4>3. QED
        BY <1>1, <2>2, <2>3, <4>1, <4>2 DEF Pos
    <3>2. ASSUME NEW i \in DOMAIN queue'
          PROVE  sbuf'.cell[Wrap(sbuf'.head + i - 1)] = queue'[i]
      <4>1. i \in 1 .. Len(queue) - 1 /\ i + 1 \in DOMAIN queue
        BY <1>1, <2>3, <3>2, SMTT(30) DEF Pos, AioTypeOK
      <4>2. Wrap(sbuf'.head + i - 1) = Wrap(sbuf.head + (i + 1) - 1)
        <5>1. i \in Int /\ i - 1 \in Pos /\ sbuf.head \in Int /\ NextPtr(sbuf.head) \in Int
          BY <1>1, <2>2, <4>1, SMTT(30) DEF Pos
        <5>2. /\ NextPtr(sbuf.head) + i - 1 = NextPtr(sbuf.head) + (i - 1)
              /\ sbuf.head + (i + 1) - 1 = sbuf.head + ((i - 1) + 1)
          BY <5>1
        <5>3. QED
          BY <1>1, <2>2, <5>1, <5>2, WrapNext
      <4>3. QED
        BY <2>2, <2>3, <4>1, <4>2, SMTT(30) DEF RingIsQueue
    <3>3. QED
      BY <2>1, <3>1, <3>2 DEF RingIsQueue, Wrap
  <2>6. NextPtr(sbuf.tail) # NextPtr(sbuf.head)
    BY <1>1, <2>3, SMTT(30) DEF Wrap, NextPtr, Pos
  <2>7. AioPlace'
    BY <1>1, <2>2, <2>6 DEF AioPlace, NextPtr, Wrap
  <2>8. AioLookup'
    BY <1>1 DEF AioLookup
  <2>9. QED
    BY <2>4, <2>5, <2>7, <2>8
<1>5. QED
  BY <1>2, <1>3, <1>4 DEF DmRing

\* Every step keeps the inductive invariant.
LEMMA AioNextInv == AioInv /\ [AioNext]_<<rings, allvars>> => AioInv'
<1> SUFFICES ASSUME AioInv, [AioNext]_<<rings, allvars>> PROVE AioInv'
  OBVIOUS
<1>1. CASE AioNext
  BY <1>1, IoKeepsAio, HypercallKeepsAio, LookupKeepsAio, InsertKeepsAio,
     PutTailKeepsAio, DmKeepsAio DEF AioNext, AioStep
<1>2. CASE UNCHANGED <<rings, allvars>>
  BY <1>2 DEF allvars, ivars, evars, avars, AioInv, AioTypeOK, AioPlace, AioLookup,
              RingIsQueue, NextPtr, Wrap
<1>3. QED
  BY <1>1, <1>2

-----------------------------------------------------------------------------

\* sbuf_put and sbuf_get make a queue of the ring, whatever its size and however
\* many vCPUs put into it in turn.
THEOREM RingQueue == AioSpec => []RingIsQueue
<1>1. AioInv => RingIsQueue
  BY DEF AioInv
<1>2. QED
  BY <1>1, AioInitInv, AioNextInv, PTL DEF AioSpec

\* emulate_io inserts the descriptor that get_asyncio_desc found, unless
\* remove_asyncio came in between.
THEOREM DescriptorOwned == AioSpec => OwnDescriptor
<1>1. AioInv /\ [AioNext]_<<rings, allvars>> =>
        [\A v \in Thread :
            pc[v] = "found" /\ pc'[v] = "aio" /\ access[v] # None =>
                aio'[v] = access[v]]_allvars
  <2> SUFFICES ASSUME AioInv, AioNext, NEW v \in Thread,
                      pc[v] = "found", pc'[v] = "aio", access[v] # None
               PROVE  aio'[v] = access[v]
    BY DEF allvars
  <2> USE DEF AioInv
  <2>1. ~IoNext
    BY IoFrame
  <2>2. PICK u \in Thread : AioStep(u)
    BY <2>1 DEF AioNext, AddAsyncio, RemoveAsyncio, DmRing, DmWake, DmCopy, DmHead, ivars
  <2>3. u = v /\ LoadFd(v)
    BY <2>2 DEF AioStep, GetAsyncioDesc, LoadFd, InsertAsyncio, PutTail, Fire, Step,
                Goto, AioTypeOK
  <2>4. QED
    BY <2>3 DEF LoadFd, AioLookup, AioTypeOK
<1>2. QED
  BY <1>1, AioInitInv, AioNextInv, PTL DEF AioSpec, OwnDescriptor

=============================================================================
