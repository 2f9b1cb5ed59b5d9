--------------------------- MODULE SmpCallProofs ----------------------------
(***************************************************************************)
(* Proofs about SMP calls without kicks and timeouts, for every number of  *)
(* pCPUs, every number of concurrent calls and every mask: also those in   *)
(* which the caller's non-atomic clear brings back the bit of a target     *)
(* that has finished.  Such a call may never return, but not early.        *)
(***************************************************************************)
EXTENDS SmpCall, WellFoundedInduction, TLAPS

SmpTypeOK ==
    /\ setting \in Settings
    /\ smp_call_mask \subseteq Cpu
    /\ info \in [Cpu -> Call \cup {NULL}]
    /\ sgi \subseteq Cpu
    /\ pc \in [Cpu -> {"idle", "spin", "setup", "clear", "wait", "abort"}]
    /\ call \in [Cpu -> Call \cup {NULL}]
    /\ mask \in [Cpu -> SUBSET Cpu]
    /\ loaded \in [Cpu -> SUBSET Cpu]
    /\ hpc \in [Cpu -> {"none", "run", "finish"}]
    /\ hcall \in [Cpu -> Call \cup {NULL}]
    /\ target \in [Cpu -> SUBSET Cpu]
    /\ ran \in [Call -> [Cpu -> 0..2]]
    /\ \A c \in Cpu : call[c] = NULL <=> pc[c] = "idle"

\* Concurrent calls differ, and none is given up.
CallsDiffer ==
    \A c \in Cpu :
        /\ pc[c] # "abort"
        /\ \A d \in Cpu : call[c] = call[d] /\ call[c] # NULL => c = d

\* A call that waits for the mask has not been executed anywhere.
Spinning ==
    \A c \in Cpu : pc[c] = "spin" =>
        /\ mask[c] = target[c]
        /\ \A p \in Cpu : ran[call[c]][p] = 0

\* The pCPUs the owner of the mask has interrupted and that have not finished.
Handling == sgi \cup {p \in Cpu : hpc[p] # "none"}

Ran(c, p) == IF p \in mask[c] \cup sgi \/ hpc[p] = "run" THEN 0 ELSE 1

\* c is the caller that stored the mask.  A target is in its `mask' variable, then
\* has the interrupt pending, then runs the handler; all that time its bit is set.
\* A bit that c is about to clear is set as well, so nobody else stores the mask.
Owns(c) ==
    /\ pc[c] \in {"setup", "clear", "wait"}
    /\ pc[c] = "wait" => mask[c] = {}
    /\ mask[c] \cup Handling \subseteq smp_call_mask
    /\ mask[c] \subseteq target[c]
    /\ Handling \subseteq (target[c] \cap Active) \ (mask[c] \cup {c})
    /\ \A p \in sgi : hpc[p] = "none" /\ info[p] = call[c]
    /\ \A p \in Cpu : hpc[p] # "none" => hcall[p] = call[c]
    /\ pc[c] = "clear" =>
         /\ mask[c] \cup Handling \subseteq loaded[c]
         /\ \E q \in smp_call_mask : q \notin Handling
    /\ \A p \in target[c] \cap Active : ran[call[c]][p] = Ran(c, p)

\* c has been served and has not noticed yet.
Served(c) ==
    /\ pc[c] \in {"setup", "wait"} /\ mask[c] = {}
    /\ \A p \in target[c] \cap Active : ran[call[c]][p] = 1

Waiting(d) == pc[d] \in {"idle", "spin"} \/ Served(d)

MaskFree ==
    /\ smp_call_mask = {} /\ Handling = {}
    /\ \A d \in Cpu : Waiting(d)

MaskOwned(c) == Owns(c) /\ \A d \in Cpu \ {c} : Waiting(d)

Calls == CallsDiffer /\ Spinning /\ (MaskFree \/ \E c \in Cpu : MaskOwned(c))

\* The inductive invariant: the mask is free, or one caller owns it.
SmpInv == SmpTypeOK /\ (Undisturbed => Calls)

USE SmpAssumption

-----------------------------------------------------------------------------

\* ffs64 finds a bit of a mask that is not empty.
LEMMA MinInMask ==
    ASSUME NEW S \in SUBSET Cpu, S # {}
    PROVE  Min(S) \in S
<1> DEFINE R == {ss \in Nat \X Nat : ss[1] < ss[2]}
<1>1. IsWellFoundedOn(R, Nat)
  BY NatLessThanWellFounded, Zenon DEF OpToRel
<1>2. S \subseteq Nat
  OBVIOUS
<1>3. PICK x \in S : \A y \in S : ~(<<y, x>> \in R)
  BY <1>1, <1>2, WFMin, Zenon
<1>4. ASSUME NEW y \in S PROVE x =< y
  <2>1. x \in Nat /\ y \in Nat
    BY <1>2
  <2>2. y < x => <<y, x>> \in R
    BY <2>1
  <2>3. ~(y < x)
    BY <1>3, <2>2, Zenon
  <2>4. QED
    BY <2>1, <2>3
<1>5. QED
  BY <1>4, Zenon DEF Min

\* One more execution is counted, up to 2.
LEMMA MinTwo ==
    ASSUME NEW n \in 0..2
    PROVE  Min({2, n + 1}) \in 0..2 /\ (n = 0 => Min({2, n + 1}) = 1)
<1>1. \E x \in {2, n + 1} : \A y \in {2, n + 1} : x =< y
  OBVIOUS
<1>2. Min({2, n + 1}) \in {2, n + 1} /\ \A y \in {2, n + 1} : Min({2, n + 1}) =< y
  BY <1>1 DEF Min
<1>3. QED
  BY <1>2

\* What Executed changes.
LEMMA ExecutedOnce ==
    ASSUME ran \in [Call -> [Cpu -> 0..2]], NEW k \in Call, NEW p \in Cpu
    PROVE  /\ Executed(k, p) \in [Call -> [Cpu -> 0..2]]
           /\ \A j \in Call \ {k} : Executed(k, p)[j] = ran[j]
           /\ \A q \in Cpu \ {p} : Executed(k, p)[k][q] = ran[k][q]
           /\ ran[k][p] = 0 => Executed(k, p)[k][p] = 1
<1>1. ran[k][p] \in 0..2
  OBVIOUS
<1>2. /\ Min({2, ran[k][p] + 1}) \in 0..2
      /\ ran[k][p] = 0 => Min({2, ran[k][p] + 1}) = 1
  BY <1>1, MinTwo, Zenon
<1>3. QED
  BY <1>2, Zenon DEF Executed

\* Nothing is under way at first.
LEMMA SmpInitInv == Init => SmpInv
BY DEF Init, SmpInv, SmpTypeOK, Calls, CallsDiffer, Spinning, MaskFree, Handling, Waiting

-----------------------------------------------------------------------------
\* Types.

\* One turn of smp_call_function's loop, for the target p.
SetupFor(c, p) ==
    /\ pc[c] = "setup" /\ hpc[c] = "none" /\ p \in mask[c]
    /\ mask' = [mask EXCEPT ![c] = mask[c] \ {p}]
    /\ \/ /\ p # c /\ p \in Active
          /\ info' = [info EXCEPT ![p] = call[c]]
          /\ sgi' = sgi \cup {p}
          /\ UNCHANGED <<pc, loaded, ran>>
       \/ /\ p = c \/ p \notin Active
          /\ pc' = [pc EXCEPT ![c] = "clear"]
          /\ loaded' = [loaded EXCEPT ![c] = smp_call_mask \ {p}]
          /\ ran' = IF p = c THEN Executed(call[c], c) ELSE ran
          /\ UNCHANGED <<info, sgi>>
    /\ UNCHANGED <<smp_call_mask, call, hpc, hcall, target>>

\* Setup is such a turn.
LEMMA SetupTurn ==
    ASSUME SmpTypeOK, NEW c \in Cpu, Setup(c)
    PROVE  \E p \in Cpu : SetupFor(c, p)
<1>1. mask[c] \in SUBSET Cpu /\ mask[c] # {}
  BY DEF SmpTypeOK, Setup
<1>2. Min(mask[c]) \in mask[c]
  BY <1>1, MinInMask
<1>3. SetupFor(c, Min(mask[c]))
  BY <1>2 DEF Setup, SetupFor, Runs
<1>4. QED
  BY <1>1, <1>2, <1>3, Zenon

\* Every step of a thread keeps the types.
LEMMA ThreadType ==
    ASSUME SmpTypeOK, NEW c \in Cpu, UNCHANGED setting,
           (\E k \in Call, m \in (SUBSET Cpu) \ {{}} : Begin(c, k, m))
           \/ WaitTimeout(c) \/ ThreadStep(c)
    PROVE  SmpTypeOK'
<1> USE DEF SmpTypeOK
<1>1. ASSUME NEW k \in Call, NEW m \in SUBSET Cpu, Begin(c, k, m)
      PROVE  SmpTypeOK'
  <2>1. ran' \in [Call -> [Cpu -> 0..2]]
    BY <1>1 DEF Begin
  <2>2. QED
    BY <1>1, <2>1 DEF Begin
<1>2. CASE WaitTimeout(c) \/ SetupDone(c)
  BY <1>2, Zenon DEF WaitTimeout, SetupDone
<1>3. CASE Acquire(c)
  BY <1>3 DEF Acquire
<1>4. CASE SetupClear(c)
  <2>1. smp_call_mask' \subseteq Cpu
    BY <1>4 DEF SetupClear
  <2>2. loaded' \in [Cpu -> SUBSET Cpu]
    BY <1>4 DEF SetupClear
  <2>3. QED
    BY <1>4, <2>1, <2>2 DEF SetupClear
<1>5. CASE WaitDone(c)
  BY <1>5 DEF WaitDone, Return
<1>6. CASE Abort(c)
  BY <1>6 DEF Abort, Return
<1>7. CASE Setup(c)
  <2>1. PICK p \in Cpu : SetupFor(c, p)
    BY <1>7, SetupTurn
  <2>2. call[c] \in Call
    BY <2>1 DEF SetupFor
  <2>3. ran' \in [Call -> [Cpu -> 0..2]]
    BY <2>1, <2>2, ExecutedOnce DEF SetupFor
  <2>4. info' \in [Cpu -> Call \cup {NULL}] /\ sgi' \subseteq Cpu
    BY <2>1, Zenon DEF SetupFor
  <2>5. mask' \in [Cpu -> SUBSET Cpu] /\ loaded' \in [Cpu -> SUBSET Cpu]
    <3>1. mask[c] \ {p} \in SUBSET Cpu /\ smp_call_mask \ {p} \in SUBSET Cpu
      OBVIOUS
    <3>2. mask' \in [Cpu -> SUBSET Cpu]
      BY <2>1, <3>1 DEF SetupFor
    <3>3. loaded' = loaded \/ loaded' = [loaded EXCEPT ![c] = smp_call_mask \ {p}]
      BY <2>1 DEF SetupFor
    <3>4. loaded' \in [Cpu -> SUBSET Cpu]
      BY <3>1, <3>3, Zenon
    <3>5. QED
      BY <3>2, <3>4
  <2>6. /\ pc' \in [Cpu -> {"idle", "spin", "setup", "clear", "wait", "abort"}]
        /\ \A d \in Cpu : call'[d] = NULL <=> pc'[d] = "idle"
    BY <2>1 DEF SetupFor
  <2>7. QED
    BY <2>1, <2>3, <2>4, <2>5, <2>6 DEF SetupFor
<1>8. QED
  BY <1>1, <1>2, <1>3, <1>4, <1>5, <1>6, <1>7 DEF ThreadStep

\* Every step of a handler and every kick keeps the types.
LEMMA HandlerType ==
    ASSUME SmpTypeOK, NEW p \in Cpu, UNCHANGED setting, HandlerStep(p) \/ Kick(p)
    PROVE  SmpTypeOK'
<1> USE DEF SmpTypeOK
<1>1. CASE TakeSgi(p)
  BY <1>1 DEF TakeSgi
<1>2. CASE HandlerFinish(p)
  BY <1>2 DEF HandlerFinish
<1>3. CASE Kick(p)
  BY <1>3 DEF Kick
<1>4. CASE HandlerRun(p)
  <2>1. ran' \in [Call -> [Cpu -> 0..2]]
    BY <1>4, ExecutedOnce DEF HandlerRun
  <2>2. QED
    BY <1>4, <2>1 DEF HandlerRun
<1>5. QED
  BY <1>1, <1>2, <1>3, <1>4 DEF HandlerStep

-----------------------------------------------------------------------------
\* Calls, without kicks and timeouts.

\* A caller that still owns an empty mask has been served.
LEMMA EmptyIsFree ==
    ASSUME SmpTypeOK, Calls, smp_call_mask = {}
    PROVE  MaskFree
<1>1. CASE MaskFree
  BY <1>1
<1>2. ASSUME NEW c \in Cpu, MaskOwned(c) PROVE MaskFree
  <2>1. Handling = {} /\ mask[c] = {} /\ pc[c] \in {"setup", "wait"}
    BY <1>2 DEF MaskOwned, Owns
  <2>2. \A p \in Cpu : p \notin sgi /\ hpc[p] = "none"
    BY <2>1 DEF Handling
  <2>3. Served(c)
    BY <1>2, <2>1, <2>2 DEF MaskOwned, Owns, Ran, Served, SmpTypeOK
  <2>4. QED
    BY <1>2, <2>1, <2>3 DEF MaskOwned, MaskFree, Waiting
<1>3. QED
  BY <1>1, <1>2 DEF Calls

\* Calls that wait for the mask are not affected by the executions of others.
LEMMA SpinningFrame ==
    ASSUME Spinning,
           \A d \in Cpu : pc'[d] = "spin" =>
               /\ pc[d] = "spin" /\ mask'[d] = mask[d] /\ target'[d] = target[d]
               /\ ran'[call'[d]] = ran[call[d]]
    PROVE  Spinning'
<1> SUFFICES ASSUME NEW d \in Cpu, pc'[d] = "spin"
             PROVE  /\ mask'[d] = target'[d]
                    /\ \A p \in Cpu : ran'[call'[d]][p] = 0
  BY DEF Spinning
<1>1. /\ pc[d] = "spin" /\ mask'[d] = mask[d] /\ target'[d] = target[d]
      /\ ran'[call'[d]] = ran[call[d]]
  BY Zenon
<1>2. mask[d] = target[d] /\ \A p \in Cpu : ran[call[d]][p] = 0
  BY <1>1 DEF Spinning
<1>3. QED
  BY <1>1, <1>2, Zenon

\* smp_call_function is called.
LEMMA BeginKeeps ==
    ASSUME SmpTypeOK, Calls, NEW c \in Cpu, NEW k \in Call, NEW m \in (SUBSET Cpu) \ {{}},
           Begin(c, k, m)
    PROVE  Calls'
<1>1. /\ pc[c] = "idle" /\ \A d \in Cpu : call[d] # k
      /\ pc'[c] = "spin" /\ call'[c] = k /\ mask'[c] = m /\ target'[c] = m
      /\ \A p \in Cpu : ran'[k][p] = 0
  BY DEF Begin, SmpTypeOK
<1>2. /\ \A d \in Cpu \ {c} : /\ pc'[d] = pc[d] /\ call'[d] = call[d]
                              /\ mask'[d] = mask[d] /\ target'[d] = target[d]
      /\ \A j \in Call \ {k} : ran'[j] = ran[j]
      /\ UNCHANGED <<smp_call_mask, info, sgi, loaded, hpc, hcall>>
  BY DEF Begin, SmpTypeOK
<1>3. CallsDiffer'
  BY <1>1, <1>2 DEF Calls, CallsDiffer
<1>4. \A d \in Cpu \ {c} : pc[d] # "idle" => call[d] \in Call /\ ran'[call'[d]] = ran[call[d]]
  BY <1>1, <1>2 DEF SmpTypeOK
<1>5. Spinning'
  <2>1. ASSUME NEW d \in Cpu, pc'[d] = "spin"
        PROVE  /\ mask'[d] = target'[d]
               /\ \A p \in Cpu : ran'[call'[d]][p] = 0
    <3>1. CASE d = c
      BY <1>1, <3>1, Zenon
    <3>2. CASE d # c
      <4>1. /\ pc[d] = "spin" /\ ran'[call'[d]] = ran[call[d]]
            /\ mask'[d] = mask[d] /\ target'[d] = target[d]
        BY <1>2, <1>4, <2>1, <3>2
      <4>2. mask[d] = target[d] /\ \A p \in Cpu : ran[call[d]][p] = 0
        BY <4>1, Zenon DEF Calls, Spinning
      <4>3. QED
        BY <4>1, <4>2, Zenon
    <3>3. QED
      BY <3>1, <3>2
  <2>2. QED
    BY <2>1, Zenon DEF Spinning
<1>6. Handling' = Handling
  BY <1>2 DEF Handling
<1>7. \A d \in Cpu : Waiting(d) => Waiting(d)'
  BY <1>1, <1>2, <1>4, Zenon DEF Waiting, Served
<1>8. CASE MaskFree
  BY <1>2, <1>3, <1>5, <1>6, <1>7, <1>8 DEF Calls, MaskFree
<1>9. ASSUME NEW d \in Cpu, MaskOwned(d) PROVE Calls'
  <2>1. d # c
    BY <1>1, <1>9 DEF MaskOwned, Owns
  <2>2. Owns(d)'
    BY <1>2, <1>4, <1>6, <1>9, <2>1 DEF MaskOwned, Owns, Ran
  <2>3. QED
    BY <1>3, <1>5, <1>7, <1>9, <2>2 DEF Calls, MaskOwned
<1>10. QED
  BY <1>8, <1>9 DEF Calls

\* The mask is stored, or seen empty.
LEMMA MaskKeeps ==
    ASSUME SmpTypeOK, Calls, NEW c \in Cpu, Acquire(c) \/ WaitDone(c)
    PROVE  Calls'
<1>1. MaskFree
  BY EmptyIsFree DEF Acquire, WaitDone
<1>2. CASE Acquire(c)
  <2>1. /\ pc[c] = "spin" /\ pc'[c] = "setup" /\ \A d \in Cpu \ {c} : pc'[d] = pc[d]
        /\ smp_call_mask' = mask[c]
        /\ UNCHANGED <<info, sgi, call, mask, loaded, hpc, hcall, target, ran>>
    BY <1>2 DEF Acquire, SmpTypeOK
  <2>2. CallsDiffer' /\ Spinning'
    BY <2>1 DEF Calls, CallsDiffer, Spinning
  <2>3. Handling' = {}
    BY <1>1, <2>1 DEF MaskFree, Handling
  <2>4. Owns(c)'
    <3>1. mask[c] = target[c] /\ \A p \in Cpu : ran[call[c]][p] = 0
      BY <2>1, Zenon DEF Calls, Spinning
    <3>2. sgi' = {} /\ \A p \in Cpu : hpc'[p] = "none"
      BY <2>3 DEF Handling
    <3>3. \A p \in target'[c] \cap Active : ran'[call'[c]][p] = Ran(c, p)'
      BY <2>1, <3>1, <3>2, Zenon DEF Ran
    <3>4. QED
      BY <2>1, <2>3, <3>1, <3>2, <3>3 DEF Owns
  <2>5. \A d \in Cpu \ {c} : Waiting(d)'
    BY <1>1, <2>1, Zenon DEF MaskFree, Waiting, Served
  <2>6. QED
    BY <2>2, <2>4, <2>5 DEF Calls, MaskOwned
<1>3. CASE WaitDone(c)
  <2>1. /\ pc'[c] = "idle" /\ call'[c] = NULL
        /\ \A d \in Cpu \ {c} : /\ pc'[d] = pc[d] /\ call'[d] = call[d]
                                /\ target'[d] = target[d]
        /\ UNCHANGED <<smp_call_mask, info, sgi, mask, loaded, hpc, hcall, ran>>
    BY <1>3 DEF WaitDone, Return, SmpTypeOK
  <2>2. CallsDiffer'
    BY <2>1, ZenonT(30) DEF Calls, CallsDiffer
  <2>3. Spinning'
    <3>1. ASSUME NEW d \in Cpu, pc'[d] = "spin"
          PROVE  mask'[d] = target'[d] /\ \A p \in Cpu : ran'[call'[d]][p] = 0
      <4>1. d # c /\ pc[d] = "spin" /\ target'[d] = target[d] /\ call'[d] = call[d]
        BY <2>1, <3>1
      <4>2. mask[d] = target[d] /\ \A p \in Cpu : ran[call[d]][p] = 0
        BY <4>1 DEF Calls, Spinning
      <4>3. QED
        BY <2>1, <4>1, <4>2
    <3>2. QED
      BY <3>1 DEF Spinning
  <2>4. MaskFree'
    BY <1>1, <2>1 DEF MaskFree, Handling, Waiting, Served
  <2>5. QED
    BY <2>2, <2>3, <2>4 DEF Calls
<1>4. QED
  BY <1>2, <1>3

\* The owner of the mask fills a slot, or executes the function itself, or drops
\* a pCPU that is not up.
LEMMA SetupKeeps ==
    ASSUME SmpTypeOK, Calls, NEW c \in Cpu, Setup(c)
    PROVE  Calls'
<1>1. PICK p \in Cpu : SetupFor(c, p)
  BY SetupTurn
<1>2. MaskOwned(c)
  BY <1>1, Zenon DEF Calls, MaskFree, MaskOwned, Waiting, Served, SetupFor
<1>3. call[c] \in Call
  BY <1>1 DEF SetupFor, SmpTypeOK
<1>4. p \in smp_call_mask /\ p \in target[c] /\ p \notin Handling /\ c \notin Handling
  BY <1>1, <1>2 DEF SetupFor, MaskOwned, Owns
<1>5. /\ mask'[c] = mask[c] \ {p}
      /\ \A d \in Cpu \ {c} : mask'[d] = mask[d] /\ pc'[d] = pc[d]
      /\ pc'[c] \in {"setup", "clear"}
      /\ UNCHANGED <<smp_call_mask, call, hpc, hcall, target>>
  BY <1>1 DEF SetupFor, SmpTypeOK
<1>6. /\ \A j \in Call \ {call[c]} : ran'[j] = ran[j]
      /\ \A q \in Cpu \ {c} : ran'[call[c]][q] = ran[call[c]][q]
  BY <1>1, <1>3, ExecutedOnce DEF SetupFor, SmpTypeOK
<1>7. \A d \in Cpu \ {c} : pc[d] # "idle" => ran'[call'[d]] = ran[call[d]]
  BY <1>3, <1>5, <1>6 DEF SmpTypeOK, Calls, CallsDiffer
<1>8. CallsDiffer'
  BY <1>5, Zenon DEF Calls, CallsDiffer
<1>9. Spinning'
  BY <1>5, <1>7, SpinningFrame, Zenon DEF Calls
<1>10. \A d \in Cpu \ {c} : Waiting(d)'
  BY <1>2, <1>5, <1>7 DEF MaskOwned, Waiting, Served
<1>11. Owns(c)'
  <2>1. CASE p # c /\ p \in Active
    <3>1. /\ pc' = pc /\ loaded' = loaded /\ ran' = ran
          /\ info'[p] = call[c] /\ \A q \in Cpu \ {p} : info'[q] = info[q]
          /\ sgi' = sgi \cup {p}
      BY <1>1, <2>1 DEF SetupFor, SmpTypeOK
    <3>2. Handling' = Handling \cup {p}
      BY <1>5, <3>1 DEF Handling
    <3>3. hpc[p] = "none" /\ p \notin sgi
      BY <1>4 DEF Handling
    <3>4. \A q \in sgi' : hpc'[q] = "none" /\ info'[q] = call'[c]
      BY <1>2, <1>5, <3>1, <3>3 DEF MaskOwned, Owns, SmpTypeOK
    <3>5. \A q \in target'[c] \cap Active : ran'[call'[c]][q] = Ran(c, q)'
      <4>1. \A q \in target[c] \cap Active :
                (q \in mask'[c] \cup sgi' \/ hpc'[q] = "run")
                <=> (q \in mask[c] \cup sgi \/ hpc[q] = "run")
        BY <1>1, <1>5, <3>1, SMTT(30) DEF SetupFor
      <4>2. QED
        BY <1>2, <1>5, <3>1, <4>1 DEF MaskOwned, Owns, Ran
    <3>6. mask'[c] \cup Handling' \subseteq smp_call_mask'
      BY <1>2, <1>4, <1>5, <3>2 DEF MaskOwned, Owns
    <3>7. Handling' \subseteq (target'[c] \cap Active) \ (mask'[c] \cup {c})
      BY <1>2, <1>4, <1>5, <2>1, <3>2 DEF MaskOwned, Owns
    <3>8. pc'[c] = "setup"
      BY <1>1, <3>1 DEF SetupFor
    <3>9. QED
      BY <1>2, <1>5, <3>4, <3>5, <3>6, <3>7, <3>8 DEF MaskOwned, Owns
  <2>2. CASE p = c \/ p \notin Active
    <3>1. /\ pc'[c] = "clear" /\ loaded'[c] = smp_call_mask \ {p}
          /\ ran' = IF p = c THEN Executed(call[c], c) ELSE ran
          /\ UNCHANGED <<info, sgi>>
      BY <1>1, <2>2 DEF SetupFor, SmpTypeOK
    <3>2. Handling' = Handling
      BY <1>5, <3>1 DEF Handling
    <3>3. \A q \in target'[c] \cap Active : ran'[call'[c]][q] = Ran(c, q)'
      <4>1. ASSUME NEW q \in target[c] \cap Active PROVE ran'[call[c]][q] = Ran(c, q)'
        <5>1. ran[call[c]][q] = Ran(c, q)
          BY <1>2 DEF MaskOwned, Owns
        <5>2. CASE q = p
          <6>1. q = c /\ q \in mask[c]
            BY <1>1, <2>2, <5>2 DEF SetupFor
          <6>2. ran[call[c]][c] = 0
            BY <5>1, <6>1 DEF Ran
          <6>3. ran'[call[c]][c] = 1
            BY <1>3, <3>1, <5>2, <6>1, <6>2, ExecutedOnce DEF SmpTypeOK
          <6>4. c \notin mask'[c] /\ c \notin sgi' /\ hpc'[c] # "run"
            BY <1>1, <1>4, <1>5, <3>1, <5>2, <6>1 DEF SetupFor, Handling
          <6>5. QED
            BY <6>1, <6>3, <6>4 DEF Ran
        <5>3. CASE q # p
          <6>1. Ran(c, q)' = Ran(c, q)
            BY <1>5, <3>1, <5>3 DEF Ran
          <6>2. ran'[call[c]][q] = ran[call[c]][q]
            BY <1>6, <3>1, <5>3 DEF SmpTypeOK
          <6>3. QED
            BY <5>1, <6>1, <6>2
        <5>4. QED
          BY <5>2, <5>3
      <4>2. QED
        BY <1>5, <4>1
    <3>4. mask'[c] \cup Handling' \subseteq loaded'[c] /\ loaded'[c] \subseteq smp_call_mask'
      BY <1>2, <1>4, <1>5, <3>1, <3>2 DEF MaskOwned, Owns
    <3>5. \E q \in smp_call_mask' : q \notin Handling'
      BY <1>4, <1>5, <3>2, Zenon
    <3>6. Handling' \subseteq (target'[c] \cap Active) \ (mask'[c] \cup {c})
      BY <1>2, <1>5, <3>2 DEF MaskOwned, Owns
    <3>7. \A q \in sgi' : hpc'[q] = "none" /\ info'[q] = call'[c]
      BY <1>2, <1>5, <3>1 DEF MaskOwned, Owns
    <3>8. QED
      BY <1>2, <1>5, <3>1, <3>3, <3>4, <3>5, <3>6, <3>7 DEF MaskOwned, Owns
  <2>3. QED
    BY <2>1, <2>2
<1>12. QED
  BY <1>8, <1>9, <1>10, <1>11 DEF Calls, MaskOwned

\* The store of the non-atomic clear, and the end of the loop.
LEMMA ClearKeeps ==
    ASSUME SmpTypeOK, Calls, NEW c \in Cpu, SetupClear(c) \/ SetupDone(c)
    PROVE  Calls'
<1>1. CASE SetupClear(c)
  <2>1. /\ pc[c] = "clear" /\ pc'[c] = "setup" /\ smp_call_mask' = loaded[c]
        /\ \A d \in Cpu \ {c} : pc'[d] = pc[d]
        /\ UNCHANGED <<info, sgi, call, mask, hpc, hcall, target, ran>>
    BY <1>1 DEF SetupClear, SmpTypeOK
  <2>2. MaskOwned(c)
    BY <2>1, Zenon DEF Calls, MaskFree, MaskOwned, Waiting, Served
  <2>3. CallsDiffer'
    BY <2>1 DEF Calls, CallsDiffer
  <2>4. Spinning'
    BY <2>1, SpinningFrame, Zenon DEF Calls
  <2>5. Handling' = Handling
    BY <2>1 DEF Handling
  <2>6. Owns(c)'
    BY <2>1, <2>2, <2>5 DEF MaskOwned, Owns, Ran
  <2>7. \A d \in Cpu \ {c} : Waiting(d)'
    BY <2>1, <2>2, Zenon DEF MaskOwned, Waiting, Served
  <2>8. QED
    BY <2>3, <2>4, <2>6, <2>7 DEF Calls, MaskOwned
<1>2. CASE SetupDone(c)
  <2>1. /\ pc[c] = "setup" /\ pc'[c] = "wait" /\ mask[c] = {}
        /\ \A d \in Cpu \ {c} : pc'[d] = pc[d]
        /\ UNCHANGED <<smp_call_mask, info, sgi, call, mask, loaded, hpc, hcall,
                       target, ran>>
    BY <1>2 DEF SetupDone, SmpTypeOK
  <2>2. CallsDiffer'
    BY <2>1, Zenon DEF Calls, CallsDiffer
  <2>3. Spinning'
    BY <2>1, SpinningFrame, Zenon DEF Calls
  <2>4. Handling' = Handling
    BY <2>1 DEF Handling
  <2>5. \A d \in Cpu : Waiting(d) => Waiting(d)'
    BY <2>1, Zenon DEF Waiting, Served
  <2>6. \A d \in Cpu : Owns(d) => Owns(d)'
    BY <2>1, <2>4 DEF Owns, Ran
  <2>7. QED
    BY <2>1, <2>2, <2>3, <2>4, <2>5, <2>6, Zenon DEF Calls, MaskFree, MaskOwned
<1>3. QED
  BY <1>1, <1>2

\* kick_notification, which finds the call of the owner in its slot.
LEMMA HandlerKeeps ==
    ASSUME SmpTypeOK, Calls, NEW p \in Cpu, HandlerStep(p)
    PROVE  Calls'
<1>1. p \in Handling
  BY DEF HandlerStep, TakeSgi, HandlerRun, HandlerFinish, Handling
<1>2. PICK c \in Cpu : MaskOwned(c)
  BY <1>1 DEF Calls, MaskFree
<1>3. /\ p \in smp_call_mask /\ p \in target[c] \cap Active /\ p \notin mask[c]
      /\ call[c] \in Call
  BY <1>1, <1>2 DEF MaskOwned, Owns, SmpTypeOK
<1>4. UNCHANGED <<pc, call, mask, loaded, target, info>>
  BY DEF HandlerStep, TakeSgi, HandlerRun, HandlerFinish
<1>5. CallsDiffer'
  BY <1>4 DEF Calls, CallsDiffer
<1>6. /\ \A j \in Call \ {call[c]} : ran'[j] = ran[j]
      /\ \A q \in Cpu \ {p} : ran'[call[c]][q] = ran[call[c]][q]
      /\ ~HandlerRun(p) => ran' = ran
  <2>1. CASE HandlerRun(p)
    <3>1. ran' = Executed(call[c], p)
      BY <1>2, <1>3, <2>1 DEF HandlerRun, MaskOwned, Owns, SmpTypeOK
    <3>2. QED
      BY <1>3, <2>1, <3>1, ExecutedOnce DEF SmpTypeOK
  <2>2. CASE ~HandlerRun(p)
    BY <2>2 DEF HandlerStep, TakeSgi, HandlerFinish
  <2>3. QED
    BY <2>1, <2>2
<1>7. \A d \in Cpu \ {c} : pc[d] # "idle" => ran'[call'[d]] = ran[call[d]]
  BY <1>3, <1>4, <1>6 DEF SmpTypeOK, Calls, CallsDiffer
<1>8. Spinning'
  BY <1>2, <1>4, <1>7, SpinningFrame, SMTT(30) DEF Calls, MaskOwned, Owns
<1>9. \A d \in Cpu \ {c} : Waiting(d)'
  BY <1>2, <1>4, <1>7, ZenonT(30) DEF MaskOwned, Waiting, Served
<1>10. CASE TakeSgi(p)
  <2>1. /\ hpc[p] = "none" /\ p \in sgi /\ sgi' = sgi \ {p}
        /\ hpc'[p] = "run" /\ hcall'[p] = info[p]
        /\ \A q \in Cpu \ {p} : hpc'[q] = hpc[q] /\ hcall'[q] = hcall[q]
        /\ smp_call_mask' = smp_call_mask /\ ran' = ran
    BY <1>3, <1>10 DEF TakeSgi, SmpTypeOK
  <2>2. Handling' = Handling
    BY <2>1, Zenon DEF Handling
  <2>3. \A q \in sgi' : hpc'[q] = "none" /\ info'[q] = call'[c]
    BY <1>2, <1>4, <2>1 DEF MaskOwned, Owns, SmpTypeOK
  <2>4. \A q \in Cpu : hpc'[q] # "none" => hcall'[q] = call'[c]
    BY <1>2, <1>4, <2>1, Zenon DEF MaskOwned, Owns
  <2>5. \A q \in Cpu : Ran(c, q)' = Ran(c, q)
    BY <1>4, <2>1, Zenon DEF Ran
  <2>6. \A q \in target'[c] \cap Active : ran'[call'[c]][q] = Ran(c, q)'
    BY <1>2, <1>4, <2>1, <2>5 DEF MaskOwned, Owns, SmpTypeOK
  <2>7. Owns(c)'
    BY <1>2, <1>4, <2>1, <2>2, <2>3, <2>4, <2>6 DEF MaskOwned, Owns
  <2>8. QED
    BY <1>5, <1>8, <1>9, <2>7 DEF Calls, MaskOwned
<1>11. CASE HandlerRun(p)
  <2>1. /\ hpc[p] = "run" /\ hpc'[p] = "finish" /\ \A q \in Cpu \ {p} : hpc'[q] = hpc[q]
        /\ UNCHANGED <<smp_call_mask, sgi, hcall>>
    BY <1>11 DEF HandlerRun, SmpTypeOK
  <2>2. Handling' = Handling
    BY <2>1, Zenon DEF Handling
  <2>3. p \notin sgi
    BY <1>2, <2>1 DEF MaskOwned, Owns
  <2>4. ran'[call[c]][p] = 1
    <3>1. ran[call[c]][p] = 0 /\ hcall[p] = call[c]
      BY <1>2, <1>3, <2>1 DEF MaskOwned, Owns, Ran
    <3>2. ran' = Executed(call[c], p)
      BY <1>3, <1>11, <3>1 DEF HandlerRun
    <3>3. QED
      BY <1>3, <3>1, <3>2, ExecutedOnce DEF SmpTypeOK
  <2>5. Ran(c, p)' = 1
    BY <1>3, <1>4, <2>1, <2>3 DEF Ran
  <2>6. \A q \in Cpu \ {p} : Ran(c, q)' = Ran(c, q)
    BY <1>4, <2>1 DEF Ran
  <2>7. \A q \in target'[c] \cap Active : ran'[call'[c]][q] = Ran(c, q)'
    <3>1. \A q \in target[c] \cap Active : q \in Cpu /\ ran[call[c]][q] = Ran(c, q)
      BY <1>2 DEF MaskOwned, Owns, SmpTypeOK
    <3>2. QED
      BY <1>4, <1>6, <2>4, <2>5, <2>6, <3>1, Zenon
  <2>8. \A q \in sgi' : hpc'[q] = "none" /\ info'[q] = call'[c]
    BY <1>2, <1>4, <2>1, <2>3 DEF MaskOwned, Owns, SmpTypeOK
  <2>9. \A q \in Cpu : hpc'[q] # "none" => hcall'[q] = call'[c]
    BY <1>2, <1>4, <2>1 DEF MaskOwned, Owns
  <2>10. Owns(c)'
    BY <1>2, <1>4, <2>1, <2>2, <2>7, <2>8, <2>9 DEF MaskOwned, Owns
  <2>11. QED
    BY <1>5, <1>8, <1>9, <2>10 DEF Calls, MaskOwned
<1>12. CASE HandlerFinish(p)
  <2>1. /\ hpc[p] = "finish" /\ hpc'[p] = "none"
        /\ \A q \in Cpu \ {p} : hpc'[q] = hpc[q] /\ hcall'[q] = hcall[q]
        /\ smp_call_mask' = smp_call_mask \ {p}
        /\ UNCHANGED <<sgi, ran>>
    BY <1>12 DEF HandlerFinish, SmpTypeOK
  <2>2. p \notin sgi
    BY <1>2, <2>1 DEF MaskOwned, Owns
  <2>3. Handling' = Handling \ {p}
    BY <2>1, <2>2, Zenon DEF Handling, SmpTypeOK
  <2>4. \A q \in Cpu : Ran(c, q)' = Ran(c, q)
    BY <1>4, <2>1, Zenon DEF Ran
  <2>5. \A q \in target'[c] \cap Active : ran'[call'[c]][q] = Ran(c, q)'
    BY <1>2, <1>4, <2>1, <2>4 DEF MaskOwned, Owns, SmpTypeOK
  <2>6. \A q \in sgi' : hpc'[q] = "none" /\ info'[q] = call'[c]
    BY <1>2, <1>4, <2>1, <2>2, Zenon DEF MaskOwned, Owns, SmpTypeOK
  <2>7. \A q \in Cpu : hpc'[q] # "none" => hcall'[q] = call'[c]
    BY <1>2, <1>4, <2>1 DEF MaskOwned, Owns
  <2>8. mask'[c] \cup Handling' \subseteq smp_call_mask'
    BY <1>2, <1>3, <1>4, <2>1, <2>3 DEF MaskOwned, Owns
  <2>9. pc'[c] = "clear" =>
          /\ mask'[c] \cup Handling' \subseteq loaded'[c]
          /\ \E q \in smp_call_mask' : q \notin Handling'
    BY <1>1, <1>2, <1>4, <2>1, <2>3 DEF MaskOwned, Owns
  <2>10. Owns(c)'
    BY <1>2, <1>4, <2>3, <2>5, <2>6, <2>7, <2>8, <2>9 DEF MaskOwned, Owns
  <2>11. QED
    BY <1>5, <1>8, <1>9, <2>10 DEF Calls, MaskOwned
<1>13. QED
  BY <1>10, <1>11, <1>12 DEF HandlerStep

-----------------------------------------------------------------------------

\* Every step keeps the inductive invariant.
LEMMA SmpNextInv == SmpInv /\ [Next]_<<setting, vars>> => SmpInv'
<1> SUFFICES ASSUME SmpInv, [Next]_<<setting, vars>> PROVE SmpInv'
  OBVIOUS
<1>1. CASE Next
  <2>1. UNCHANGED setting /\ SmpTypeOK
    BY <1>1 DEF Next, SmpInv
  <2>2. PICK c \in Cpu :
          \/ \E k \in Call, m \in (SUBSET Cpu) \ {{}} : Begin(c, k, m)
          \/ WaitTimeout(c) \/ Kick(c) \/ ThreadStep(c) \/ HandlerStep(c)
    BY <1>1 DEF Next
  <2>3. SmpTypeOK'
    BY <2>1, <2>2, ThreadType, HandlerType
  <2>4. ASSUME Undisturbed' PROVE Calls'
    <3>1. Undisturbed /\ Calls
      BY <2>1, <2>4 DEF Undisturbed, SmpInv
    <3>2. ~WaitTimeout(c) /\ ~Kick(c) /\ ~Abort(c)
      BY <3>1 DEF Undisturbed, WaitTimeout, Kick, Abort, Calls, CallsDiffer
    <3>3. CASE \E k \in Call, m \in (SUBSET Cpu) \ {{}} : Begin(c, k, m)
      BY <2>1, <3>1, <3>3, BeginKeeps
    <3>4. CASE ThreadStep(c)
      BY <2>1, <3>1, <3>2, <3>4, MaskKeeps, SetupKeeps, ClearKeeps DEF ThreadStep
    <3>5. CASE HandlerStep(c)
      BY <2>1, <3>1, <3>5, HandlerKeeps, SMTT(30)
    <3>6. QED
      BY <2>2, <3>2, <3>3, <3>4, <3>5
  <2>5. QED
    BY <2>3, <2>4 DEF SmpInv
<1>2. CASE UNCHANGED <<setting, vars>>
  BY <1>2 DEF vars, SmpInv, SmpTypeOK, Undisturbed, Calls, CallsDiffer, Spinning, MaskFree,
              MaskOwned, Owns, Handling, Ran, Waiting, Served
<1>3. QED
  BY <1>1, <1>2

\* kick_notification executes a function only while its caller waits for it: for
\* every number of pCPUs and of concurrent calls, and every mask.
THEOREM DataAlive == Spec => []DataIsAlive
<1>1. SmpInv => DataIsAlive
  <2> SUFFICES ASSUME SmpInv, NEW p \in Cpu, Undisturbed, hpc[p] = "run"
               PROVE  \E c \in Cpu : /\ pc[c] \in Busy
                                     /\ call[c] = hcall[p]
                                     /\ p \in target[c]
    BY DEF DataIsAlive
  <2>1. p \in Handling
    BY DEF Handling
  <2>2. PICK c \in Cpu : MaskOwned(c)
    BY <2>1 DEF SmpInv, Calls, MaskFree
  <2>3. QED
    BY <2>1, <2>2, Zenon DEF MaskOwned, Owns, Busy
<1>2. QED
  BY <1>1, SmpInitInv, SmpNextInv, PTL DEF Spec

\* smp_call_function returns only when every target that is up has executed the
\* function exactly once, for every number of pCPUs and every mask.
THEOREM ReturnedCallsRan == Spec => UndisturbedCallsRan
<1>1. SmpInv /\ [Next]_<<setting, vars>> =>
        [Undisturbed => \A c \in Cpu :
           (pc[c] = "wait" /\ pc'[c] = "idle") =>
               \A p \in target[c] \cap Active : ran[call[c]][p] = 1]_vars
  <2> SUFFICES ASSUME SmpInv, Next, Undisturbed,
                      NEW c \in Cpu, pc[c] = "wait", pc'[c] = "idle"
               PROVE  \A p \in target[c] \cap Active : ran[call[c]][p] = 1
    BY DEF vars
  <2>1. SmpTypeOK /\ Calls
    BY DEF SmpInv
  <2>2. smp_call_mask = {}
    <3>1. PICK d \in Cpu :
            \/ \E k \in Call, m \in (SUBSET Cpu) \ {{}} : Begin(d, k, m)
            \/ WaitTimeout(d) \/ Kick(d) \/ ThreadStep(d) \/ HandlerStep(d)
      BY DEF Next
    <3>2. pc' # pc
      OBVIOUS
    <3>3. ~Kick(d) /\ ~HandlerStep(d)
      BY <3>2 DEF Kick, HandlerStep, TakeSgi, HandlerRun, HandlerFinish
    <3>4. \A k \in Call, m \in (SUBSET Cpu) \ {{}} : ~Begin(d, k, m)
      BY <2>1 DEF Begin, SmpTypeOK
    <3>5. ~WaitTimeout(d) /\ ~Abort(d)
      BY <2>1 DEF Undisturbed, WaitTimeout, Abort, Calls, CallsDiffer
    <3>6. ~Acquire(d) /\ ~SetupClear(d) /\ ~SetupDone(d)
      BY <2>1 DEF Acquire, SetupClear, SetupDone, SmpTypeOK
    <3>7. ~Setup(d)
      BY <2>1, SetupTurn DEF SetupFor, SmpTypeOK
    <3>8. QED
      BY <3>1, <3>3, <3>4, <3>5, <3>6, <3>7 DEF ThreadStep, WaitDone
  <2>3. QED
    BY <2>1, <2>2, EmptyIsFree, Zenon DEF MaskFree, Waiting, Served
<1>2. QED
  BY <1>1, SmpInitInv, SmpNextInv, PTL DEF Spec, UndisturbedCallsRan

=============================================================================
