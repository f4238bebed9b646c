---------------------------- MODULE ClientProofs ----------------------------
(***************************************************************************)
(* Theorems about module Client for any number of threads, addresses,      *)
(* tokens, cores and ids.                                                  *)
(***************************************************************************)
EXTENDS Client, TLAPS

\* Client ids are compared across handles of one player core only: what the
\* id test of wait_event needs, and what a program with two cores lacks.
SingleCore == \A c, d \in Cores : c = d

\* The lifetime of the handle a plugin's main gets ends with main.
ScopedMain == StaticMain = FALSE

-----------------------------------------------------------------------------
(* The inductive invariant.                                                *)

\* An address has a birth record exactly while a handle is allocated there.
Allocated == \A p \in Ptrs : mode[p] = "free" <=> birth[p] = NoBirth

\* A thread inside libmpv knows its handle, a thread that polls its token too;
\* an abort ends every thread of the process.
Placed ==
  \A t \in Threads :
    /\ pc[t] \in {"idle", "panicked"} => at[t] = None
    /\ pc[t] \in {"init", "call", "wait", "event", "destroy"} => at[t] \in Ptrs
    /\ Polling(t) => borrow[t] \in Slots
    /\ pc[t] \in {"idle", "panicked", "init", "call", "destroy"} => borrow[t] = None
    /\ pc[t] = "aborted" => \A u \in Threads : pc[u] = "aborted"

\* A token is borrowed by one thread at a time.
OneBorrow ==
  \A t, u \in Threads : t # u /\ borrow[t] = borrow[u] => borrow[t] = None

\* The id test still holds while the thread polls: neither the handle nor the
\* token can go away before both borrows end.
StillMatching ==
  \A t \in Threads : Polling(t) =>
    token[borrow[t]] # NoToken /\ Matches(at[t], borrow[t])

\* No id of a core is handed out twice, so no two tokens of a core agree.
TokenIds ==
  /\ \A k \in Slots : token[k] # NoToken => token[k].id <= lastId[token[k].core]
  /\ \A j, k \in Slots :
       j # k /\ token[j] # NoToken /\ token[k] # NoToken /\ token[j].core = token[k].core
         => token[j].id # token[k].id

Ownership == Typed /\ Allocated /\ Placed /\ HandleAlive

IInv == Ownership /\ OneBorrow /\ StillMatching /\ TokenIds

-----------------------------------------------------------------------------
(* Type correctness and ownership.                                         *)

LEMMA MintType ==
  ASSUME Typed, NEW p \in Ptrs, NEW k \in Slots, NEW c \in Cores,
         NEW m \in Modes, NEW w \in BOOLEAN, NEW r \in Threads \cup {None},
         Mint(p, k, c, m, w, r)
  PROVE  /\ lastId' \in [Cores -> 0..MaxId]
         /\ mode' \in [Ptrs -> Modes]
         /\ birth' \in [Ptrs -> Births \cup {NoBirth}]
         /\ token' \in [Slots -> Tokens \cup {NoToken}]
<1>1. lastId[c] + 1 \in 1..MaxId /\ lastId[c] + 1 \in 0..MaxId
  BY ClientAssumption DEF Typed, Mint
<1>2. [core |-> c, id |-> lastId[c] + 1, weak |-> w, runner |-> r] \in Births
  BY <1>1 DEF Births
<1>3. [core |-> c, id |-> lastId[c] + 1] \in Tokens
  BY <1>1 DEF Tokens
<1>4. QED
  BY <1>1, <1>2, <1>3 DEF Typed, Mint

LEMMA DestroyType ==
  ASSUME Typed, NEW t \in Threads, NEW p \in Ptrs, Destroy(t, p)
  PROVE  Typed'
BY DEF Typed, Destroy, Modes, Steps

\* The three ways a client comes to be, as one step.
MintStep(p, k, c, m, w, r) ==
  /\ Mint(p, k, c, m, w, r)
  /\ \E t \in Threads : pc[t] = "idle"
  /\ core' = [core EXCEPT ![c] = "running"]
  /\ UNCHANGED <<pc, at, borrow, event>>

\* The three ways a handle is given to mpv_destroy, as one step.
DestroyStep(t, p) ==
  /\ Destroy(t, p)
  /\ mode[p] \in {"Uninit", "Client", "Plugin"}
  /\ pc[t] \in {"idle", "init"}
  /\ \A u \in Threads \ {t} : at[u] # p

\* Every other step of a thread.
ThreadOnly(t) ==
  \/ InitializeOk(t) \/ DestroyReturn(t) \/ CallReturn(t) \/ WaitReturn(t)
  \/ DropEvent(t)
  \/ \E p \in Ptrs : InitializeCall(t, p) \/ CallBegin(t, p)
  \/ \E k \in Slots : DropToken(t, k)
  \/ \E p \in Ptrs, k \in Slots : WaitCall(t, p, k) \/ WaitMismatch(t, p, k)

\* The steps a proof distinguishes.
StepCases ==
  \/ \E p \in Ptrs, k \in Slots, c \in Cores, m \in {"Uninit", "Client", "Plugin"},
       w \in BOOLEAN, r \in Threads \cup {None} : MintStep(p, k, c, m, w, r)
  \/ \E t \in Threads, p \in Ptrs : DestroyStep(t, p)
  \/ \E t \in Threads : ThreadOnly(t)
  \/ \E c \in Cores : Quit(c)
  \/ UNCHANGED vars

LEMMA NextCases == ScopedMain /\ Ownership /\ [Next]_vars => StepCases
<1> SUFFICES ASSUME ScopedMain, Ownership, [Next]_vars PROVE StepCases
  OBVIOUS
<1> USE DEF Ownership
<1>1. ASSUME NEW t \in Threads, NEW p \in Ptrs, NEW k \in Slots, NEW c \in Cores,
             Create(t, p, k, c)
      PROVE  MintStep(p, k, c, "Uninit", FALSE, None)
  BY <1>1 DEF Create, MintStep
<1>2. ASSUME NEW t \in Threads, NEW p \in Ptrs, NEW k \in Slots, NEW c \in Cores,
             PluginOpen(t, p, k, c)
      PROVE  MintStep(p, k, c, "Plugin", TRUE, t)
  BY <1>2 DEF PluginOpen, MintStep, Typed
<1>3. ASSUME NEW t \in Threads, NEW p0 \in Ptrs, NEW p \in Ptrs, NEW k \in Slots,
             NEW w \in BOOLEAN, CreateClient(t, p0, p, k, w)
      PROVE  /\ birth[p0].core \in Cores
             /\ MintStep(p, k, birth[p0].core, "Client", w, None)
  <2>1. birth[p0].core \in Cores
    BY <1>3 DEF CreateClient, Typed, Births, Shared, Allocated
  <2> QED
    BY <1>3, <2>1 DEF CreateClient, MintStep, Typed
<1>4. ASSUME NEW t \in Threads, NEW p \in Ptrs, DropClient(t, p) \/ PluginReturn(t, p)
      PROVE  DestroyStep(t, p)
  BY <1>4 DEF DropClient, PluginReturn, DestroyStep, Borrowed, ScopedMain
<1>5. ASSUME NEW t \in Threads, InitializeErr(t)
      PROVE  at[t] \in Ptrs /\ DestroyStep(t, at[t])
  BY <1>5 DEF InitializeErr, DestroyStep, HandleAlive, Placed
<1>6. QED
  <2>1. CASE UNCHANGED vars
    BY <2>1 DEF StepCases
  <2>2. CASE \E c \in Cores : Quit(c)
    BY <2>2 DEF StepCases
  <2>3. ASSUME NEW t \in Threads, ThreadStep(t)
        PROVE  StepCases
    <3>1. CASE ThreadOnly(t)
      BY <3>1 DEF StepCases
    <3>2. CASE InitializeErr(t)
      BY <3>2, <1>5 DEF StepCases
    <3>3. CASE \E p \in Ptrs : DropClient(t, p) \/ PluginReturn(t, p)
      BY <3>3, <1>4 DEF StepCases
    <3>4. CASE \E p \in Ptrs, k \in Slots, c \in Cores : Create(t, p, k, c) \/ PluginOpen(t, p, k, c)
      <4>1. PICK p \in Ptrs, k \in Slots, c \in Cores : Create(t, p, k, c) \/ PluginOpen(t, p, k, c)
        BY <3>4
      <4>2. \/ MintStep(p, k, c, "Uninit", FALSE, None)
            \/ MintStep(p, k, c, "Plugin", TRUE, t)
        BY <4>1, <1>1, <1>2
      <4> QED
        BY <4>2 DEF StepCases
    <3>5. CASE \E p0, p \in Ptrs, k \in Slots, w \in BOOLEAN : CreateClient(t, p0, p, k, w)
      <4>1. PICK p0 \in Ptrs, p \in Ptrs, k \in Slots, w \in BOOLEAN : CreateClient(t, p0, p, k, w)
        BY <3>5
      <4>2. birth[p0].core \in Cores /\ MintStep(p, k, birth[p0].core, "Client", w, None)
        BY <4>1, <1>3
      <4> QED
        BY <4>2 DEF StepCases
    <3> QED
      BY <2>3, <3>1, <3>2, <3>3, <3>4, <3>5 DEF ThreadStep, ThreadOnly
  <2> QED
    BY <2>1, <2>2, <2>3 DEF Next

LEMMA TypeStep == ScopedMain /\ Ownership /\ [Next]_vars => Typed'
<1> SUFFICES ASSUME Ownership, StepCases PROVE Typed'
  BY NextCases
<1> USE DEF Ownership
<1>1. ASSUME NEW p \in Ptrs, NEW k \in Slots, NEW c \in Cores,
             NEW m \in {"Uninit", "Client", "Plugin"}, NEW w \in BOOLEAN,
             NEW r \in Threads \cup {None}, MintStep(p, k, c, m, w, r)
      PROVE  Typed'
  <2>1. m \in Modes /\ Mint(p, k, c, m, w, r)
    BY <1>1 DEF Modes, MintStep
  <2> QED
    BY <1>1, <2>1, MintType DEF Typed, MintStep
<1>2. ASSUME NEW t \in Threads, NEW p \in Ptrs, DestroyStep(t, p)
      PROVE  Typed'
  BY <1>2, DestroyType DEF DestroyStep
<1>3. ASSUME NEW t \in Threads, ThreadOnly(t)
      PROVE  Typed'
  BY <1>3 DEF ThreadOnly, Typed, Modes, Steps, InitializeOk, DestroyReturn, CallReturn,
              WaitReturn, DropEvent, InitializeCall, CallBegin, WaitCall, WaitMismatch, DropToken
<1>4. ASSUME NEW c \in Cores, Quit(c)
      PROVE  Typed'
  BY <1>4 DEF Typed, Quit
<1>5. CASE UNCHANGED vars
  BY <1>5 DEF Typed, vars
<1>6. QED
  BY <1>1, <1>2, <1>3, <1>4, <1>5 DEF StepCases

LEMMA OwnershipStep == ScopedMain /\ Ownership /\ [Next]_vars => Ownership'
<1> SUFFICES ASSUME Ownership, StepCases, Typed' PROVE Ownership'
  BY NextCases, TypeStep
<1> USE ClientAssumption DEF Ownership
<1>1. ASSUME NEW p \in Ptrs, NEW k \in Slots, NEW c \in Cores,
             NEW m \in {"Uninit", "Client", "Plugin"}, NEW w \in BOOLEAN,
             NEW r \in Threads \cup {None}, MintStep(p, k, c, m, w, r)
      PROVE  Ownership'
  <2> USE <1>1 DEF MintStep
  <2>1. Allocated'
    BY ZenonT(30) DEF Mint, Allocated, Typed, NoBirth
  <2>2. Placed'
    BY DEF Placed, Polling
  <2>3. HandleAlive'
    BY DEF Mint, HandleAlive, Polling, Shared, Placed, Typed
  <2> QED
    BY <2>1, <2>2, <2>3
<1>2. ASSUME NEW t \in Threads, NEW p \in Ptrs, DestroyStep(t, p)
      PROVE  Ownership'
  <2> USE <1>2 DEF DestroyStep, Destroy
  <2>1. Allocated'
    BY DEF Allocated, Typed
  <2>2. Placed'
    BY DEF Placed, Polling, Typed
  <2>3. HandleAlive'
    BY DEF HandleAlive, Polling, Shared, Placed, Typed
  <2> QED
    BY <2>1, <2>2, <2>3
<1>3. ASSUME NEW t \in Threads, ThreadOnly(t)
      PROVE  Ownership'
  <2>1. Allocated'
    BY <1>3 DEF ThreadOnly, Allocated, Placed, HandleAlive, Typed, InitializeOk, DestroyReturn,
                CallReturn, WaitReturn, DropEvent, InitializeCall, CallBegin, WaitCall,
                WaitMismatch, DropToken
  <2>2. Placed'
    BY <1>3 DEF ThreadOnly, Placed, Typed, Polling, InitializeOk, DestroyReturn, CallReturn,
                WaitReturn, DropEvent, InitializeCall, CallBegin, WaitCall, WaitMismatch, DropToken
  <2>3. HandleAlive'
    BY <1>3 DEF ThreadOnly, Placed, HandleAlive, Typed, Polling, Shared, Borrowed, InitializeOk,
                DestroyReturn, CallReturn, WaitReturn, DropEvent, InitializeCall, CallBegin,
                WaitCall, WaitMismatch, DropToken
  <2> QED
    BY <2>1, <2>2, <2>3
<1>4. ASSUME NEW c \in Cores, Quit(c)
      PROVE  Ownership'
  BY <1>4 DEF Quit, Allocated, Placed, HandleAlive, Polling, Shared
<1>5. CASE UNCHANGED vars
  BY <1>5 DEF vars, Allocated, Placed, HandleAlive, Polling, Shared
<1>6. QED
  BY <1>1, <1>2, <1>3, <1>4, <1>5 DEF StepCases

-----------------------------------------------------------------------------
(* Tokens.                                                                 *)

LEMMA TokenStep ==
  ScopedMain /\ Ownership /\ OneBorrow /\ StillMatching /\ TokenIds /\ [Next]_vars
    => OneBorrow' /\ StillMatching' /\ TokenIds'
<1> SUFFICES ASSUME Ownership, OneBorrow, StillMatching, TokenIds, StepCases, Ownership'
             PROVE  OneBorrow' /\ StillMatching' /\ TokenIds'
  BY NextCases, OwnershipStep
<1> USE ClientAssumption DEF Ownership
<1>1. ASSUME NEW p \in Ptrs, NEW k \in Slots, NEW c \in Cores,
             NEW m \in {"Uninit", "Client", "Plugin"}, NEW w \in BOOLEAN,
             NEW r \in Threads \cup {None}, MintStep(p, k, c, m, w, r)
      PROVE  OneBorrow' /\ StillMatching' /\ TokenIds'
  <2> USE <1>1 DEF MintStep, Mint
  <2>1. OneBorrow'
    BY DEF OneBorrow
  <2>2. StillMatching'
    BY DEF StillMatching, Polling, Matches, HandleAlive, Shared, Placed, Typed
  <2>3. TokenIds'
    <3>1. \A j \in Slots : token'[j] # NoToken =>
            \/ j = k /\ token'[j].core = c /\ token'[j].id = lastId[c] + 1
            \/ token'[j] = token[j]
      BY DEF Typed
    <3>2. lastId[c] \in Nat /\ lastId'[c] = lastId[c] + 1
      BY DEF Typed
    <3>3. \A j \in Slots : token[j] # NoToken => token[j].core \in Cores /\ token[j].id \in Nat
      BY DEF Typed, Tokens
    <3>4. \A d \in Cores : d # c => lastId'[d] = lastId[d]
      BY DEF Typed
    <3>5. \A j \in Slots : j # k => token'[j] = token[j]
      BY DEF Typed
    <3>6. \A d \in Cores : lastId[d] \in Nat
      BY DEF Typed
    <3>7. token'[k].core = c /\ token'[k].id = lastId[c] + 1
      BY DEF Typed
    <3>8. \A j \in Slots : token'[j] # NoToken => token'[j].id <= lastId'[token'[j].core]
      BY <3>2, <3>3, <3>4, <3>5, <3>6, <3>7 DEF TokenIds
    <3>9. ASSUME NEW i \in Slots, NEW j \in Slots, i # j, token'[i] # NoToken,
                 token'[j] # NoToken, token'[i].core = token'[j].core
          PROVE  token'[i].id # token'[j].id
      BY <3>2, <3>3, <3>5, <3>6, <3>7, <3>9 DEF TokenIds
    <3> QED
      BY <3>8, <3>9 DEF TokenIds
  <2> QED
    BY <2>1, <2>2, <2>3
<1>2. ASSUME NEW t \in Threads, NEW p \in Ptrs, DestroyStep(t, p)
      PROVE  OneBorrow' /\ StillMatching' /\ TokenIds'
  BY <1>2 DEF DestroyStep, Destroy, OneBorrow, StillMatching, TokenIds, Polling, Matches, Typed
<1>3. ASSUME NEW t \in Threads, ThreadOnly(t)
      PROVE  OneBorrow' /\ StillMatching' /\ TokenIds'
  <2>1. OneBorrow'
    BY <1>3 DEF ThreadOnly, OneBorrow, Typed, TokenBorrowed, InitializeOk, DestroyReturn,
                CallReturn, WaitReturn, DropEvent, InitializeCall, CallBegin, WaitCall,
                WaitMismatch, DropToken
  <2>2. StillMatching'
    BY <1>3 DEF ThreadOnly, StillMatching, Polling, Matches, Placed, HandleAlive, Typed,
                TokenBorrowed, Shared, InitializeOk, DestroyReturn, CallReturn, WaitReturn,
                DropEvent, InitializeCall, CallBegin, WaitCall, WaitMismatch, DropToken
  <2>3. TokenIds'
    BY <1>3 DEF ThreadOnly, TokenIds, Typed, InitializeOk, DestroyReturn, CallReturn, WaitReturn,
                DropEvent, InitializeCall, CallBegin, WaitCall, WaitMismatch, DropToken
  <2> QED
    BY <2>1, <2>2, <2>3
<1>4. ASSUME NEW c \in Cores, Quit(c)
      PROVE  OneBorrow' /\ StillMatching' /\ TokenIds'
  BY <1>4 DEF Quit, OneBorrow, StillMatching, TokenIds, Polling, Matches
<1>5. CASE UNCHANGED vars
  BY <1>5 DEF vars, OneBorrow, StillMatching, TokenIds, Polling, Matches
<1>6. QED
  BY <1>1, <1>2, <1>3, <1>4, <1>5 DEF StepCases

LEMMA InitIInv == Init => IInv
<1> SUFFICES ASSUME Init PROVE IInv
  OBVIOUS
<1> USE ClientAssumption DEF Init
<1>1. Typed
  BY DEF Typed, Modes, Steps
<1>2. Allocated /\ Placed /\ HandleAlive
  BY DEF Allocated, Placed, HandleAlive, Polling
<1>3. OneBorrow /\ StillMatching /\ TokenIds
  BY DEF OneBorrow, StillMatching, TokenIds, Polling
<1> QED
  BY <1>1, <1>2, <1>3 DEF IInv, Ownership

\* The strengthened invariant holds in every reachable state of any program,
\* whatever the number of cores.
THEOREM InvariantHolds == ScopedMain => (Spec => []IInv)
<1> SUFFICES ASSUME ScopedMain PROVE Spec => []IInv
  OBVIOUS
<1>1. IInv /\ [Next]_vars => IInv'
  BY OwnershipStep, TokenStep DEF IInv
<1>2. QED
  BY InitIInv, <1>1, PTL DEF Spec

-----------------------------------------------------------------------------
(* What follows for every program.                                         *)

\* Type correctness of the lifecycle: a thread has a handle and a token exactly while
\* it is in a call that borrows them.
THEOREM TypeCorrect == ScopedMain => (Spec => []TypeOK)
<1> SUFFICES ASSUME ScopedMain PROVE Spec => []TypeOK
  OBVIOUS
<1>1. IInv => TypeOK
  <2> SUFFICES ASSUME IInv, NEW t \in Threads, pc[t] # "aborted"
               PROVE  /\ at[t] # None <=> pc[t] \in {"init", "call", "wait", "event", "destroy"}
                      /\ borrow[t] # None <=> Polling(t)
                      /\ Polling(t) => token[borrow[t]] # NoToken
    BY DEF IInv, Ownership, TypeOK
  <2>1. pc[t] \in Steps
    BY DEF IInv, Ownership, Typed
  <2>2. at[t] # None <=> pc[t] \in {"init", "call", "wait", "event", "destroy"}
    BY <2>1, ClientAssumption DEF IInv, Ownership, Placed, Steps
  <2>3. borrow[t] # None <=> Polling(t)
    BY <2>1, ClientAssumption DEF IInv, Ownership, Placed, Steps, Polling
  <2>4. Polling(t) => token[borrow[t]] # NoToken
    BY DEF IInv, StillMatching
  <2> QED
    BY <2>2, <2>3, <2>4
<1>2. QED
  BY InvariantHolds, <1>1, PTL

\* No use after free, no double mpv_destroy, no drop under a running call.
THEOREM HandlesStayAlive == ScopedMain => (Spec => []HandleAlive)
<1> SUFFICES ASSUME ScopedMain PROVE Spec => []HandleAlive
  OBVIOUS
<1>1. IInv => HandleAlive
  BY DEF IInv, Ownership
<1>2. QED
  BY InvariantHolds, <1>1, PTL

-----------------------------------------------------------------------------
(* What follows when all handles of the process belong to one core.        *)

LEMMA ExclusiveFromIInv == SingleCore /\ IInv => ExclusivePolling /\ TokenFitsHandle
<1> SUFFICES ASSUME SingleCore, IInv PROVE ExclusivePolling /\ TokenFitsHandle
  OBVIOUS
<1> USE DEF IInv, Ownership
<1>1. ASSUME NEW t \in Threads, Polling(t)
      PROVE  /\ at[t] \in Ptrs /\ borrow[t] \in Slots
             /\ birth[at[t]] \in Births
             /\ token[borrow[t]] \in Tokens
             /\ token[borrow[t]] # NoToken
             /\ token[borrow[t]].id = birth[at[t]].id
  BY <1>1 DEF Polling, Placed, Typed, HandleAlive, Shared, Allocated, StillMatching, Matches
<1>2. ASSUME NEW t \in Threads, NEW u \in Threads, t # u, Polling(t), Polling(u), at[t] = at[u]
      PROVE  FALSE
  <2>1. token[borrow[t]].core = token[borrow[u]].core
    BY <1>1, <1>2 DEF SingleCore, Tokens
  <2>2. borrow[t] = borrow[u]
    BY <1>1, <1>2, <2>1 DEF TokenIds
  <2> QED
    BY <1>1, <1>2, <2>2, ClientAssumption DEF OneBorrow
<1>3. ASSUME NEW t \in Threads, Polling(t)
      PROVE  token[borrow[t]] = [core |-> birth[at[t]].core, id |-> birth[at[t]].id]
  BY <1>1, <1>3 DEF SingleCore, Tokens, Births
<1> QED
  BY <1>2, <1>3 DEF ExclusivePolling, TokenFitsHandle

\* With one core, no two threads ever poll the same handle.
THEOREM PollingIsExclusive == ScopedMain /\ SingleCore => (Spec => []ExclusivePolling)
<1> SUFFICES ASSUME ScopedMain, SingleCore PROVE Spec => []ExclusivePolling
  OBVIOUS
<1>1. IInv => ExclusivePolling
  BY ExclusiveFromIInv
<1>2. QED
  BY InvariantHolds, <1>1, PTL

\* With one core, a token that passes the test of wait_event is the token that
\* was minted for that handle.
THEOREM TokensFit == ScopedMain /\ SingleCore => (Spec => []TokenFitsHandle)
<1> SUFFICES ASSUME ScopedMain, SingleCore PROVE Spec => []TokenFitsHandle
  OBVIOUS
<1>1. IInv => TokenFitsHandle
  BY ExclusiveFromIInv
<1>2. QED
  BY InvariantHolds, <1>1, PTL

LEMMA ExclusiveStep ==
  ASSUME ScopedMain, SingleCore
  PROVE  IInv /\ [Next]_vars => StepCases /\ ExclusivePolling /\ ExclusivePolling'
<1>1. IInv /\ [Next]_vars => IInv'
  BY OwnershipStep, TokenStep DEF IInv
<1>2. IInv => ExclusivePolling
  BY ExclusiveFromIInv
<1>3. IInv' => ExclusivePolling'
  BY <1>2, PTL
<1>4. IInv /\ [Next]_vars => StepCases
  BY NextCases DEF IInv
<1> QED
  BY <1>1, <1>2, <1>3, <1>4

LEMMA EventStep ==
  ScopedMain /\ SingleCore /\ IInv /\ EventFresh /\ [Next]_vars => EventFresh'
<1> SUFFICES ASSUME ScopedMain, SingleCore, IInv, EventFresh, StepCases, ExclusivePolling, ExclusivePolling'
             PROVE  EventFresh'
  BY ExclusiveStep
<1> USE ClientAssumption DEF IInv, Ownership
<1>1. ASSUME NEW p \in Ptrs, NEW k \in Slots, NEW c \in Cores,
             NEW m \in {"Uninit", "Client", "Plugin"}, NEW w \in BOOLEAN,
             NEW r \in Threads \cup {None}, MintStep(p, k, c, m, w, r)
      PROVE  EventFresh'
  BY <1>1 DEF MintStep, EventFresh
<1>2. ASSUME NEW t \in Threads, NEW p \in Ptrs, DestroyStep(t, p)
      PROVE  EventFresh'
  BY <1>2 DEF DestroyStep, Destroy, EventFresh, Typed
<1>3. ASSUME NEW t \in Threads, ThreadOnly(t)
      PROVE  EventFresh'
  BY <1>3 DEF ThreadOnly, EventFresh, ExclusivePolling, Polling, Placed, Typed, InitializeOk,
              DestroyReturn, CallReturn, WaitReturn, DropEvent, InitializeCall, CallBegin,
              WaitCall, WaitMismatch, DropToken
<1>4. ASSUME NEW c \in Cores, Quit(c)
      PROVE  EventFresh'
  BY <1>4 DEF Quit, EventFresh
<1>5. CASE UNCHANGED vars
  BY <1>5 DEF vars, EventFresh
<1>6. QED
  BY <1>1, <1>2, <1>3, <1>4, <1>5 DEF StepCases

\* With one core, an Event never outlives the data it points to.
THEOREM EventsStayFresh == ScopedMain /\ SingleCore => (Spec => []EventFresh)
<1> SUFFICES ASSUME ScopedMain, SingleCore PROVE Spec => []EventFresh
  OBVIOUS
<1>1. Init => EventFresh
  BY DEF Init, EventFresh
<1>2. IInv /\ EventFresh /\ [Next]_vars => EventFresh'
  BY EventStep
<1>3. QED
  BY InvariantHolds, <1>1, <1>2, PTL DEF Spec

\* A handle is not freed and allocated anew under a thread that works on it.
THEOREM HandlesNotReused == ScopedMain => (Spec => NoReuseUnderCall)
<1> SUFFICES ASSUME ScopedMain PROVE Spec => NoReuseUnderCall
  OBVIOUS
<1> DEFINE Kept == \A t \in Threads : at[t] # None /\ at'[t] = at[t] => birth'[at[t]] = birth[at[t]]
<1>1. IInv /\ [Next]_vars => Kept
  <2> SUFFICES ASSUME IInv, StepCases PROVE Kept
    BY NextCases DEF IInv
  <2> USE ClientAssumption DEF IInv, Ownership
  <2>0. \A u \in Threads : at[u] # None /\ pc[u] # "aborted" => at[u] \in Ptrs /\ mode[at[u]] # "free"
    BY DEF Placed, HandleAlive, Polling, Shared, Typed, Steps
  <2>1. ASSUME NEW p \in Ptrs, NEW k \in Slots, NEW c \in Cores,
               NEW m \in {"Uninit", "Client", "Plugin"}, NEW w \in BOOLEAN,
               NEW r \in Threads \cup {None}, MintStep(p, k, c, m, w, r)
        PROVE  Kept
    <3>1. \A u \in Threads : pc[u] # "aborted"
      BY <2>1 DEF MintStep, Placed
    <3> QED
      BY <2>0, <2>1, <3>1 DEF MintStep, Mint, Typed
  <2>2. ASSUME NEW t \in Threads, NEW p \in Ptrs, DestroyStep(t, p)
        PROVE  Kept
    BY <2>2 DEF DestroyStep, Destroy
  <2>3. ASSUME NEW t \in Threads, ThreadOnly(t)
        PROVE  Kept
    BY <2>3 DEF ThreadOnly, HandleAlive, Placed, Typed, InitializeOk, DestroyReturn, CallReturn,
                WaitReturn, DropEvent, InitializeCall, CallBegin, WaitCall, WaitMismatch, DropToken
  <2>4. ASSUME NEW c \in Cores, Quit(c)
        PROVE  Kept
    BY <2>4 DEF Quit
  <2>5. CASE UNCHANGED vars
    BY <2>5 DEF vars
  <2> QED
    BY <2>1, <2>2, <2>3, <2>4, <2>5 DEF StepCases
<1>2. QED
  BY InvariantHolds, <1>1, PTL DEF Spec, NoReuseUnderCall

-----------------------------------------------------------------------------
(* The token protocol implements a lock per handle.                        *)

LEMMA LockStep ==
  ScopedMain /\ SingleCore /\ IInv /\ [Next]_vars => [Lock!LockNext]_<<open, polling>>
<1> SUFFICES ASSUME ScopedMain, SingleCore, IInv, StepCases, ExclusivePolling'
             PROVE  Lock!LockNext \/ UNCHANGED <<open, polling>>
  BY ExclusiveStep
<1> USE ClientAssumption DEF IInv, Ownership
<1>1. ASSUME NEW p \in Ptrs, NEW k \in Slots, NEW c \in Cores,
             NEW m \in {"Uninit", "Client", "Plugin"}, NEW w \in BOOLEAN,
             NEW r \in Threads \cup {None}, MintStep(p, k, c, m, w, r)
      PROVE  Lock!LockNext \/ UNCHANGED <<open, polling>>
  <2>1. UNCHANGED polling
    BY <1>1 DEF MintStep, polling, Polling
  <2>2. p \notin open
    BY <1>1 DEF MintStep, Mint, open, Shared
  <2>3. open' = open \/ open' = open \cup {p}
    BY <1>1 DEF MintStep, Mint, open, Shared, Typed
  <2> QED
    BY <2>1, <2>2, <2>3 DEF Lock!LockNext, Lock!Open
<1>2. ASSUME NEW t \in Threads, NEW p \in Ptrs, DestroyStep(t, p)
      PROVE  Lock!LockNext \/ UNCHANGED <<open, polling>>
  <2>1. UNCHANGED polling
    BY <1>2 DEF DestroyStep, Destroy, polling, Polling, Typed
  <2>2. ~Lock!Held(p)
    BY <1>2 DEF DestroyStep, Lock!Held, polling, Polling
  <2>3. open' = open \ {p}
    BY <1>2 DEF DestroyStep, Destroy, open, Shared, Typed
  <2> QED
    BY <2>1, <2>2, <2>3 DEF Lock!LockNext, Lock!Close
<1>3. ASSUME NEW t \in Threads, InitializeOk(t)
      PROVE  Lock!LockNext \/ UNCHANGED <<open, polling>>
  <2>1. UNCHANGED polling
    BY <1>3 DEF InitializeOk, polling, Polling, Typed
  <2>2. at[t] \in Ptrs /\ at[t] \notin open /\ open' = open \cup {at[t]}
    BY <1>3 DEF InitializeOk, open, Shared, Typed, Placed, HandleAlive
  <2> QED
    BY <2>1, <2>2 DEF Lock!LockNext, Lock!Open
<1>4. ASSUME NEW t \in Threads, NEW p \in Ptrs, NEW k \in Slots, WaitCall(t, p, k)
      PROVE  Lock!LockNext \/ UNCHANGED <<open, polling>>
  <2>1. UNCHANGED open /\ p \in open
    BY <1>4 DEF WaitCall, open, Shared
  <2>2. polling' = polling \cup {<<t, p>>}
    BY <1>4 DEF WaitCall, polling, Polling, Typed
  <2>3. ~Lock!Holds(t)
    BY <1>4 DEF WaitCall, Lock!Holds, polling, Polling
  <2>4. ~Lock!Held(p)
    BY <1>4 DEF WaitCall, Lock!Held, polling, Polling, ExclusivePolling, Typed
  <2> QED
    BY <2>1, <2>2, <2>3, <2>4 DEF Lock!LockNext, Lock!Acquire
<1>5. ASSUME NEW t \in Threads, DropEvent(t)
      PROVE  Lock!LockNext \/ UNCHANGED <<open, polling>>
  <2>1. UNCHANGED open
    BY <1>5 DEF DropEvent, open, Shared
  <2>2. at[t] \in Ptrs /\ <<t, at[t]>> \in polling /\ polling' = polling \ {<<t, at[t]>>}
    BY <1>5 DEF DropEvent, polling, Polling, Placed, Typed
  <2> QED
    BY <2>1, <2>2 DEF Lock!LockNext, Lock!Release
<1>6. ASSUME NEW t \in Threads, NEW p \in Ptrs, NEW k \in Slots, WaitMismatch(t, p, k)
      PROVE  Lock!LockNext \/ UNCHANGED <<open, polling>>
  <2>1. UNCHANGED open
    BY <1>6 DEF WaitMismatch, open, Shared
  <2>2. polling' = {} \/ polling' = polling
    BY <1>6 DEF WaitMismatch, polling, Polling, Typed
  <2> QED
    BY <2>1, <2>2 DEF Lock!LockNext, Lock!Abort
<1>7. ASSUME NEW t \in Threads, NEW p \in Ptrs, InitializeCall(t, p) \/ CallBegin(t, p)
      PROVE  UNCHANGED <<open, polling>>
  BY <1>7 DEF open, polling, Shared, Polling, Typed, InitializeCall, CallBegin
<1>8. ASSUME NEW t \in Threads,
             DestroyReturn(t) \/ CallReturn(t) \/ WaitReturn(t)
      PROVE  UNCHANGED <<open, polling>>
  <2>1. UNCHANGED open
    BY <1>8 DEF open, Shared, Typed, HandleAlive, DestroyReturn, CallReturn, WaitReturn
  <2>2. UNCHANGED polling
    BY <1>8 DEF polling, Polling, Typed, DestroyReturn, CallReturn, WaitReturn
  <2> QED
    BY <2>1, <2>2
<1>9. CASE UNCHANGED vars \/ \E c \in Cores : Quit(c)
  BY <1>9 DEF vars, Quit, open, polling, Shared, Polling
<1>10. ASSUME NEW t \in Threads, NEW k \in Slots, DropToken(t, k)
       PROVE  UNCHANGED <<open, polling>>
  BY <1>10 DEF open, polling, Shared, Polling, DropToken
<1>11. ASSUME NEW t \in Threads, ThreadOnly(t)
       PROVE  Lock!LockNext \/ UNCHANGED <<open, polling>>
  BY <1>3, <1>4, <1>5, <1>6, <1>7, <1>8, <1>10, <1>11 DEF ThreadOnly
<1>12. QED
  BY <1>1, <1>2, <1>9, <1>11 DEF StepCases

\* With one core, every program implements the lock that module PollLock
\* states: this is what EventQueueToken is for.
THEOREM TokensImplementLock == ScopedMain /\ SingleCore => (Spec => ImplementsLock)
<1> SUFFICES ASSUME ScopedMain, SingleCore PROVE Spec => ImplementsLock
  OBVIOUS
<1>1. Init => Lock!LockInit
  BY DEF Init, Lock!LockInit, open, polling, Shared, Polling
<1>2. IInv /\ [Next]_vars => [Lock!LockNext]_<<open, polling>>
  BY LockStep
<1>3. QED
  BY InvariantHolds, <1>1, <1>2, PTL DEF Spec, ImplementsLock, Lock!Spec, Lock!lockVars

=============================================================================
