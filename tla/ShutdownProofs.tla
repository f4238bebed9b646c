--------------------------- MODULE ShutdownProofs ---------------------------
(***************************************************************************)
(* Theorems about module Shutdown for any number of threads, any of which  *)
(* may have a strong client, and any bound on the clients of a thread.     *)
(***************************************************************************)
EXTENDS Shutdown, SequenceTheorems, TLAPS

Kinds == {"strong", "weak"}

-----------------------------------------------------------------------------
(* The sequence of the clients of a thread.                                *)

\* A bounded sequence is a sequence that is short enough.
LEMMA BoundedSeqIs ==
  ASSUME NEW S, NEW n \in Nat, NEW s
  PROVE  s \in BoundedSeq(S, n) <=> s \in Seq(S) /\ Len(s) <= n
<1>1. ASSUME s \in BoundedSeq(S, n)
      PROVE  s \in Seq(S) /\ Len(s) <= n
  <2>1. PICK m \in 0..n : s \in [1..m -> S]
    BY <1>1 DEF BoundedSeq, SeqOf
  <2>2. m \in Nat /\ s \in Seq(S)
    BY <2>1, SeqDef
  <2>3. Len(s) = m
    BY <2>1, <2>2, LenProperties
  <2> QED
    BY <2>1, <2>2, <2>3
<1>2. ASSUME s \in Seq(S), Len(s) <= n
      PROVE  s \in BoundedSeq(S, n)
  <2>1. Len(s) \in 0..n /\ s \in [1..Len(s) -> S]
    BY <1>2, LenProperties
  <2> QED
    BY <2>1 DEF BoundedSeq, SeqOf
<1> QED
  BY <1>1, <1>2

\* r is s with e at its end, and r is s without its element number i.
Appended(s, e, r) ==
  /\ r \in Seq(Kinds) /\ Len(r) = Len(s) + 1
  /\ \A j \in 1..Len(s) : r[j] = s[j]
  /\ r[Len(s) + 1] = e

Removed(s, i, r) ==
  /\ r \in Seq(Kinds) /\ Len(r) = Len(s) - 1
  /\ \A j \in 1..Len(s) - 1 : r[j] = IF j < i THEN s[j] ELSE s[j + 1]

LEMMA AppendAppends ==
  ASSUME NEW s \in Seq(Kinds), NEW e \in Kinds
  PROVE  Appended(s, e, Append(s, e))
BY AppendProperties DEF Appended

LEMMA RemoveAtRemoves ==
  ASSUME NEW s \in Seq(Kinds), NEW i \in 1..Len(s)
  PROVE  Removed(s, i, RemoveAt(s, i))
<1> DEFINE n == Len(s)
<1>1. n \in Nat /\ i \in 1..n /\ \A j \in 1..n : s[j] \in Kinds
  BY ElementOfSeq, LenProperties
<1> DEFINE front == SubSeq(s, 1, i - 1)
           back == SubSeq(s, i + 1, n)
<1>2. /\ front \in Seq(Kinds) /\ Len(front) = i - 1
      /\ \A j \in 1..i - 1 : front[j] = s[j]
  <2>1. 1 \in Int /\ i - 1 \in Int /\ \A j \in 1..i - 1 : s[j] \in Kinds
    BY <1>1
  <2>2. /\ front \in Seq(Kinds) /\ Len(front) = IF 1 <= i - 1 THEN (i - 1) - 1 + 1 ELSE 0
        /\ \A j \in 1..(i - 1) - 1 + 1 : front[j] = s[1 + j - 1]
    BY <2>1, SubSeqProperties
  <2> HIDE DEF front, n
  <2>3. (i - 1) - 1 + 1 = i - 1 /\ (1 <= i - 1 \/ i - 1 = 0) /\ \A j \in 1..i - 1 : 1 + j - 1 = j
    BY <1>1
  <2> QED
    BY <2>2, <2>3
<1>3. /\ back \in Seq(Kinds) /\ Len(back) = n - i
      /\ \A j \in 1..n - i : back[j] = s[i + j]
  <2>1. i + 1 \in Int /\ n \in Int /\ \A j \in i + 1..n : s[j] \in Kinds
    BY <1>1
  <2>2. /\ back \in Seq(Kinds) /\ Len(back) = IF i + 1 <= n THEN n - (i + 1) + 1 ELSE 0
        /\ \A j \in 1..n - (i + 1) + 1 : back[j] = s[(i + 1) + j - 1]
    BY <2>1, SubSeqProperties
  <2> HIDE DEF back, n
  <2>3. n - (i + 1) + 1 = n - i /\ (i + 1 <= n \/ n - i = 0) /\ \A j \in 1..n - i : (i + 1) + j - 1 = i + j
    BY <1>1
  <2> QED
    BY <2>2, <2>3
<1>4. RemoveAt(s, i) = front \o back
  BY DEF RemoveAt
<1> HIDE DEF front, back, n
<1>5. /\ front \o back \in Seq(Kinds) /\ Len(front \o back) = Len(front) + Len(back)
      /\ \A j \in 1..Len(front) + Len(back) :
            (front \o back)[j] = IF j <= Len(front) THEN front[j] ELSE back[j - Len(front)]
  BY <1>2, <1>3, ConcatProperties
<1>6. Len(front) + Len(back) = n - 1
  BY <1>1, <1>2, <1>3
<1>7. ASSUME NEW j \in 1..n - 1
      PROVE  (front \o back)[j] = IF j < i THEN s[j] ELSE s[j + 1]
  <2>1. CASE j < i
    BY <1>1, <1>2, <1>5, <1>6, <2>1
  <2>2. CASE ~(j < i)
    <3>1. j - (i - 1) \in 1..n - i /\ i + (j - (i - 1)) = j + 1 /\ ~(j <= i - 1)
      BY <1>1, <2>2
    <3>2. (front \o back)[j] = back[j - (i - 1)]
      BY <1>2, <1>5, <1>6, <3>1
    <3> QED
      BY <1>3, <2>2, <3>1, <3>2
  <2> QED
    BY <2>1, <2>2
<1> QED
  BY <1>4, <1>5, <1>6, <1>7 DEF Removed, n

\* Every strong client lies beneath every weak one.
StrongBelow(s) == \A i, j \in 1..Len(s) : i < j /\ s[i] = "weak" => s[j] = "weak"

LEMMA AppendedBelow ==
  ASSUME NEW s \in Seq(Kinds), NEW e \in Kinds, NEW r, Appended(s, e, r), StrongBelow(s),
         e = "strong" => \A i \in 1..Len(s) : s[i] # "weak"
  PROVE  StrongBelow(r)
<1>1. Len(s) \in Nat /\ Len(r) = Len(s) + 1
  BY LenProperties DEF Appended
<1> SUFFICES ASSUME NEW i \in 1..Len(r), NEW j \in 1..Len(r), i < j, r[i] = "weak"
             PROVE  r[j] = "weak"
  BY DEF StrongBelow
<1>2. i \in 1..Len(s) /\ s[i] = "weak"
  BY <1>1 DEF Appended
<1>3. CASE j = Len(s) + 1
  BY <1>2, <1>3 DEF Appended, Kinds
<1>4. CASE j # Len(s) + 1
  BY <1>1, <1>2, <1>4 DEF Appended, StrongBelow
<1> QED
  BY <1>3, <1>4

LEMMA RemovedBelow ==
  ASSUME NEW s \in Seq(Kinds), NEW n \in 1..Len(s), NEW r, Removed(s, n, r), StrongBelow(s)
  PROVE  StrongBelow(r)
<1>1. Len(s) \in Nat /\ Len(r) = Len(s) - 1
  BY LenProperties DEF Removed
<1> SUFFICES ASSUME NEW i \in 1..Len(r), NEW j \in 1..Len(r), i < j, r[i] = "weak"
             PROVE  r[j] = "weak"
  BY DEF StrongBelow
<1> DEFINE old(k) == IF k < n THEN k ELSE k + 1
<1>2. old(i) \in 1..Len(s) /\ old(j) \in 1..Len(s) /\ old(i) < old(j)
  BY <1>1
<1>3. r[i] = s[old(i)] /\ r[j] = s[old(j)]
  BY <1>1 DEF Removed
<1> HIDE DEF old
<1> QED
  BY <1>2, <1>3 DEF StrongBelow

-----------------------------------------------------------------------------
(* Types.                                                                  *)

\* The type of Shutdown in the terms of the prover.
TypeInv ==
  /\ owned \in [Threads -> Seq(Kinds)]
  /\ \A t \in Threads : Len(owned[t]) <= MaxOwned
  /\ pc \in [Threads -> {"loop", "leaving", "done"}]
  /\ dying \in [Threads -> {"none", "last", "other"}]
  /\ core \in {"running", "shutdown"}
  /\ mixed \subseteq Threads

LEMMA TypeInvIs == TypeInv <=> TypeOK
<1>1. MaxOwned \in Nat
  BY ShutdownAssumption
<1>2. TypeInv => owned \in [Threads -> BoundedSeq(Kinds, MaxOwned)]
  BY <1>1, BoundedSeqIs DEF TypeInv
<1>3. owned \in [Threads -> BoundedSeq(Kinds, MaxOwned)]
        => owned \in [Threads -> Seq(Kinds)] /\ \A t \in Threads : Len(owned[t]) <= MaxOwned
  BY <1>1, BoundedSeqIs
<1> QED
  BY <1>2, <1>3 DEF TypeInv, TypeOK, Kinds

LEMMA InitType == Init => TypeInv
<1>1. <<"strong">> \in Seq(Kinds) /\ <<"weak">> \in Seq(Kinds) /\ Len(<<"strong">>) = 1 /\ Len(<<"weak">>) = 1
  BY DEF Kinds
<1> QED
  BY <1>1, ShutdownAssumption DEF Init, TypeInv

\* A thread that takes a client is mixed from then on if the client is strong and there is
\* a weak one beneath it.
LEMMA Taken ==
  ASSUME NEW t \in Threads, NEW kind, Takes(t, kind), mixed \subseteq Threads
  PROVE  /\ mixed \subseteq mixed' /\ mixed' \subseteq Threads
         /\ t \notin mixed' /\ kind = "strong" => \A i \in 1..Len(owned[t]) : owned[t][i] # "weak"
BY DEF Takes, Owns

\* What making, passing on and dropping a client do to the lists.
LEMMA Created ==
  ASSUME TypeInv, NEW t \in Threads, NEW kind \in Kinds, Create(t, kind)
  PROVE  /\ core = "running" /\ Takes(t, kind) /\ UNCHANGED <<pc, dying, core>>
         /\ owned' \in [Threads -> Seq(Kinds)]
         /\ \A u \in Threads \ {t} : owned'[u] = owned[u]
         /\ Appended(owned[t], kind, owned'[t])
<1>1. core = "running" /\ MpvCreate(kind) = kind
  BY DEF Create, MpvCreate
<1>2. owned' = [owned EXCEPT ![t] = Append(@, kind)]
  BY <1>1 DEF Create
<1>3. owned[t] \in Seq(Kinds)
  BY DEF TypeInv
<1>4. Appended(owned[t], kind, Append(owned[t], kind))
  BY <1>3, AppendAppends
<1> QED
  BY <1>1, <1>2, <1>3, <1>4 DEF Create, TypeInv, Appended

LEMMA Given ==
  ASSUME TypeInv, NEW t \in Threads, NEW u \in Threads, NEW i \in 1..Len(owned[t]), Give(t, i, u)
  PROVE  /\ t # u /\ InLoop(t) /\ Takes(u, owned[t][i]) /\ UNCHANGED <<pc, dying, core>>
         /\ owned[t][i] \in Kinds
         /\ owned' \in [Threads -> Seq(Kinds)]
         /\ \A w \in Threads \ {t, u} : owned'[w] = owned[w]
         /\ Removed(owned[t], i, owned'[t])
         /\ Appended(owned[u], owned[t][i], owned'[u])
<1>1. owned[t] \in Seq(Kinds) /\ owned[u] \in Seq(Kinds) /\ owned[t][i] \in Kinds
  BY ElementOfSeq DEF TypeInv
<1>2. /\ t # u
      /\ owned' = [owned EXCEPT ![t] = RemoveAt(owned[t], i), ![u] = Append(owned[u], owned[t][i])]
  BY DEF Give
<1>3. owned'[t] = RemoveAt(owned[t], i) /\ owned'[u] = Append(owned[u], owned[t][i])
  BY <1>2 DEF TypeInv
<1>4. Removed(owned[t], i, RemoveAt(owned[t], i))
  BY <1>1, RemoveAtRemoves
<1>5. Appended(owned[u], owned[t][i], Append(owned[u], owned[t][i]))
  BY <1>1, AppendAppends
<1>6. owned' \in [Threads -> Seq(Kinds)] /\ \A w \in Threads \ {t, u} : owned'[w] = owned[w]
  BY <1>2, <1>4, <1>5 DEF TypeInv, Removed, Appended
<1> QED
  BY <1>1, <1>2, <1>3, <1>4, <1>5, <1>6 DEF Give

\* DropClient and EndScope both give the youngest client to mpv_destroy.
Youngest(t) == Destroy(t, Len(owned[t]))

LEMMA Dropped ==
  ASSUME TypeInv, NEW t \in Threads, Youngest(t)
  PROVE  /\ Len(owned[t]) \in Nat \ {0}
         /\ owned' \in [Threads -> Seq(Kinds)]
         /\ \A u \in Threads \ {t} : owned'[u] = owned[u]
         /\ Removed(owned[t], Len(owned[t]), owned'[t])
<1>1. owned[t] \in Seq(Kinds) /\ Len(owned[t]) \in Nat
  BY LenProperties DEF TypeInv
<1>2. Len(owned[t]) \in 1..Len(owned[t]) /\ owned' = [owned EXCEPT ![t] = RemoveAt(@, Len(owned[t]))]
  BY <1>1 DEF Youngest, Destroy
<1>3. Removed(owned[t], Len(owned[t]), RemoveAt(owned[t], Len(owned[t])))
  BY <1>1, <1>2, RemoveAtRemoves
<1> QED
  BY <1>1, <1>2, <1>3 DEF TypeInv, Removed

\* The kinds of steps.
LEMMA StepCases ==
  ASSUME TypeInv, [Next]_vars
  PROVE  \/ Quit
         \/ \E t \in Threads, kind \in Kinds : Create(t, kind)
         \/ \E t \in Threads : \E u \in Threads : \E i \in 1..Len(owned[t]) : Give(t, i, u)
         \/ \E t \in Threads : Leave(t)
         \/ \E t \in Threads : Youngest(t)
         \/ \E t \in Threads : DestroyReturn(t)
         \/ \E t \in Threads : Finish(t)
         \/ UNCHANGED vars
<1>1. CASE UNCHANGED vars
  BY <1>1
<1>2. CASE Quit
  BY <1>2
<1>3. ASSUME NEW t \in Threads, CreateStrong(t) \/ CreateWeak(t)
      PROVE  \E kind \in Kinds : Create(t, kind)
  BY <1>3 DEF CreateStrong, CreateWeak, Kinds
<1>4. ASSUME NEW t \in Threads, SeeShutdown(t)
      PROVE  Leave(t)
  BY <1>4 DEF SeeShutdown
<1>5. ASSUME NEW t \in Threads, DropClient(t) \/ EndScope(t)
      PROVE  Youngest(t)
  BY <1>5 DEF DropClient, EndScope, Youngest, Destroy
<1> QED
  BY <1>1, <1>2, <1>3, <1>4, <1>5 DEF Next

LEMMA StepType == TypeInv /\ [Next]_vars => TypeInv'
<1> SUFFICES ASSUME TypeInv, [Next]_vars PROVE TypeInv'
  OBVIOUS
<1>0. \A t \in Threads : Len(owned[t]) \in Nat
  BY LenProperties DEF TypeInv
<1>1. CASE Quit
  BY <1>1 DEF Quit, TypeInv
<1>2. ASSUME NEW t \in Threads, NEW kind \in Kinds, Create(t, kind)
      PROVE  TypeInv'
  <2>1. Len(owned'[t]) <= MaxOwned
    BY <1>0, <1>2, Created, ShutdownAssumption DEF Takes, Appended
  <2>2. mixed' \subseteq Threads
    BY <1>2, Created, Taken DEF TypeInv
  <2> QED
    BY <1>2, <2>1, <2>2, Created DEF TypeInv
<1>3. ASSUME NEW t \in Threads, NEW u \in Threads, NEW i \in 1..Len(owned[t]), Give(t, i, u)
      PROVE  TypeInv'
  <2>1. Len(owned'[u]) <= MaxOwned
    BY <1>0, <1>3, Given, ShutdownAssumption DEF Takes, Appended
  <2>2. Len(owned'[t]) <= MaxOwned
    <3>1. Len(owned'[t]) = Len(owned[t]) - 1
      BY <1>3, Given DEF Removed
    <3> QED
      BY <1>0, <3>1, ShutdownAssumption DEF TypeInv
  <2>3. mixed' \subseteq Threads
    <3>1. Takes(u, owned[t][i]) /\ mixed \subseteq Threads
      BY <1>3, Given DEF TypeInv
    <3> QED
      BY <3>1, Taken
  <2> QED
    BY <1>3, <2>1, <2>2, <2>3, Given DEF TypeInv
<1>4. ASSUME NEW t \in Threads, Leave(t)
      PROVE  TypeInv'
  BY <1>4 DEF Leave, TypeInv
<1>5. ASSUME NEW t \in Threads, Youngest(t)
      PROVE  TypeInv'
  <2>1. Len(owned'[t]) <= MaxOwned
    <3>1. Len(owned'[t]) = Len(owned[t]) - 1
      BY <1>5, Dropped DEF Removed
    <3> QED
      BY <1>0, <3>1, ShutdownAssumption DEF TypeInv
  <2>2. /\ pc' \in [Threads -> {"loop", "leaving", "done"}]
        /\ dying' \in [Threads -> {"none", "last", "other"}]
        /\ core' \in {"running", "shutdown"} /\ mixed' \subseteq Threads
    BY <1>5 DEF Youngest, Destroy, TypeInv
  <2> QED
    BY <1>5, <2>1, <2>2, Dropped DEF TypeInv
<1>6. ASSUME NEW t \in Threads, DestroyReturn(t) \/ Finish(t)
      PROVE  TypeInv'
  BY <1>6 DEF DestroyReturn, Finish, TypeInv
<1>7. CASE UNCHANGED vars
  BY <1>7 DEF vars, TypeInv
<1> QED
  BY <1>1, <1>2, <1>3, <1>4, <1>5, <1>6, <1>7, StepCases

\* Every variable of Shutdown keeps its type, and every Client has a handle.
THEOREM TypeCorrect == Spec => []TypeOK
BY InitType, StepType, TypeInvIs, PTL DEF Spec

-----------------------------------------------------------------------------
(* Who waits for whom.  A thread that is not mixed has its strong clients  *)
(* beneath its weak ones, whoever made them and passed them on, so nothing *)
(* is left of it when it drops the last strong one.                        *)

StrongBelowWeak == \A t \in Threads \ mixed : StrongBelow(owned[t])

WaitInv == StrongBelowWeak /\ WaitsForOthers

LEMMA StrongBelowWeakStep ==
  ASSUME TypeInv, StrongBelowWeak, [Next]_vars
  PROVE  StrongBelowWeak'
<1>2. /\ \A t \in Threads : owned[t] \in Seq(Kinds) /\ Len(owned[t]) \in Nat
      /\ \A t \in Threads \ mixed : StrongBelow(owned[t])
  BY LenProperties DEF TypeInv, StrongBelowWeak
<1>3. ASSUME NEW t \in Threads, NEW kind \in Kinds, Create(t, kind)
      PROVE  StrongBelowWeak'
  <2>0. mixed \subseteq mixed' /\ Takes(t, kind)
    BY <1>3, Created, Taken DEF TypeInv
  <2>1. ASSUME t \notin mixed'
        PROVE  StrongBelow(owned'[t])
    <3>1. kind = "strong" => \A i \in 1..Len(owned[t]) : owned[t][i] # "weak"
      BY <2>0, <2>1, Taken DEF TypeInv
    <3> QED
      BY <1>2, <1>3, <2>0, <2>1, <3>1, Created, AppendedBelow
  <2>2. \A w \in Threads \ mixed' : StrongBelow(owned'[w])
    BY <1>2, <1>3, <2>0, <2>1, Created
  <2> QED
    BY <2>2 DEF StrongBelowWeak, StrongBelow
<1>4. ASSUME NEW t \in Threads, NEW u \in Threads, NEW i \in 1..Len(owned[t]), Give(t, i, u)
      PROVE  StrongBelowWeak'
  <2> DEFINE e == owned[t][i]
  <2>0. Takes(u, e) /\ e \in Kinds /\ Appended(owned[u], e, owned'[u])
    BY <1>4, Given
  <2> HIDE DEF e
  <2>1. mixed \subseteq mixed'
    BY <2>0, Taken DEF TypeInv
  <2>2. ASSUME t \notin mixed'
        PROVE  StrongBelow(owned'[t])
    BY <1>2, <1>4, <2>1, <2>2, Given, RemovedBelow
  <2>3. ASSUME u \notin mixed'
        PROVE  StrongBelow(owned'[u])
    <3>1. e = "strong" => \A j \in 1..Len(owned[u]) : owned[u][j] # "weak"
      BY <2>0, <2>3, Taken DEF TypeInv
    <3> QED
      BY <1>2, <2>0, <2>1, <2>3, <3>1, AppendedBelow
  <2>4. \A w \in Threads \ {t, u} : owned'[w] = owned[w]
    BY <1>4, Given
  <2>5. \A w \in Threads \ mixed' : StrongBelow(owned'[w])
    BY <1>2, <2>1, <2>2, <2>3, <2>4
  <2> QED
    BY <2>5 DEF StrongBelowWeak, StrongBelow
<1>5. ASSUME NEW t \in Threads, Youngest(t)
      PROVE  StrongBelowWeak'
  <2>1. Len(owned[t]) \in 1..Len(owned[t]) /\ mixed' = mixed
    BY <1>5, Dropped DEF Youngest, Destroy
  <2>2. t \notin mixed => StrongBelow(owned'[t])
    BY <1>2, <1>5, <2>1, Dropped, RemovedBelow
  <2>3. \A w \in Threads \ mixed' : StrongBelow(owned'[w])
    BY <1>2, <1>5, <2>1, <2>2, Dropped
  <2> QED
    BY <2>3 DEF StrongBelowWeak, StrongBelow
<1>6. ASSUME UNCHANGED <<owned, mixed>>
      PROVE  StrongBelowWeak'
  BY <1>6 DEF StrongBelowWeak, StrongBelow
<1> QED
  BY <1>3, <1>4, <1>5, <1>6, StepCases DEF Quit, Leave, DestroyReturn, Finish, vars

\* A strong client is not the first thing that goes while there are others beneath it.
LEMMA LastIsAlone ==
  ASSUME TypeInv, StrongBelowWeak, NEW t \in Threads \ mixed, Youngest(t),
         owned[t][Len(owned[t])] = "strong", ~StrongLeft'
  PROVE  owned'[t] = <<>>
<1> DEFINE n == Len(owned[t])
<1>1. n \in Nat \ {0} /\ owned[t] \in Seq(Kinds) /\ owned'[t] \in Seq(Kinds) /\ Removed(owned[t], n, owned'[t])
  BY Dropped DEF TypeInv
<1>2. Len(owned'[t]) = n - 1 /\ (n > 1 => owned'[t][1] = owned[t][1])
  BY <1>1 DEF Removed
<1>3. ASSUME n > 1
      PROVE  owned[t][1] = "strong"
  <2>1. 1 \in 1..n /\ n \in 1..n /\ owned[t][1] \in Kinds
    BY <1>1, <1>3, ElementOfSeq
  <2>2. owned[t][1] # "weak"
    BY <1>3, <2>1 DEF StrongBelowWeak, StrongBelow
  <2> QED
    BY <2>1, <2>2 DEF Kinds
<1>4. n = 1
  <2>1. ~(n > 1)
    <3> SUFFICES ASSUME n > 1 PROVE FALSE
      OBVIOUS
    <3>1. 1 \in 1..Len(owned'[t]) /\ owned'[t][1] = "strong"
      BY <1>1, <1>2, <1>3
    <3> QED
      BY <3>1 DEF StrongLeft, Owns
  <2> HIDE DEF n
  <2>2. n \in Nat \ {0}
    BY <1>1
  <2> QED
    BY <2>1, <2>2
<1>5. Len(owned'[t]) = 0
  BY <1>2, <1>4
<1> QED
  BY <1>1, <1>5, EmptySeq

\* Without strong clients a drop leaves none, and neither does a gift.
LEMMA NoneAppears ==
  ASSUME TypeInv, ~StrongLeft,
         \/ \E t \in Threads : Youngest(t)
         \/ \E t \in Threads : \E u \in Threads : \E i \in 1..Len(owned[t]) : Give(t, i, u)
  PROVE  ~StrongLeft'
<1>0. \A t \in Threads : Len(owned[t]) \in Nat
  BY LenProperties DEF TypeInv
<1>1. \A t \in Threads : \A i \in 1..Len(owned[t]) : owned[t][i] # "strong"
  BY DEF StrongLeft, Owns
<1>2. ASSUME NEW t \in Threads, NEW i \in 1..Len(owned[t]), Removed(owned[t], i, owned'[t])
      PROVE  \A j \in 1..Len(owned'[t]) : owned'[t][j] # "strong"
  <2> SUFFICES ASSUME NEW j \in 1..Len(owned'[t]) PROVE owned'[t][j] # "strong"
    OBVIOUS
  <2>1. Len(owned[t]) \in Nat /\ j \in 1..Len(owned[t]) - 1
    BY <1>0, <1>2 DEF Removed
  <2>2. owned'[t][j] = IF j < i THEN owned[t][j] ELSE owned[t][j + 1]
    BY <1>2, <2>1 DEF Removed
  <2> QED
    BY <1>1, <2>1, <2>2
<1>3. ASSUME NEW t \in Threads, Youngest(t)
      PROVE  ~StrongLeft'
  <2>1. Len(owned[t]) \in 1..Len(owned[t])
    BY <1>3, Dropped
  <2>2. \A u \in Threads : \A j \in 1..Len(owned'[u]) : owned'[u][j] # "strong"
    BY <1>1, <1>2, <1>3, <2>1, Dropped
  <2> QED
    BY <2>2 DEF StrongLeft, Owns
<1>4. ASSUME NEW t \in Threads, NEW u \in Threads, NEW i \in 1..Len(owned[t]), Give(t, i, u)
      PROVE  ~StrongLeft'
  <2>1. \A j \in 1..Len(owned'[u]) : owned'[u][j] # "strong"
    <3> SUFFICES ASSUME NEW j \in 1..Len(owned'[u]) PROVE owned'[u][j] # "strong"
      OBVIOUS
    <3>1. Appended(owned[u], owned[t][i], owned'[u])
      BY <1>4, Given
    <3>2. j \in 1..Len(owned[u]) \/ j = Len(owned[u]) + 1
      BY <1>0, <3>1 DEF Appended
    <3>3. (owned'[u][j] = owned[u][j] /\ j \in 1..Len(owned[u])) \/ owned'[u][j] = owned[t][i]
      BY <3>1, <3>2 DEF Appended
    <3> QED
      BY <1>1, <3>3
  <2>2. \A j \in 1..Len(owned'[t]) : owned'[t][j] # "strong"
    BY <1>2, <1>4, Given
  <2>3. \A w \in Threads : \A j \in 1..Len(owned'[w]) : owned'[w][j] # "strong"
    BY <1>1, <1>4, <2>1, <2>2, Given
  <2> QED
    BY <2>3 DEF StrongLeft, Owns
<1> QED
  BY <1>3, <1>4

LEMMA WaitsForOthersStep ==
  ASSUME TypeInv, WaitInv, [Next]_vars
  PROVE  WaitsForOthers'
<1> DEFINE Alone(w) == /\ core' = "shutdown" /\ (w \in mixed' \/ owned'[w] = <<>>) /\ ~StrongLeft'
                       /\ \A u \in Threads \ {w} : dying'[u] # "last"
<1> SUFFICES ASSUME NEW w \in Threads, dying'[w] = "last"
             PROVE  Alone(w)
  BY DEF WaitsForOthers
<1>1. ASSUME dying[w] = "last"
      PROVE  /\ core = "shutdown" /\ (w \in mixed \/ owned[w] = <<>>) /\ ~StrongLeft
             /\ \A u \in Threads \ {w} : dying[u] # "last"
  BY <1>1 DEF WaitInv, WaitsForOthers
<1>2. ASSUME UNCHANGED <<owned, dying, mixed>>, core' = core \/ core' = "shutdown"
      PROVE  Alone(w)
  BY <1>1, <1>2 DEF StrongLeft, Owns
<1>3. ASSUME NEW t \in Threads, NEW kind \in Kinds, Create(t, kind)
      PROVE  Alone(w)
  BY <1>1, <1>3, Created
<1>4. ASSUME NEW t \in Threads, NEW u \in Threads, NEW i \in 1..Len(owned[t]), Give(t, i, u)
      PROVE  Alone(w)
  <2>1. w # t /\ w # u /\ dying[w] = "last"
    BY <1>4, Given DEF InLoop, Takes
  <2>2. ~StrongLeft'
    BY <1>1, <1>4, <2>1, NoneAppears
  <2>3. mixed \subseteq mixed'
    BY <1>4, Given, Taken DEF TypeInv
  <2> QED
    BY <1>1, <1>4, <2>1, <2>2, <2>3, Given
<1>5. ASSUME NEW t \in Threads, Youngest(t)
      PROVE  Alone(w)
  <2> DEFINE last == owned[t][Len(owned[t])] = "strong" /\ ~StrongLeft'
  <2>1. /\ dying' = [dying EXCEPT ![t] = IF last THEN "last" ELSE "other"]
        /\ core' = IF last THEN "shutdown" ELSE core
        /\ mixed' = mixed
    BY <1>5 DEF Youngest, Destroy
  <2> HIDE DEF last
  <2>2. /\ dying'[t] = "last" <=> last
        /\ \A u \in Threads \ {t} : dying'[u] = dying[u]
    BY <2>1 DEF TypeInv
  <2>3. CASE last
    <3>1. (t \in mixed \/ owned'[t] = <<>>) /\ ~StrongLeft'
      BY <1>5, <2>3, LastIsAlone DEF last, WaitInv
    <3>2. StrongLeft
      <4>1. Len(owned[t]) \in 1..Len(owned[t])
        BY <1>5, Dropped
      <4> QED
        BY <2>3, <4>1 DEF last, StrongLeft, Owns
    <3>3. \A u \in Threads : dying[u] # "last"
      BY <3>2 DEF WaitInv, WaitsForOthers
    <3>4. w = t
      BY <2>2, <3>3
    <3> QED
      BY <2>1, <2>2, <2>3, <3>1, <3>3, <3>4
  <2>4. CASE ~last
    <3>1. w # t /\ dying[w] = "last"
      BY <2>2, <2>4
    <3>2. ~StrongLeft'
      BY <1>1, <1>5, <3>1, NoneAppears
    <3>3. owned'[w] = owned[w]
      BY <1>5, <3>1, Dropped
    <3> QED
      BY <1>1, <2>1, <2>2, <2>4, <3>1, <3>2, <3>3
  <2> QED
    BY <2>3, <2>4
<1>6. ASSUME NEW t \in Threads, DestroyReturn(t)
      PROVE  Alone(w)
  <2>1. w # t /\ dying[w] = "last"
    BY <1>6 DEF DestroyReturn, TypeInv
  <2>2. \A u \in Threads : dying'[u] = "last" => dying[u] = "last"
    BY <1>6 DEF DestroyReturn, TypeInv
  <2>3. UNCHANGED <<owned, core, mixed>>
    BY <1>6 DEF DestroyReturn
  <2> QED
    BY <1>1, <2>1, <2>2, <2>3 DEF StrongLeft, Owns
<1>7. CASE Quit \/ (\E t \in Threads : Leave(t) \/ Finish(t)) \/ UNCHANGED vars
  BY <1>2, <1>7 DEF Quit, Leave, Finish, vars
<1> HIDE DEF Alone
<1> QED
  BY <1>3, <1>4, <1>5, <1>6, <1>7, StepCases

\* A thread that waits in mpv_destroy waits for weak clients only, no other thread waits
\* there, and unless it got a strong client while it had a weak one it waits for none of
\* its own: the core can go down (lib.rs 978-984).
THEOREM WaitersWaitForOthers == Spec => []WaitsForOthers
<1>1. Init => WaitInv
  <2>1. StrongBelow(<<"strong">>) /\ StrongBelow(<<"weak">>)
    BY DEF StrongBelow
  <2>2. Init => StrongBelowWeak
    BY <2>1 DEF Init, StrongBelowWeak
  <2> QED
    BY <2>2 DEF Init, WaitInv, WaitsForOthers
<1>2. TypeInv /\ WaitInv /\ [Next]_vars => WaitInv'
  BY StrongBelowWeakStep, WaitsForOthersStep DEF WaitInv
<1>3. WaitInv => WaitsForOthers
  BY DEF WaitInv
<1> QED
  BY <1>1, <1>2, <1>3, InitType, StepType, PTL DEF Spec

=============================================================================
