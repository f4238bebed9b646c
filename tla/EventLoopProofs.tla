-------------------------- MODULE EventLoopProofs --------------------------
(***************************************************************************)
(* Theorems about module EventLoop for any requests, observations, hooks,   *)
(* playlist entries, capacity of the queue and budget.                     *)
(***************************************************************************)
EXTENDS EventLoop, FiniteSetTheorems, SequenceTheorems, TLAPS

-----------------------------------------------------------------------------
(* The operators of the model.                                             *)

\* The variant of an event tells the ids the loop looks at from all others.
LEMMA VariantIs ==
  ASSUME NEW id
  PROVE  /\ Variant(id) = "Shutdown" <=> id = "SHUTDOWN"
         /\ Variant(id) = "QueueOverflow" <=> id = "QUEUE_OVERFLOW"
         /\ Variant(id) = "StartFile" <=> id = "START_FILE"
         /\ Variant(id) = "EndFile" <=> id = "END_FILE"
         /\ Variant(id) = "Hook" <=> id = "HOOK"
         /\ Variant(id) = "PropertyChange" <=> id = "PROPERTY_CHANGE"
         /\ Variant(id) \in {"GetPropertyReply", "SetPropertyReply", "CommandReply"}
              <=> id \in Replies
BY DEF Variant, Arms, Replies

\* An event that has a variant is named by the id it came with.
LEMMA EventIdOfVariant ==
  ASSUME NEW id, Variant(id) # "None"
  PROVE  EventId(Variant(id)) = id
BY DEF Variant, EventId, Arms, Ids

\* No result is mistaken for the absence of one.
LEMMA NoneIsNoResult == None # Ok /\ \A code \in Int : None # ErrorFrom(code)
<1>1. None \notin [tag : {"Ok", "Nul", "MpvKnown", "MpvUnknown"}, code : Int]
  BY EventLoopAssumption
<1>2. Ok \in [tag : {"Ok", "Nul", "MpvKnown", "MpvUnknown"}, code : Int]
  BY DEF Ok
<1>3. \A code \in Int : ErrorFrom(code) \in [tag : {"Ok", "Nul", "MpvKnown", "MpvUnknown"}, code : Int]
  BY DEF ErrorFrom
<1> QED
  BY <1>1, <1>2, <1>3

\* What the data of an event is, by its id.
LEMMA RawEventIs ==
  ASSUME NEW e \in RawEvents
  PROVE  /\ e.id \in Replies => /\ e.user \in Requests /\ e.error \in Outcomes
                                /\ e = Raw(ReplyOf[e.user], e.user, e.error, None)
         /\ e.id = "PROPERTY_CHANGE" =>
              \E o \in Observations, v \in Values \cup {None} : e.data = PropertyEvent(NameOf[o], v)
         /\ e.id = "START_FILE" => \E entry \in Entries : e.data = StartFileEvent(entry)
         /\ e.id = "END_FILE" =>
              \E entry \in Entries, end \in Endings : e.data = EndFileEvent(entry, end)
<1>1. CASE \E r \in Requests, code \in Outcomes : e = Raw(ReplyOf[r], r, code, None)
  BY <1>1, EventLoopAssumption DEF Raw, Replies
<1>2. CASE \E id \in Notices \cup {"NONE", "SHUTDOWN", "QUEUE_OVERFLOW"} : e = Raw(id, None, 0, None)
  BY <1>2, EventLoopAssumption DEF Raw, Replies
<1>3. CASE \E id \in 1..Budget : e = Raw("HOOK", None, 0, HookEvent(id))
  BY <1>3 DEF Raw, Replies
<1>4. CASE \E entry \in Entries : e = Raw("START_FILE", None, 0, StartFileEvent(entry))
  BY <1>4 DEF Raw, Replies
<1>5. CASE \E entry \in Entries, end \in Endings :
             e = Raw("END_FILE", None, 0, EndFileEvent(entry, end))
  BY <1>5 DEF Raw, Replies
<1>6. CASE \E o \in Observations, v \in Values \cup {None} :
             e = Raw("PROPERTY_CHANGE", UserOf[o], 0, PropertyEvent(NameOf[o], v))
  BY <1>6 DEF Raw, Replies
<1> QED
  BY <1>1, <1>2, <1>3, <1>4, <1>5, <1>6 DEF RawEvents

-----------------------------------------------------------------------------
(* Type correctness.  The queue keeps within its capacity because an accepted *)
(* request keeps the place of its reply until the reply takes it.            *)

TypeInv == TypeOK /\ IsFiniteSet(inflight)

LEMMA ReplyCount ==
  ASSUME TypeInv, NEW r \in Requests
  PROVE  /\ Len(queue) \in Nat /\ Cardinality(inflight) \in Nat
         /\ IsFiniteSet(inflight \cup {r})
         /\ Cardinality(inflight \cup {r}) <= Cardinality(inflight) + 1
         /\ IsFiniteSet(inflight \ {r})
         /\ r \in inflight => Cardinality(inflight \ {r}) = Cardinality(inflight) - 1
<1>1. Len(queue) \in Nat /\ IsFiniteSet(inflight)
  BY DEF TypeInv, TypeOK
<1>2. Cardinality(inflight) \in Nat
  BY <1>1, FS_CardinalityType
<1>3. /\ IsFiniteSet(inflight \cup {r})
      /\ Cardinality(inflight \cup {r}) <= Cardinality(inflight) + 1
  <2>1. /\ IsFiniteSet(inflight \cup {r})
        /\ Cardinality(inflight \cup {r}) = IF r \in inflight THEN Cardinality(inflight)
                                            ELSE Cardinality(inflight) + 1
    BY <1>1, FS_AddElement, Zenon
  <2> QED
    BY <1>2, <2>1
<1>4. /\ IsFiniteSet(inflight \ {r})
      /\ r \in inflight => Cardinality(inflight \ {r}) = Cardinality(inflight) - 1
  BY <1>1, FS_RemoveElement
<1> QED
  BY <1>1, <1>2, <1>3, <1>4

LEMMA CapIsNat == Cap \in Nat /\ Budget \in Nat
BY EventLoopAssumption

LEMMA PostType ==
  ASSUME TypeInv, NEW e \in RawEvents, Post(e)
  PROVE  /\ queue' \in Seq(RawEvents) /\ choked' \in BOOLEAN
         /\ Len(queue') + Cardinality(inflight) <= Cap
<1>1. Len(queue) \in Nat /\ Cardinality(inflight) \in Nat
  BY FS_CardinalityType DEF TypeInv, TypeOK
<1>2. queue \in Seq(RawEvents) /\ choked \in BOOLEAN /\ Len(queue) + Cardinality(inflight) <= Cap
  BY DEF TypeInv, TypeOK
<1>3. CASE Room
  <2>1. queue' = Append(queue, e) /\ choked' = choked /\ Len(queue) + Cardinality(inflight) < Cap
    BY <1>3 DEF Post, Room
  <2> QED
    BY <1>1, <1>2, <2>1, AppendProperties, CapIsNat
<1>4. CASE ~Room
  BY <1>2, <1>4 DEF Post
<1> QED
  BY <1>3, <1>4

LEMMA InitType == Init => TypeInv
<1> SUFFICES ASSUME Init PROVE TypeInv
  OBVIOUS
<1>1. IsFiniteSet({}) /\ Cardinality({}) = 0
  BY FS_EmptySet
<1>2. NoRaw \in RawEvents
  BY DEF NoRaw, RawEvents
<1>3. muted \subseteq EventIds /\ off \subseteq Notices
  BY EventLoopAssumption DEF Init
<1>4. /\ Ok \in Results /\ <<>> \in Seq(Results) /\ <<>> \in Seq(RawEvents)
      /\ Len(queue) + Cardinality(inflight) <= Cap
  BY <1>1, EventLoopAssumption DEF Init, Results
<1>5. /\ pc \in {"run", "handle", "left", "done"} \cup Timeouts
      /\ raw \in RawEvents
      /\ worker \in {"free", "waitasync"}
      /\ sent \in [Requests -> Results \cup {None}]
      /\ answer \in [Requests -> Seq(Results)]
      /\ seen \in [Names -> Values \cup {None}]
  BY <1>2, <1>4 DEF Init
<1>6. /\ shown \in [entry : Entries \cup {None},
                    end : {None, Ok} \cup {ErrorFrom(e.error) : e \in Endings}]
      /\ played \in [entry : Entries \cup {None}, end : Endings \cup {None}]
  BY DEF Init, NoFile
<1>7. /\ held \in [Users -> Int]
      /\ outcome \in [Requests -> Outcomes \cup {None}]
      /\ value \in [Names -> Values \cup {None}]
      /\ budget \in 0..Budget
  BY EventLoopAssumption DEF Init
<1> QED
  BY <1>1, <1>3, <1>4, <1>5, <1>6, <1>7 DEF Init, TypeInv, TypeOK

\* The steps of the thread that issues requests, and the aborts.
LEMMA WorkerType ==
  ASSUME TypeInv, WorkerStep \/ \E r \in Requests : Abort(r)
  PROVE  TypeInv'
<1> USE DEF TypeInv
<1>1. ASSUME NEW r \in Requests, SendAsync(r)
      PROVE  TypeInv'
  <2>1. /\ Ok \in Results /\ ErrNul \in Results
        /\ Result(0) = Ok
        /\ Result(EventQueueFull) \in Results /\ Result(InvalidParameter) \in Results
    BY DEF Results, Result, EventQueueFull, InvalidParameter
  <2>2. sent' \in [Requests -> Results \cup {None}]
    BY <1>1, <2>1 DEF SendAsync, TypeOK
  <2>3. CASE UNCHANGED inflight
    BY <1>1, <2>2, <2>3 DEF SendAsync, TypeOK, loopVars, propertyVars, filterVars, playerVars
  <2>4. CASE Room /\ inflight' = inflight \cup {r}
    <3>1. IsFiniteSet(inflight') /\ Len(queue) + Cardinality(inflight') <= Cap
      <4>1. Len(queue) + Cardinality(inflight) < Cap /\ Cardinality(inflight') \in Nat
        BY <2>4, ReplyCount, FS_CardinalityType DEF Room
      <4>2. /\ Len(queue) \in Nat /\ Cardinality(inflight) \in Nat
            /\ IsFiniteSet(inflight') /\ Cardinality(inflight') <= Cardinality(inflight) + 1
        BY <2>4, ReplyCount
      <4> QED
        BY <4>1, <4>2, CapIsNat
    <3> QED
      BY <1>1, <2>2, <2>4, <3>1 DEF SendAsync, TypeOK, loopVars, propertyVars, filterVars, playerVars
  <2> QED
    BY <1>1, <2>3, <2>4 DEF SendAsync
<1>2. ASSUME NEW r \in Requests, Abort(r)
      PROVE  TypeInv'
  BY <1>2 DEF Abort, TypeOK, loopVars, workerVars, propertyVars, filterVars, playerVars
<1>3. ASSUME WaitAsyncCall \/ WaitAsyncReturn \/ Wakeup
      PROVE  TypeInv'
  BY <1>3 DEF WaitAsyncCall, WaitAsyncReturn, Wakeup, TypeOK, loopVars, workerVars, requestVars,
              propertyVars, filterVars, playerVars
<1>4. ASSUME NEW h \in Hooks, HookAdd(h)
      PROVE  TypeInv'
  BY <1>4 DEF HookAdd, TypeOK, loopVars, workerVars, requestVars, propertyVars, filterVars
<1>5. ASSUME NEW o \in Observations, NEW code \in {0, PropertyFormat}, Observe(o, code)
      PROVE  TypeInv'
  <2>1. held' \in [Users -> Int]
    BY <1>5 DEF Observe, TypeOK, Users
  <2> QED
    BY <1>5, <2>1 DEF Observe, TypeOK, loopVars, workerVars, requestVars, filterVars, playerVars
<1>6. ASSUME NEW u \in Users, Unobserve(u)
      PROVE  TypeInv'
  <2>1. Cardinality(Under(u)) \in Nat
    BY EventLoopAssumption, FS_Subset, FS_CardinalityType DEF TypeOK, Under
  <2>2. held' \in [Users -> Int]
    BY <1>6, <2>1 DEF Unobserve, TypeOK, ResultWithCode
  <2> QED
    BY <1>6, <2>2 DEF Unobserve, TypeOK, loopVars, workerVars, requestVars, filterVars, playerVars
<1>7. ASSUME NEW id \in Notices, WantEvent(id)
      PROVE  TypeInv'
  BY <1>7 DEF WantEvent, RequestEvent, TypeOK, loopVars, workerVars, requestVars, propertyVars, playerVars
<1> QED
  BY <1>1, <1>2, <1>3, <1>4, <1>5, <1>6, <1>7 DEF WorkerStep

LEMMA PlayerType ==
  ASSUME TypeInv, PlayerStep
  PROVE  TypeInv'
<1> USE DEF TypeInv
<1>1. ASSUME NEW r \in Requests, NEW code \in Outcomes, Reply(r, code)
      PROVE  TypeInv'
  <2>1. Raw(ReplyOf[r], r, code, None) \in RawEvents
    BY DEF RawEvents
  <2>2. /\ queue' \in Seq(RawEvents) /\ Len(queue') = Len(queue) + 1
        /\ outcome' \in [Requests -> Outcomes \cup {None}]
    BY <1>1, <2>1, AppendProperties DEF Reply, TypeOK
  <2>3. /\ Len(queue) \in Nat /\ Cardinality(inflight) \in Nat /\ IsFiniteSet(inflight')
        /\ Cardinality(inflight') = Cardinality(inflight) - 1
    BY <1>1, ReplyCount DEF Reply
  <2>4. Len(queue') + Cardinality(inflight') <= Cap
    BY <2>2, <2>3, CapIsNat DEF TypeOK
  <2> QED
    BY <1>1, <2>2, <2>3, <2>4 DEF Reply, TypeOK, loopVars, workerVars, propertyVars, filterVars, playerVars
<1>2. ASSUME NEW id \in Notices, Notify(id)
      PROVE  TypeInv'
  <2>1. Raw(id, None, 0, None) \in RawEvents
    BY DEF RawEvents
  <2>2. /\ queue' \in Seq(RawEvents) /\ choked' \in BOOLEAN
        /\ Len(queue') + Cardinality(inflight) <= Cap
    BY <1>2, <2>1, PostType DEF Notify, TypeOK
  <2> QED
    BY <1>2, <2>2, CapIsNat DEF Notify, Spend, TypeOK, loopVars, workerVars, requestVars, propertyVars,
                                filterVars
<1>3. ASSUME NEW p \in Names, NEW v \in Values \cup {None}, Change(p, v)
      PROVE  TypeInv'
  BY <1>3, CapIsNat DEF Change, Spend, TypeOK, loopVars, workerVars, requestVars, filterVars
<1>4. ASSUME NEW entry \in Entries, StartFile(entry)
      PROVE  TypeInv'
  <2>1. Raw("START_FILE", None, 0, StartFileEvent(entry)) \in RawEvents
    BY DEF RawEvents
  <2>2. /\ queue' \in Seq(RawEvents) /\ choked' \in BOOLEAN
        /\ Len(queue') + Cardinality(inflight) <= Cap
    BY <1>4, <2>1, PostType DEF StartFile
  <2> QED
    BY <1>4, <2>2, CapIsNat DEF StartFile, Spend, TypeOK, loopVars, workerVars, requestVars, propertyVars,
                                filterVars
<1>5. ASSUME NEW e \in Endings, EndFile(e)
      PROVE  TypeInv'
  <2>1. Raw("END_FILE", None, 0, EndFileEvent(played.entry, e)) \in RawEvents
    BY <1>5 DEF RawEvents, EndFile, TypeOK
  <2>2. /\ queue' \in Seq(RawEvents) /\ choked' \in BOOLEAN
        /\ Len(queue') + Cardinality(inflight) <= Cap
    BY <1>5, <2>1, PostType DEF EndFile
  <2> QED
    BY <1>5, <2>2, CapIsNat DEF EndFile, Spend, TypeOK, loopVars, workerVars, requestVars, propertyVars,
                                filterVars
<1>6. ASSUME NEW h \in Hooks, RunHook(h)
      PROVE  TypeInv'
  <2>1. budget \in 1..Budget /\ budget' \in 0..Budget
    BY <1>6, CapIsNat DEF RunHook, Spend, TypeOK
  <2>2. Raw("HOOK", None, 0, HookEvent(budget)) \in RawEvents
    BY <2>1 DEF RawEvents
  <2>3. /\ queue' \in Seq(RawEvents) /\ choked' \in BOOLEAN
        /\ Len(queue') + Cardinality(inflight) <= Cap
    BY <1>6, <2>2, PostType DEF RunHook
  <2> QED
    BY <1>6, <2>1, <2>3 DEF RunHook, TypeOK, loopVars, workerVars, requestVars, propertyVars, filterVars
<1>7. ASSUME Quit
      PROVE  TypeInv'
  BY <1>7 DEF Quit, TypeOK, loopVars, workerVars, requestVars, propertyVars, filterVars
<1>8. ASSUME SendShutdown
      PROVE  TypeInv'
  <2>1. Raw("SHUTDOWN", None, 0, None) \in RawEvents
    BY DEF RawEvents
  <2>2. /\ queue' \in Seq(RawEvents) /\ choked' \in BOOLEAN
        /\ Len(queue') + Cardinality(inflight) <= Cap
    BY <1>8, <2>1, PostType DEF SendShutdown
  <2> QED
    BY <1>8, <2>2 DEF SendShutdown, TypeOK, loopVars, workerVars, requestVars, propertyVars, filterVars,
                      playerVars
<1> QED
  BY <1>1, <1>2, <1>3, <1>4, <1>5, <1>6, <1>7, <1>8 DEF PlayerStep

\* What the loop makes of an event that answers a request, tells a property or a file.
LEMMA HandledType ==
  ASSUME TypeInv
  PROVE  /\ Event.tag \in {"GetPropertyReply", "SetPropertyReply", "CommandReply"} =>
              Event.user \in Requests /\ Event.res \in Results
         /\ Event.tag = "PropertyChange" => PropertyData(Event.data) \in Values \cup {None}
         /\ Shown = None \/ Shown \in [entry : Entries \cup {None},
                                       end : {None, Ok} \cup {ErrorFrom(e.error) : e \in Endings}]
<1>1. raw \in RawEvents
  BY DEF TypeInv, TypeOK
<1>2. ASSUME Event.tag \in {"GetPropertyReply", "SetPropertyReply", "CommandReply"}
      PROVE  Event.user \in Requests /\ Event.res \in Results
  <2>1. raw.id \in Replies
    BY <1>2, VariantIs DEF Event, FromPtr
  <2>2. raw.user \in Requests /\ raw.error \in Outcomes
    BY <1>1, <2>1, RawEventIs
  <2> QED
    BY <2>1, <2>2 DEF Event, FromPtr, Tagged, Results, Result
<1>3. ASSUME Event.tag = "PropertyChange"
      PROVE  PropertyData(Event.data) \in Values \cup {None}
  <2>1. raw.id = "PROPERTY_CHANGE"
    BY <1>3, VariantIs DEF Event, FromPtr
  <2>2. PICK o \in Observations, v \in Values \cup {None} : raw.data = PropertyEvent(NameOf[o], v)
    BY <1>1, <2>1, RawEventIs
  <2> QED
    BY <2>2 DEF Event, FromPtr, PropertyData, PropertyEvent
<1>4. ASSUME Event.tag = "StartFile"
      PROVE  PlaylistEntryId(Event.data) \in Entries
  <2>1. raw.id = "START_FILE"
    BY <1>4, VariantIs DEF Event, FromPtr
  <2>2. PICK entry \in Entries : raw.data = StartFileEvent(entry)
    BY <1>1, <2>1, RawEventIs
  <2> QED
    BY <2>2 DEF Event, FromPtr, PlaylistEntryId, StartFileEvent
<1>5. ASSUME Event.tag = "EndFile"
      PROVE  /\ PlaylistEntryId(Event.data) \in Entries
             /\ EndFileError(Event.data) \in {Ok} \cup {ErrorFrom(e.error) : e \in Endings}
  <2>1. raw.id = "END_FILE"
    BY <1>5, VariantIs DEF Event, FromPtr
  <2>2. PICK entry \in Entries, end \in Endings : raw.data = EndFileEvent(entry, end)
    BY <1>1, <2>1, RawEventIs
  <2> QED
    BY <2>2 DEF Event, FromPtr, PlaylistEntryId, EndFileEvent, EndFileError
<1>6. Shown = None \/ Shown \in [entry : Entries \cup {None},
                                 end : {None, Ok} \cup {ErrorFrom(e.error) : e \in Endings}]
  BY <1>4, <1>5 DEF Shown, TypeInv, TypeOK
<1> QED
  BY <1>2, <1>3, <1>6

\* A step that only the loop takes keeps the types of what it does not touch.
LEMMA ReturnType ==
  ASSUME TypeInv, NEW r \in RawEvents, Return(r), choked' \in BOOLEAN, dirty' \subseteq dirty,
         queue' \in Seq(RawEvents), Len(queue') <= Len(queue)
  PROVE  TypeInv'
<1>1. /\ Len(queue) \in Nat /\ Len(queue') \in Nat
      /\ Cardinality(inflight) \in Nat /\ Len(queue) + Cardinality(inflight) <= Cap
  BY FS_CardinalityType DEF TypeInv, TypeOK
<1>2. Len(queue') + Cardinality(inflight) <= Cap
  BY <1>1, CapIsNat
<1> QED
  BY <1>2 DEF Return, TypeInv, TypeOK, workerVars, requestVars, filterVars, playerVars

LEMMA LoopType ==
  ASSUME TypeInv, LoopStep
  PROVE  TypeInv'
<1>1. ASSUME NEW timeout \in Timeouts, WaitCall(timeout)
      PROVE  TypeInv'
  BY <1>1 DEF WaitCall, TypeInv, TypeOK, workerVars, requestVars, propertyVars, filterVars, playerVars
<1>2. ASSUME ReturnOverflow
      PROVE  TypeInv'
  <2>1. Raw("QUEUE_OVERFLOW", None, 0, None) \in RawEvents
    BY DEF RawEvents
  <2>2. queue \in Seq(RawEvents) /\ Len(queue) \in Nat
    BY DEF TypeInv, TypeOK
  <2>3. queue' = queue /\ dirty' = dirty /\ choked' = FALSE
    BY <1>2 DEF ReturnOverflow
  <2>4. Len(queue') <= Len(queue)
    BY <2>2, <2>3
  <2> QED
    BY <1>2, <2>1, <2>2, <2>3, <2>4, ReturnType DEF ReturnOverflow
<1>3. ASSUME ReturnQueued
      PROVE  TypeInv'
  <2>1. /\ Head(queue) \in RawEvents /\ Tail(queue) \in Seq(RawEvents)
        /\ Len(queue) \in Nat /\ Len(Tail(queue)) = Len(queue) - 1
    BY <1>3, HeadTailProperties DEF ReturnQueued, TypeInv, TypeOK
  <2>2. Len(queue') <= Len(queue)
    BY <1>3, <2>1 DEF ReturnQueued
  <2> QED
    BY <1>3, <2>1, <2>2, ReturnType DEF ReturnQueued, TypeInv, TypeOK
<1>4. ASSUME ReturnNone
      PROVE  TypeInv'
  <2>1. NoRaw \in RawEvents
    BY DEF RawEvents, NoRaw
  <2> QED
    BY <1>4, <2>1, ReturnType DEF ReturnNone, TypeInv, TypeOK
<1>5. ASSUME NEW o \in Observations, ReturnProperty(o)
      PROVE  TypeInv'
  <2>1. value[NameOf[o]] \in Values \cup {None}
    BY DEF TypeInv, TypeOK, Names
  <2>2. Raw("PROPERTY_CHANGE", UserOf[o], 0, PropertyEvent(NameOf[o], value[NameOf[o]])) \in RawEvents
    BY <2>1 DEF RawEvents
  <2> QED
    BY <1>5, <2>2, ReturnType DEF ReturnProperty, TypeInv, TypeOK
<1>6. ASSUME HandleShutdown
      PROVE  TypeInv'
  <2>1. NoRaw \in RawEvents
    BY DEF RawEvents, NoRaw
  <2> QED
    BY <1>6, <2>1 DEF HandleShutdown, TypeInv, TypeOK, workerVars, requestVars, propertyVars, filterVars,
                      playerVars
<1>7. ASSUME HandleEvent
      PROVE  TypeInv'
  <2>1. NoRaw \in RawEvents
    BY DEF RawEvents, NoRaw
  <2>2. answer' \in [Requests -> Seq(Results)]
    <3>1. CASE Event.tag \in {"GetPropertyReply", "SetPropertyReply", "CommandReply"}
      <4>1. Event.user \in Requests /\ Event.res \in Results
        BY <3>1, HandledType
      <4>2. Append(answer[Event.user], Event.res) \in Seq(Results)
        BY <4>1, AppendProperties DEF TypeInv, TypeOK
      <4> QED
        BY <1>7, <3>1, <4>1, <4>2 DEF HandleEvent, TypeInv, TypeOK
    <3>2. CASE Event.tag \notin {"GetPropertyReply", "SetPropertyReply", "CommandReply"}
      BY <1>7, <3>2 DEF HandleEvent, TypeInv, TypeOK
    <3> QED
      BY <3>1, <3>2
  <2>3. seen' \in [Names -> Values \cup {None}]
    BY <1>7, HandledType DEF HandleEvent, TypeInv, TypeOK
  <2>4. shown' = None \/ shown' \in [entry : Entries \cup {None},
                                     end : {None, Ok} \cup {ErrorFrom(e.error) : e \in Endings}]
    BY <1>7, HandledType DEF HandleEvent
  <2>5. hook' \in 1..Budget \cup {None}
    BY <1>7 DEF HandleEvent, HookContinue, TypeInv, TypeOK
  <2> QED
    BY <1>7, <2>1, <2>2, <2>3, <2>4, <2>5 DEF HandleEvent, TypeInv, TypeOK, workerVars, requestVars,
                                              propertyVars, filterVars
<1>8. ASSUME HandleUnwanted
      PROVE  TypeInv'
  <2>1. NoRaw \in RawEvents
    BY DEF RawEvents, NoRaw
  <2>2. EventId(Event.tag) = raw.id /\ raw.id \in Notices /\ Notices \subseteq EventIds
    BY <1>8, EventIdOfVariant, EventLoopAssumption DEF HandleUnwanted, Event, FromPtr
  <2> QED
    BY <1>8, <2>1, <2>2 DEF HandleUnwanted, RequestEvent, TypeInv, TypeOK, workerVars, requestVars,
                            propertyVars, playerVars
<1>9. ASSUME Destroy
      PROVE  TypeInv'
  <2>1. IsFiniteSet({}) /\ Cardinality({}) = 0 /\ <<>> \in Seq(RawEvents) /\ Len(<<>>) = 0
    BY FS_EmptySet
  <2>2. Len(queue') + Cardinality(inflight') <= Cap
    BY <1>9, <2>1, CapIsNat DEF Destroy
  <2> QED
    BY <1>9, <2>1, <2>2 DEF Destroy, TypeInv, TypeOK, workerVars, propertyVars, filterVars
<1> QED
  BY <1>1, <1>2, <1>3, <1>4, <1>5, <1>6, <1>7, <1>8, <1>9 DEF LoopStep

LEMMA StepType == TypeInv /\ [Next]_vars => TypeInv'
<1>1. ASSUME TypeInv, UNCHANGED vars PROVE TypeInv'
  BY <1>1 DEF TypeInv, TypeOK, vars, loopVars, workerVars, requestVars, propertyVars, filterVars, playerVars
<1> QED
  BY <1>1, LoopType, WorkerType, PlayerType DEF Next

\* Every variable keeps its type, and the queue with the places reserved for
\* replies never outgrows what libmpv gave the client.
THEOREM TypeCorrect == Spec => []TypeOK
<1>1. TypeInv => TypeOK
  BY DEF TypeInv
<1> QED
  BY <1>1, InitType, StepType, PTL DEF Spec

-----------------------------------------------------------------------------
(* The event filter and the observations.                                  *)

\* An event is turned off by the id its variant converts to, which is the id it had.
LEMMA FilterStep == FilterAsAsked /\ [Next]_vars => FilterAsAsked'
<1> SUFFICES ASSUME FilterAsAsked, [Next]_vars PROVE FilterAsAsked'
  OBVIOUS
<1> USE DEF FilterAsAsked, filterVars
<1>1. ASSUME HandleUnwanted
      PROVE  FilterAsAsked'
  BY <1>1, EventIdOfVariant DEF HandleUnwanted, RequestEvent, Event, FromPtr
<1>2. ASSUME NEW id \in Notices, WantEvent(id)
      PROVE  FilterAsAsked'
  BY <1>2 DEF WantEvent, RequestEvent
<1>3. ASSUME LoopStep, ~HandleUnwanted
      PROVE  FilterAsAsked'
  BY <1>3 DEF LoopStep, WaitCall, ReturnOverflow, ReturnQueued, ReturnNone, ReturnProperty, Return,
              HandleShutdown, HandleEvent, Destroy
<1>4. ASSUME WorkerStep, \A id \in Notices : ~WantEvent(id)
      PROVE  FilterAsAsked'
  BY <1>4 DEF WorkerStep, SendAsync, WaitAsyncCall, WaitAsyncReturn, Wakeup, HookAdd, Observe, Unobserve
<1>5. ASSUME PlayerStep
      PROVE  FilterAsAsked'
  BY <1>5 DEF PlayerStep, Reply, Notify, Change, StartFile, EndFile, RunHook, Quit, SendShutdown
<1>6. ASSUME NEW r \in Requests, Abort(r)
      PROVE  FilterAsAsked'
  BY <1>6 DEF Abort
<1>7. ASSUME UNCHANGED vars
      PROVE  FilterAsAsked'
  BY <1>7 DEF vars
<1> QED
  BY <1>1, <1>2, <1>3, <1>4, <1>5, <1>6, <1>7 DEF Next

\* The events libmpv leaves out are those the program turned off.
THEOREM FilterIsAsAsked == Spec => []FilterAsAsked
<1>1. Init => FilterAsAsked
  BY DEF Init, FilterAsAsked
<1> QED
  BY <1>1, FilterStep, PTL DEF Spec

\* The count of a program is raised by the calls that succeed, and an unobserve
\* lowers it by all that it removed.
LEMMA ObservationsStep == TypeInv /\ ObservationsKnown /\ [Next]_vars => ObservationsKnown'
<1> SUFFICES ASSUME TypeInv, ObservationsKnown, [Next]_vars PROVE ObservationsKnown'
  OBVIOUS
<1>1. ASSUME NEW o \in Observations, NEW code \in {0, PropertyFormat}, Observe(o, code)
      PROVE  ObservationsKnown'
  <2>1. \A u \in Users : IsFiniteSet(Under(u)) /\ Cardinality(Under(u)) \in Nat
    BY EventLoopAssumption, FS_Subset, FS_CardinalityType DEF TypeInv, TypeOK, Under
  <2>2. CASE code = 0
    <3>1. /\ held' = [held EXCEPT ![UserOf[o]] = @ + 1]
          /\ observed' = observed \cup {o} /\ o \notin observed
      BY <1>1, <2>2 DEF Observe, Result
    <3>2. Under(UserOf[o])' = Under(UserOf[o]) \cup {o} /\ o \notin Under(UserOf[o])
      BY <3>1 DEF Under
    <3>3. \A u \in Users : u # UserOf[o] => Under(u)' = Under(u)
      BY <3>1 DEF Under
    <3>4. Cardinality(Under(UserOf[o])') = Cardinality(Under(UserOf[o])) + 1
      <4>1. UserOf[o] \in Users
        BY DEF Users
      <4> QED
        BY <2>1, <3>2, <4>1, FS_AddElement
    <3> QED
      BY <2>1, <3>1, <3>3, <3>4 DEF ObservationsKnown, TypeInv, TypeOK
  <2>3. CASE code = PropertyFormat
    BY <1>1, <2>3 DEF Observe, Result, ErrorFrom, Ok, PropertyFormat, MatchedCodes, ObservationsKnown, Under
  <2> QED
    BY <2>2, <2>3
<1>2. ASSUME NEW w \in Users, Unobserve(w)
      PROVE  ObservationsKnown'
  <2>1. Cardinality(Under(w)) \in Nat
    BY EventLoopAssumption, FS_Subset, FS_CardinalityType DEF TypeInv, TypeOK, Under
  <2>2. /\ held' = [held EXCEPT ![w] = @ - Cardinality(Under(w))]
        /\ observed' = observed \ Under(w)
    BY <1>2, <2>1 DEF Unobserve, ResultWithCode
  <2>3. Under(w)' = {}
    BY <2>2 DEF Under
  <2>4. \A u \in Users : u # w => Under(u)' = Under(u)
    BY <2>2 DEF Under
  <2>5. held'[w] = 0 /\ Cardinality(Under(w)') = 0
    BY <2>1, <2>2, <2>3, FS_EmptySet DEF ObservationsKnown, TypeInv, TypeOK
  <2> QED
    BY <2>2, <2>4, <2>5 DEF ObservationsKnown, TypeInv, TypeOK
<1>3. ASSUME UNCHANGED <<held, observed>>
      PROVE  ObservationsKnown'
  BY <1>3 DEF ObservationsKnown, Under
<1>4. ASSUME LoopStep
      PROVE  UNCHANGED <<held, observed>>
  BY <1>4 DEF LoopStep, WaitCall, ReturnOverflow, ReturnQueued, ReturnNone, ReturnProperty, Return,
              HandleShutdown, HandleEvent, HandleUnwanted, Destroy, propertyVars
<1>5. ASSUME PlayerStep
      PROVE  UNCHANGED <<held, observed>>
  BY <1>5 DEF PlayerStep, Reply, Notify, Change, StartFile, EndFile, RunHook, Quit, SendShutdown, propertyVars
<1>6. ASSUME \/ \E r \in Requests : SendAsync(r) \/ Abort(r)
             \/ WaitAsyncCall \/ WaitAsyncReturn \/ Wakeup
             \/ \E h \in Hooks : HookAdd(h)
             \/ \E id \in Notices : WantEvent(id)
             \/ UNCHANGED vars
      PROVE  UNCHANGED <<held, observed>>
  BY <1>6 DEF SendAsync, Abort, WaitAsyncCall, WaitAsyncReturn, Wakeup, HookAdd, WantEvent, vars, propertyVars
<1> QED
  BY <1>1, <1>2, <1>3, <1>4, <1>5, <1>6 DEF Next, WorkerStep

\* A program that counts by the results of its calls knows how many observations
\* it has under each number.
THEOREM ObservationsAreKnown == Spec => []ObservationsKnown
<1>1. Init => ObservationsKnown
  BY FS_EmptySet DEF Init, ObservationsKnown, Under
<1> QED
  BY <1>1, InitType, StepType, ObservationsStep, PTL DEF Spec

-----------------------------------------------------------------------------
(* Asynchronous calls.  An accepted request is in one place at a time: with   *)
(* libmpv, answered in the queue, answered by the event the loop handles, or  *)
(* answered.  Each place has the outcome the request ended with.             *)

Answers(e, r) == e.id \in Replies /\ e.user = r

InFlight(r) ==
  r \in inflight => /\ sent[r] = Ok /\ answer[r] = <<>> /\ ~Answers(raw, r)
                    /\ \A i \in 1..Len(queue) : ~Answers(queue[i], r)

InQueue(r) ==
  \A i \in 1..Len(queue) : Answers(queue[i], r) =>
    /\ sent[r] = Ok /\ answer[r] = <<>> /\ ~Answers(raw, r)
    /\ outcome[r] = queue[i].error
    /\ \A j \in 1..Len(queue) : Answers(queue[j], r) => j = i

InHand(r) == Answers(raw, r) => sent[r] = Ok /\ answer[r] = <<>> /\ outcome[r] = raw.error

InAnswer(r) ==
  answer[r] # <<>> =>
    /\ sent[r] = Ok /\ outcome[r] \in Outcomes
    /\ answer[r] = <<Result(outcome[r])>>

Accounted == \A r \in Requests : InFlight(r) /\ InQueue(r) /\ InHand(r) /\ InAnswer(r)

\* The steps in which no request moves on.
CallQuiet ==
  /\ UNCHANGED <<sent, answer, inflight, outcome>>
  /\ raw' = raw \/ raw'.id \notin Replies
  /\ queue' = queue \/ \E e \in RawEvents : e.id \notin Replies /\ queue' = Append(queue, e)

LEMMA QuietCases ==
  ASSUME TypeInv, [Next]_vars
  PROVE  \/ CallQuiet
         \/ \E r \in Requests : SendAsync(r)
         \/ \E r \in Requests, code \in Outcomes : Reply(r, code)
         \/ ReturnQueued \/ HandleEvent \/ Destroy
<1> USE EventLoopAssumption DEF CallQuiet
<1>1. ASSUME NEW id \in Notices \cup {"SHUTDOWN"}, Post(Raw(id, None, 0, None)),
             UNCHANGED <<sent, answer, inflight, outcome, raw>>
      PROVE  CallQuiet
  <2>1. Raw(id, None, 0, None) \in RawEvents /\ Raw(id, None, 0, None).id \notin Replies
    BY DEF RawEvents, Raw, Replies
  <2> QED
    BY <1>1, <2>1 DEF Post
<1>2. ASSUME NEW id \in 1..Budget, Post(Raw("HOOK", None, 0, HookEvent(id))),
             UNCHANGED <<sent, answer, inflight, outcome, raw>>
      PROVE  CallQuiet
  <2>1. /\ Raw("HOOK", None, 0, HookEvent(id)) \in RawEvents
        /\ Raw("HOOK", None, 0, HookEvent(id)).id \notin Replies
    BY DEF RawEvents, Raw, Replies
  <2> QED
    BY <1>2, <2>1 DEF Post
<1>3. ASSUME NEW entry \in Entries, Post(Raw("START_FILE", None, 0, StartFileEvent(entry))),
             UNCHANGED <<sent, answer, inflight, outcome, raw>>
      PROVE  CallQuiet
  <2>1. /\ Raw("START_FILE", None, 0, StartFileEvent(entry)) \in RawEvents
        /\ Raw("START_FILE", None, 0, StartFileEvent(entry)).id \notin Replies
    BY DEF RawEvents, Raw, Replies
  <2> QED
    BY <1>3, <2>1 DEF Post
<1>4. ASSUME NEW entry \in Entries, NEW e \in Endings,
             Post(Raw("END_FILE", None, 0, EndFileEvent(entry, e))),
             UNCHANGED <<sent, answer, inflight, outcome, raw>>
      PROVE  CallQuiet
  <2>1. /\ Raw("END_FILE", None, 0, EndFileEvent(entry, e)) \in RawEvents
        /\ Raw("END_FILE", None, 0, EndFileEvent(entry, e)).id \notin Replies
    BY DEF RawEvents, Raw, Replies
  <2> QED
    BY <1>4, <2>1 DEF Post
<1>5. ASSUME NEW id \in Notices, Notify(id)
      PROVE  CallQuiet
  BY <1>1, <1>5 DEF Notify, loopVars, workerVars, requestVars
<1>6. ASSUME NEW entry \in Entries, StartFile(entry)
      PROVE  CallQuiet
  BY <1>3, <1>6 DEF StartFile, loopVars, workerVars, requestVars
<1>7. ASSUME NEW e \in Endings, EndFile(e)
      PROVE  CallQuiet
  <2>1. played.entry \in Entries
    BY <1>7 DEF EndFile, TypeInv, TypeOK
  <2> QED
    BY <1>4, <1>7, <2>1 DEF EndFile, loopVars, workerVars, requestVars
<1>8. ASSUME NEW h \in Hooks, RunHook(h)
      PROVE  CallQuiet
  <2>1. budget \in 1..Budget
    BY <1>8 DEF RunHook, Spend, TypeInv, TypeOK
  <2> QED
    BY <1>2, <1>8, <2>1 DEF RunHook, loopVars, workerVars, requestVars
<1>9. ASSUME SendShutdown
      PROVE  CallQuiet
  BY <1>1, <1>9 DEF SendShutdown, loopVars, workerVars, requestVars
<1>10. ASSUME \/ \E p \in Names, v \in Values \cup {None} : Change(p, v)
              \/ Quit
       PROVE  CallQuiet
  BY <1>10 DEF Change, Quit, loopVars, workerVars, requestVars
<1>11. ASSUME \/ \E timeout \in Timeouts : WaitCall(timeout)
              \/ ReturnOverflow \/ ReturnNone
              \/ \E o \in Observations : ReturnProperty(o)
              \/ HandleShutdown \/ HandleUnwanted
       PROVE  CallQuiet
  <2>1. CASE \E timeout \in Timeouts : WaitCall(timeout)
    BY <2>1 DEF WaitCall, workerVars, requestVars
  <2>2. ASSUME NEW r, r.id \notin Replies, Return(r), queue' = queue
        PROVE  CallQuiet
    BY <2>2 DEF Return, workerVars, requestVars
  <2>3. ASSUME NEW id \in {"QUEUE_OVERFLOW", "PROPERTY_CHANGE", "NONE"}, NEW user, NEW data
        PROVE  Raw(id, user, 0, data).id \notin Replies
    BY DEF Raw, Replies
  <2>4. CASE ReturnOverflow \/ ReturnNone \/ \E o \in Observations : ReturnProperty(o)
    BY <2>2, <2>3, <2>4 DEF ReturnOverflow, ReturnNone, ReturnProperty, NoRaw
  <2>5. CASE HandleShutdown \/ HandleUnwanted
    BY <2>3, <2>5 DEF HandleShutdown, HandleUnwanted, NoRaw, workerVars, requestVars
  <2> QED
    BY <1>11, <2>1, <2>4, <2>5
<1>12. ASSUME \/ WaitAsyncCall \/ WaitAsyncReturn \/ Wakeup
              \/ \E h \in Hooks : HookAdd(h)
              \/ \E o \in Observations, code \in {0, PropertyFormat} : Observe(o, code)
              \/ \E u \in Users : Unobserve(u)
              \/ \E id \in Notices : WantEvent(id)
              \/ \E r \in Requests : Abort(r)
       PROVE  CallQuiet
  BY <1>12 DEF WaitAsyncCall, WaitAsyncReturn, Wakeup, HookAdd, Observe, Unobserve, WantEvent, Abort,
               loopVars, workerVars, requestVars
<1>13. ASSUME UNCHANGED vars
       PROVE  CallQuiet
  BY <1>13 DEF vars, loopVars, workerVars, requestVars
<1> QED
  BY <1>5, <1>6, <1>7, <1>8, <1>9, <1>10, <1>11, <1>12, <1>13 DEF Next, LoopStep, WorkerStep, PlayerStep

LEMMA AccountedStep == TypeInv /\ Accounted /\ [Next]_vars => Accounted'
<1> SUFFICES ASSUME TypeInv, Accounted, [Next]_vars, NEW r \in Requests
             PROVE  (InFlight(r) /\ InQueue(r) /\ InHand(r) /\ InAnswer(r))'
  BY DEF Accounted
<1>0. /\ InFlight(r) /\ InQueue(r) /\ InHand(r) /\ InAnswer(r)
      /\ queue \in Seq(RawEvents) /\ Len(queue) \in Nat /\ raw \in RawEvents
  BY DEF Accounted, TypeInv, TypeOK
<1> USE DEF InFlight, InQueue, InHand, InAnswer
<1>1. CASE CallQuiet
  <2>1. Answers(raw', r) => Answers(raw, r) /\ raw' = raw
    BY <1>1 DEF CallQuiet, Answers
  <2>2. \A i \in 1..Len(queue') : Answers(queue'[i], r) => i \in 1..Len(queue) /\ queue'[i] = queue[i]
    <3>1. CASE queue' = queue
      BY <3>1
    <3>2. ASSUME NEW e \in RawEvents, e.id \notin Replies, queue' = Append(queue, e)
          PROVE  \A i \in 1..Len(queue') : Answers(queue'[i], r) =>
                   i \in 1..Len(queue) /\ queue'[i] = queue[i]
      <4>1. /\ Len(queue') = Len(queue) + 1 /\ queue'[Len(queue) + 1] = e
            /\ \A i \in 1..Len(queue) : queue'[i] = queue[i]
        BY <1>0, <3>2, AppendProperties
      <4> QED
        BY <1>0, <3>2, <4>1 DEF Answers
    <3> QED
      BY <1>1, <3>1, <3>2 DEF CallQuiet
  <2> QED
    BY <1>0, <1>1, <2>1, <2>2 DEF CallQuiet
<1>2. ASSUME NEW q \in Requests, SendAsync(q)
      PROVE  (InFlight(r) /\ InQueue(r) /\ InHand(r) /\ InAnswer(r))'
  <2>1. sent[q] = None /\ None # Ok
    BY <1>2, NoneIsNoResult DEF SendAsync
  <2>2. UNCHANGED <<answer, raw, queue, outcome>> /\ (q # r => sent'[r] = sent[r])
    BY <1>2 DEF SendAsync, TypeInv, TypeOK, loopVars
  <2>3. r \in inflight' => r \in inflight \/ (r = q /\ sent'[r] = Ok)
    BY <1>2 DEF SendAsync, TypeInv, TypeOK, Result
  <2> QED
    BY <1>0, <2>1, <2>2, <2>3
<1>3. ASSUME NEW q \in Requests, NEW code \in Outcomes, Reply(q, code)
      PROVE  (InFlight(r) /\ InQueue(r) /\ InHand(r) /\ InAnswer(r))'
  <2> DEFINE e == Raw(ReplyOf[q], q, code, None)
  <2>1. /\ e \in RawEvents /\ e.error = code
        /\ Answers(e, r) <=> r = q
    BY EventLoopAssumption DEF RawEvents, Raw, Answers
  <2>2. /\ queue' = Append(queue, e) /\ UNCHANGED <<sent, answer, raw>>
        /\ q \in inflight /\ inflight' = inflight \ {q}
        /\ outcome' = [outcome EXCEPT ![q] = code]
    BY <1>3 DEF Reply, loopVars, workerVars
  <2>3. /\ Len(queue') = Len(queue) + 1 /\ queue'[Len(queue) + 1] = e
        /\ \A i \in 1..Len(queue) : queue'[i] = queue[i]
    BY <1>0, <2>1, <2>2, AppendProperties
  <2> HIDE DEF e
  <2>4. CASE r = q
    <3>1. outcome'[r] = code
      BY <2>2, <2>4 DEF TypeInv, TypeOK
    <3> QED
      BY <1>0, <2>1, <2>2, <2>3, <2>4, <3>1
  <2>5. CASE r # q
    <3>1. outcome'[r] = outcome[r]
      BY <2>2, <2>5 DEF TypeInv, TypeOK
    <3> QED
      BY <1>0, <2>1, <2>2, <2>3, <2>5, <3>1
  <2> QED
    BY <2>4, <2>5
<1>4. CASE ReturnQueued
  <2>1. /\ queue # <<>> /\ raw' = Head(queue) /\ queue' = Tail(queue)
        /\ UNCHANGED <<sent, answer, inflight, outcome>>
    BY <1>4 DEF ReturnQueued, Return, workerVars, requestVars
  <2>2. /\ raw' = queue[1] /\ Len(queue) >= 1 /\ Len(queue') = Len(queue) - 1
        /\ \A i \in 1..Len(queue') : queue'[i] = queue[i + 1]
    BY <1>0, <2>1, HeadTailProperties
  <2> QED
    BY <1>0, <2>1, <2>2
<1>5. CASE HandleEvent
  <2>1. raw' = NoRaw /\ ~Answers(raw', r) /\ UNCHANGED <<sent, inflight, outcome, queue>>
    BY <1>5 DEF HandleEvent, NoRaw, Raw, Replies, Answers, workerVars, requestVars
  <2>2. CASE Answers(raw, r)
    <3>1. /\ raw.error \in Outcomes /\ raw.id \in Replies /\ raw.user = r
      BY <1>0, <2>2, RawEventIs DEF Answers
    <3>2. /\ Event.tag \in {"GetPropertyReply", "SetPropertyReply", "CommandReply"}
          /\ Event.user = r /\ Event.res = Result(raw.error)
      BY <3>1, VariantIs DEF Event, FromPtr, Tagged
    <3>3. answer'[r] = Append(answer[r], Result(raw.error))
      BY <1>5, <3>2 DEF HandleEvent, TypeInv, TypeOK
    <3>4. answer[r] = <<>> /\ Append(<<>>, Result(raw.error)) = <<Result(raw.error)>>
      BY <1>0, <2>2
    <3> QED
      BY <1>0, <2>1, <2>2, <3>1, <3>3, <3>4
  <2>3. CASE ~Answers(raw, r)
    <3>1. answer'[r] = answer[r]
      <4>1. CASE Event.tag \in {"GetPropertyReply", "SetPropertyReply", "CommandReply"}
        <5>1. raw.id \in Replies /\ Event.user = raw.user /\ Event.user # r
          BY <2>3, <4>1, VariantIs DEF Event, FromPtr, Tagged, Answers
        <5> QED
          BY <1>5, <5>1 DEF HandleEvent, TypeInv, TypeOK
      <4>2. CASE Event.tag \notin {"GetPropertyReply", "SetPropertyReply", "CommandReply"}
        BY <1>5, <4>2 DEF HandleEvent
      <4> QED
        BY <4>1, <4>2
    <3> QED
      BY <1>0, <2>1, <2>3, <3>1
  <2> QED
    BY <2>2, <2>3
<1>6. CASE Destroy
  <2>1. queue' = <<>> /\ inflight' = {} /\ UNCHANGED <<raw, sent, answer, outcome>> /\ Len(<<>>) = 0
    BY <1>6 DEF Destroy, workerVars
  <2> QED
    BY <1>0, <2>1
<1> QED
  BY <1>1, <1>2, <1>3, <1>4, <1>5, <1>6, QuietCases

THEOREM RequestsAccounted == Spec => []Accounted
<1>1. Init => Accounted
  BY NoneIsNoResult DEF Init, Accounted, InFlight, InQueue, InHand, InAnswer, Answers, NoRaw, Raw, Replies
<1> QED
  BY <1>1, InitType, StepType, AccountedStep, PTL DEF Spec

\* A request is answered at most once, after a call that said Ok, and with the
\* code libmpv finished it with.
THEOREM AnswersAreAsSent == Spec => []AnsweredAsSent
<1>1. Accounted => AnsweredAsSent
  <2> SUFFICES ASSUME Accounted, NEW r \in Requests, answer[r] # <<>>
               PROVE  /\ sent[r] = Ok
                      /\ Len(answer[r]) = 1
                      /\ answer[r][1].tag = "Ok" <=> outcome[r] >= 0
                      /\ answer[r][1].tag # "Ok" => answer[r][1].code = outcome[r]
    BY DEF AnsweredAsSent
  <2>1. sent[r] = Ok /\ outcome[r] \in Int /\ answer[r] = <<Result(outcome[r])>>
    BY EventLoopAssumption DEF Accounted, InAnswer
  <2> QED
    BY <2>1 DEF Result, Ok, ErrorFrom
<1> QED
  BY <1>1, RequestsAccounted, PTL

-----------------------------------------------------------------------------
(* The refinement of AsyncCalls.                                            *)

\* Steps that neither send, answer nor abort: the program leaves its loop, or nothing
\* that AsyncCalls knows of happens.
LEMMA OtherSteps ==
  ASSUME [Next]_vars
  PROVE  \/ \E r \in Requests : SendAsync(r) \/ Abort(r)
         \/ HandleEvent
         \/ UNCHANGED <<sent, answer, aborted>> /\ (over' = over \/ over')
<1> USE DEF over
<1>1. ASSUME LoopStep, ~HandleEvent
      PROVE  UNCHANGED <<sent, answer, aborted>> /\ (over' = over \/ over')
  <2>1. ASSUME NEW timeout \in Timeouts, WaitCall(timeout)
        PROVE  UNCHANGED <<sent, answer, aborted>> /\ over' = over
    BY <2>1, EventLoopAssumption DEF WaitCall, workerVars, requestVars
  <2>2. ASSUME NEW r, Return(r)
        PROVE  UNCHANGED <<sent, answer, aborted>> /\ over' = over
    BY <2>2, EventLoopAssumption DEF Return, workerVars, requestVars
  <2>3. CASE HandleShutdown
    BY <2>3 DEF HandleShutdown, workerVars, requestVars
  <2>4. CASE HandleUnwanted
    BY <2>4 DEF HandleUnwanted, workerVars, requestVars
  <2>5. CASE Destroy
    BY <2>5 DEF Destroy, workerVars
  <2> QED
    BY <1>1, <2>1, <2>2, <2>3, <2>4, <2>5
       DEF LoopStep, ReturnOverflow, ReturnQueued, ReturnNone, ReturnProperty
<1>2. ASSUME WorkerStep, \A r \in Requests : ~SendAsync(r)
      PROVE  UNCHANGED <<sent, answer, aborted, pc>>
  BY <1>2 DEF WorkerStep, WaitAsyncCall, WaitAsyncReturn, Wakeup, HookAdd, Observe, Unobserve, WantEvent,
              loopVars, workerVars, requestVars
<1>3. ASSUME PlayerStep
      PROVE  UNCHANGED <<sent, answer, aborted, pc>>
  BY <1>3 DEF PlayerStep, Reply, Notify, Change, StartFile, EndFile, RunHook, Quit, SendShutdown,
              loopVars, workerVars, requestVars
<1>4. ASSUME UNCHANGED vars
      PROVE  UNCHANGED <<sent, answer, aborted, pc>>
  BY <1>4 DEF vars, loopVars, workerVars, requestVars
<1> QED
  BY <1>1, <1>2, <1>3, <1>4 DEF Next

\* A step maps to the step of AsyncCalls of the same name, or to none.
LEMMA CallsStep ==
  TypeInv /\ Accounted /\ [Next]_vars => [Calls!CallsNext]_(Calls!callVars)
<1> SUFFICES ASSUME TypeInv, Accounted, [Next]_vars
             PROVE  Calls!CallsNext \/ UNCHANGED <<call, aborted, over>>
  BY DEF Calls!callVars
<1>1. ASSUME NEW r \in Requests, SendAsync(r)
      PROVE  Calls!Fail(r) \/ Calls!Send(r)
  <2>1. ~over /\ over' = over /\ UNCHANGED <<answer, aborted>> /\ sent[r] = None
    BY <1>1 DEF SendAsync, Working, loopVars, over
  <2>2. /\ \A q \in Requests \ {r} : sent'[q] = sent[q]
        /\ sent'[r] = Ok \/ sent'[r] \in {ErrNul, Result(InvalidParameter), Result(EventQueueFull)}
    BY <1>1 DEF SendAsync, TypeInv, TypeOK, Result
  <2>3. answer[r] = <<>>
    BY <2>1, NoneIsNoResult DEF Accounted, InAnswer
  <2>4. call[r] = "unsent"
    BY <2>1 DEF call
  <2>5. CASE sent'[r] = Ok
    <3>1. call' = [call EXCEPT ![r] = "pending"]
      BY <2>1, <2>2, <2>3, <2>5, NoneIsNoResult DEF call
    <3> QED
      BY <2>1, <2>4, <3>1 DEF Calls!Send, Calls!Move
  <2>6. CASE sent'[r] \in {ErrNul, Result(InvalidParameter), Result(EventQueueFull)}
    <3>1. sent'[r] # Ok
      BY <2>6 DEF ErrNul, Ok, Result, ErrorFrom, InvalidParameter, EventQueueFull
    <3>2. None # ErrNul
      BY EventLoopAssumption DEF ErrNul
    <3>3. sent'[r] # None
      BY <2>6, <3>2, NoneIsNoResult DEF Result, InvalidParameter, EventQueueFull
    <3>4. call' = [call EXCEPT ![r] = "failed"]
      BY <2>1, <2>2, <2>3, <3>1, <3>3 DEF call
    <3> QED
      BY <2>1, <2>4, <3>4 DEF Calls!Fail, Calls!Move
  <2> QED
    BY <2>2, <2>5, <2>6
<1>2. ASSUME NEW r \in Requests, Abort(r)
      PROVE  Calls!Abort(r) \/ UNCHANGED <<call, aborted, over>>
  <2>1. call' = call /\ over' = over /\ aborted' = aborted \cup ({r} \cap inflight)
    BY <1>2 DEF Abort, loopVars, workerVars, call, over
  <2>2. r \in inflight => call[r] = "pending"
    BY NoneIsNoResult DEF Accounted, InFlight, call
  <2> QED
    BY <2>1, <2>2 DEF Calls!Abort
<1>3. CASE HandleEvent
  <2>1. ~over /\ over' = over /\ UNCHANGED <<sent, aborted>>
    BY <1>3 DEF HandleEvent, workerVars, requestVars, over
  <2>2. CASE raw.id \in Replies
    <3> DEFINE q == raw.user
    <3>1. q \in Requests /\ Answers(raw, q)
      BY <2>2, RawEventIs DEF TypeInv, TypeOK, Answers
    <3>2. sent[q] = Ok /\ answer[q] = <<>>
      BY <3>1 DEF Accounted, InHand
    <3>3. Event.tag \in {"GetPropertyReply", "SetPropertyReply", "CommandReply"} /\ Event.user = q
      BY <2>2, VariantIs DEF Event, FromPtr, Tagged
    <3>4. answer' = [answer EXCEPT ![q] = Append(@, Event.res)]
      BY <1>3, <3>3 DEF HandleEvent
    <3>5. answer'[q] # <<>> /\ \A r \in Requests \ {q} : answer'[r] = answer[r]
      <4>1. Event.res \in Results
        BY <3>3, HandledType
      <4>2. answer \in [Requests -> Seq(Results)]
        BY DEF TypeInv, TypeOK
      <4>3. Append(answer[q], Event.res) # <<>>
        BY <3>1, <4>1, <4>2, AppendProperties
      <4> QED
        BY <3>1, <3>4, <4>2, <4>3
    <3>6. call[q] = "pending" /\ call' = [call EXCEPT ![q] = "answered"]
      BY <2>1, <3>1, <3>2, <3>5, NoneIsNoResult DEF call
    <3>7. Calls!Answer(q)
      BY <2>1, <3>6 DEF Calls!Answer, Calls!Move
    <3> QED
      BY <3>1, <3>7 DEF Calls!CallsNext
  <2>3. CASE raw.id \notin Replies
    <3>1. answer' = answer
      BY <1>3, <2>3, VariantIs DEF HandleEvent, Event, FromPtr
    <3> QED
      BY <2>1, <3>1 DEF call
  <2> QED
    BY <2>2, <2>3
<1>4. ASSUME UNCHANGED <<sent, answer, aborted>>, over' = over \/ over'
      PROVE  Calls!Leave \/ UNCHANGED <<call, aborted, over>>
  BY <1>4 DEF call, over, Calls!Leave
<1> QED
  BY <1>1, <1>2, <1>3, <1>4, OtherSteps DEF Calls!CallsNext

\* The calls do what AsyncCalls promises: fail for good, or wait for one reply.
THEOREM CallsImplemented == Spec => Calls!SafeSpec
<1>1. Init => Calls!CallsInit
  BY DEF Init, Calls!CallsInit, call, over
<1> QED
  BY <1>1, InitType, StepType, RequestsAccounted, CallsStep, PTL DEF Spec, Calls!SafeSpec

-----------------------------------------------------------------------------
(* The files.  Only the youngest event of a file matters, because each tells   *)
(* all that the loop keeps: it is in the queue, or else in the loop's hands,  *)
(* or else the loop already knows what it says.  After a loss nothing is said  *)
(* until the loop has been told.                                             *)

IsFile(e) == e.id \in {"START_FILE", "END_FILE"}

\* The event tells that the last file is p.
Tells(e, p) ==
  \/ e.id = "START_FILE" /\ e.data = StartFileEvent(p.entry) /\ p.end = None
  \/ e.id = "END_FILE" /\ p.end \in Endings /\ e.data = EndFileEvent(p.entry, p.end)

\* The loop knows what the player plays, or knows that it does not.
Knows ==
  \/ shown = None
  \/ /\ shown.entry = played.entry
     /\ played.end = None => shown.end = None
     /\ played.end # None =>
          shown.end = IF played.end.reason = 4 THEN ErrorFrom(played.end.error) ELSE Ok

YoungestTells ==
  \A i \in 1..Len(queue) :
    IsFile(queue[i]) /\ (\A j \in i + 1..Len(queue) : ~IsFile(queue[j])) => Tells(queue[i], played)

HandOrHead ==
  (\A i \in 1..Len(queue) : ~IsFile(queue[i])) =>
    /\ IsFile(raw) => Tells(raw, played)
    /\ ~IsFile(raw) /\ raw.id # "QUEUE_OVERFLOW" => Knows

FilesTold == ~over /\ ~choked => YoungestTells /\ HandOrHead

\* The loop holds an event only while it handles it.
HandsEmpty == pc # "handle" => raw = NoRaw

LEMMA HandsEmptyStep == HandsEmpty /\ [Next]_vars => HandsEmpty'
<1> SUFFICES ASSUME HandsEmpty, [Next]_vars PROVE HandsEmpty'
  OBVIOUS
<1> USE DEF HandsEmpty
<1>1. ASSUME LoopStep PROVE HandsEmpty'
  BY <1>1, EventLoopAssumption
     DEF LoopStep, WaitCall, ReturnOverflow, ReturnQueued, ReturnNone, ReturnProperty, Return, HandleShutdown,
         HandleEvent, HandleUnwanted, Destroy
<1>2. ASSUME WorkerStep \/ PlayerStep \/ (\E r \in Requests : Abort(r)) \/ UNCHANGED vars
      PROVE  HandsEmpty'
  BY <1>2 DEF WorkerStep, SendAsync, WaitAsyncCall, WaitAsyncReturn, Wakeup, HookAdd, Observe, Unobserve,
              WantEvent, PlayerStep, Reply, Notify, Change, StartFile, EndFile, RunHook, Quit, SendShutdown,
              Abort, vars, loopVars
<1> QED
  BY <1>1, <1>2 DEF Next

\* The steps in which neither the player nor the loop's idea of it changes, and at most
\* an event that is not about a file is queued or lost.
FileQuiet ==
  /\ UNCHANGED <<shown, played, raw>>
  /\ choked => choked'
  /\ over => over'
  /\ queue' = queue \/ \E e \in RawEvents : ~IsFile(e) /\ queue' = Append(queue, e)

LEMMA FileCases ==
  ASSUME TypeInv, [Next]_vars
  PROVE  \/ FileQuiet
         \/ \E entry \in Entries : StartFile(entry)
         \/ \E e \in Endings : EndFile(e)
         \/ ReturnOverflow \/ ReturnQueued \/ ReturnNone
         \/ \E o \in Observations : ReturnProperty(o)
         \/ HandleShutdown \/ HandleEvent \/ HandleUnwanted \/ Destroy
<1> USE DEF FileQuiet, over
<1>1. ASSUME NEW e \in RawEvents, Post(e), ~IsFile(e), UNCHANGED <<shown, played, raw, pc>>
      PROVE  FileQuiet
  BY <1>1 DEF Post
<1>2. ASSUME NEW id \in Notices, Notify(id)
      PROVE  FileQuiet
  <2>1. Raw(id, None, 0, None) \in RawEvents /\ ~IsFile(Raw(id, None, 0, None))
    BY EventLoopAssumption DEF RawEvents, Raw, IsFile
  <2> QED
    BY <1>1, <1>2, <2>1 DEF Notify, loopVars
<1>3. ASSUME NEW h \in Hooks, RunHook(h)
      PROVE  FileQuiet
  <2>1. budget \in 1..Budget
    BY <1>3, CapIsNat DEF RunHook, Spend, TypeInv, TypeOK
  <2>2. /\ Raw("HOOK", None, 0, HookEvent(budget)) \in RawEvents
        /\ ~IsFile(Raw("HOOK", None, 0, HookEvent(budget)))
    BY <2>1 DEF RawEvents, Raw, IsFile
  <2> QED
    BY <1>1, <1>3, <2>2 DEF RunHook, loopVars
<1>4. ASSUME SendShutdown
      PROVE  FileQuiet
  <2>1. Raw("SHUTDOWN", None, 0, None) \in RawEvents
    BY DEF RawEvents
  <2>2. ~IsFile(Raw("SHUTDOWN", None, 0, None))
    BY DEF Raw, IsFile
  <2> QED
    BY <1>1, <1>4, <2>1, <2>2 DEF SendShutdown, loopVars, playerVars
<1>5. ASSUME NEW r \in Requests, NEW code \in Outcomes, Reply(r, code)
      PROVE  FileQuiet
  <2>1. Raw(ReplyOf[r], r, code, None) \in RawEvents /\ ~IsFile(Raw(ReplyOf[r], r, code, None))
    BY EventLoopAssumption DEF RawEvents, Raw, IsFile, Replies
  <2> QED
    BY <1>5, <2>1 DEF Reply, loopVars, playerVars
<1>6. ASSUME \/ \E timeout \in Timeouts : WaitCall(timeout)
             \/ \E p \in Names, v \in Values \cup {None} : Change(p, v)
             \/ Quit
      PROVE  FileQuiet
  BY <1>6 DEF WaitCall, Change, Quit, loopVars, playerVars
<1>7. ASSUME WorkerStep
      PROVE  UNCHANGED <<shown, played, raw, choked, pc, queue>>
  BY <1>7 DEF WorkerStep, SendAsync, WaitAsyncCall, WaitAsyncReturn, Wakeup, HookAdd, Observe, Unobserve,
              WantEvent, loopVars, playerVars
<1>8. ASSUME (\E r \in Requests : Abort(r)) \/ UNCHANGED vars
      PROVE  UNCHANGED <<shown, played, raw, choked, pc, queue>>
  BY <1>8 DEF Abort, vars, loopVars, playerVars
<1>9. ASSUME UNCHANGED <<shown, played, raw, choked, pc, queue>>
      PROVE  FileQuiet
  BY <1>9
<1> QED
  BY <1>2, <1>3, <1>4, <1>5, <1>6, <1>7, <1>8, <1>9 DEF Next, LoopStep, PlayerStep

\* What the loop learns from the event in its hands.
LEMMA HandledFile ==
  ASSUME TypeInv
  PROVE  /\ IsFile(raw) /\ Tells(raw, played) =>
              /\ Shown # None => /\ Shown.entry = played.entry
                                 /\ played.end = None => Shown.end = None
                                 /\ played.end # None => Shown.end = IF played.end.reason = 4
                                                                     THEN ErrorFrom(played.end.error) ELSE Ok
         /\ raw.id = "QUEUE_OVERFLOW" => Shown = None
         /\ ~IsFile(raw) /\ raw.id # "QUEUE_OVERFLOW" => Shown = shown
<1>1. ASSUME raw.id = "START_FILE", Tells(raw, played)
      PROVE  Shown = [entry |-> played.entry, end |-> None] /\ played.end = None
  BY <1>1, VariantIs DEF Tells, Shown, Event, FromPtr, StartFileEvent, PlaylistEntryId
<1>2. ASSUME raw.id = "END_FILE", Tells(raw, played)
      PROVE  /\ played.end \in Endings
             /\ Shown = [entry |-> played.entry, end |-> IF played.end.reason = 4
                                                         THEN ErrorFrom(played.end.error) ELSE Ok]
  <2>1. /\ Event.tag = "EndFile" /\ Event.tag # "StartFile"
        /\ Event.data = EndFileEvent(played.entry, played.end) /\ played.end \in Endings
    BY <1>2, VariantIs DEF Tells, Event, FromPtr
  <2>2. EndFileReason(played.end.reason) = "Error" <=> played.end.reason = 4
    BY DEF EndFileReason
  <2>3. EndFileError(Event.data) = IF played.end.reason = 4 THEN ErrorFrom(played.end.error) ELSE Ok
    BY <2>1, <2>2 DEF EndFileError, EndFileEvent
  <2> QED
    BY <2>1, <2>3 DEF Shown, PlaylistEntryId, EndFileEvent
<1>3. None \notin Endings
  BY EventLoopAssumption
<1>4. raw.id = "QUEUE_OVERFLOW" => Shown = None
  BY VariantIs DEF Shown, Event, FromPtr
<1>5. ~IsFile(raw) /\ raw.id # "QUEUE_OVERFLOW" => Shown = shown
  BY VariantIs DEF Shown, Event, FromPtr, IsFile
<1> QED
  BY <1>1, <1>2, <1>3, <1>4, <1>5 DEF IsFile

\* A new event of a file is the youngest, unless it is lost.
LEMMA FilePosted ==
  ASSUME TypeInv, NEW e \in RawEvents, Post(e), IsFile(e), Tells(e, played')
  PROVE  ~choked' => (YoungestTells /\ HandOrHead)'
<1> SUFFICES ASSUME ~choked' PROVE (YoungestTells /\ HandOrHead)'
  OBVIOUS
<1>1. queue' = Append(queue, e)
  BY DEF Post
<1>2. queue \in Seq(RawEvents) /\ Len(queue) \in Nat
  BY DEF TypeInv, TypeOK
<1>3. /\ Len(queue') = Len(queue) + 1 /\ queue'[Len(queue) + 1] = e
  BY <1>1, <1>2, AppendProperties
<1>4. ASSUME NEW i \in 1..Len(queue'), \A j \in i + 1..Len(queue') : ~IsFile(queue'[j])
      PROVE  queue'[i] = e
  BY <1>2, <1>3, <1>4
<1>5. ~\A i \in 1..Len(queue') : ~IsFile(queue'[i])
  BY <1>2, <1>3
<1> QED
  BY <1>4, <1>5 DEF YoungestTells, HandOrHead, Tells, IsFile

LEMMA FilesToldStep == TypeInv /\ HandsEmpty /\ FilesTold /\ [Next]_vars => FilesTold'
<1> SUFFICES ASSUME TypeInv, HandsEmpty, FilesTold, [Next]_vars, ~over', ~choked'
             PROVE  (YoungestTells /\ HandOrHead)'
  BY DEF FilesTold
<1>0. queue \in Seq(RawEvents) /\ Len(queue) \in Nat /\ choked \in BOOLEAN
  BY DEF TypeInv, TypeOK
<1>1. CASE FileQuiet
  <2>1. YoungestTells /\ HandOrHead
    BY <1>1 DEF FileQuiet, FilesTold
  <2>2. CASE queue' = queue
    BY <1>1, <2>1, <2>2 DEF FileQuiet, YoungestTells, HandOrHead, Tells, Knows
  <2>3. ASSUME NEW e \in RawEvents, ~IsFile(e), queue' = Append(queue, e)
        PROVE  (YoungestTells /\ HandOrHead)'
    <3>1. /\ Len(queue') = Len(queue) + 1 /\ queue'[Len(queue) + 1] = e
          /\ \A i \in 1..Len(queue) : queue'[i] = queue[i]
      BY <1>0, <2>3, AppendProperties
    <3>2. YoungestTells'
      <4> SUFFICES ASSUME NEW i \in 1..Len(queue'), IsFile(queue'[i]),
                          \A j \in i + 1..Len(queue') : ~IsFile(queue'[j])
                   PROVE  Tells(queue'[i], played')
        BY DEF YoungestTells, IsFile
      <4>1. i \in 1..Len(queue) /\ queue'[i] = queue[i]
        BY <1>0, <2>3, <3>1
      <4>2. \A j \in i + 1..Len(queue) : ~IsFile(queue[j])
        BY <1>0, <3>1
      <4>3. Tells(queue[i], played)
        BY <2>1, <4>1, <4>2 DEF YoungestTells
      <4> QED
        BY <1>1, <4>1, <4>3 DEF FileQuiet, Tells
    <3>3. (\A i \in 1..Len(queue') : ~IsFile(queue'[i])) => \A i \in 1..Len(queue) : ~IsFile(queue[i])
      BY <1>0, <3>1
    <3>4. HandOrHead'
      BY <1>1, <2>1, <3>3 DEF FileQuiet, HandOrHead, Tells, Knows, IsFile
    <3> QED
      BY <3>2, <3>4
  <2> QED
    BY <1>1, <2>2, <2>3 DEF FileQuiet
<1>2. ASSUME NEW entry \in Entries, StartFile(entry)
      PROVE  (YoungestTells /\ HandOrHead)'
  <2>1. Raw("START_FILE", None, 0, StartFileEvent(entry)) \in RawEvents
    BY DEF RawEvents
  <2>2. IsFile(Raw("START_FILE", None, 0, StartFileEvent(entry)))
    BY DEF Raw, IsFile
  <2>3. Tells(Raw("START_FILE", None, 0, StartFileEvent(entry)), played')
    BY <1>2 DEF StartFile, Tells, Raw
  <2> QED
    BY <1>2, <2>1, <2>2, <2>3, FilePosted DEF StartFile
<1>3. ASSUME NEW e \in Endings, EndFile(e)
      PROVE  (YoungestTells /\ HandOrHead)'
  <2>1. /\ played.entry \in Entries
        /\ played'.entry = played.entry /\ played'.end = e
    BY <1>3 DEF EndFile, TypeInv, TypeOK
  <2>2. Raw("END_FILE", None, 0, EndFileEvent(played.entry, e)) \in RawEvents
    BY <2>1 DEF RawEvents
  <2>3. IsFile(Raw("END_FILE", None, 0, EndFileEvent(played.entry, e)))
    BY DEF Raw, IsFile
  <2>4. Tells(Raw("END_FILE", None, 0, EndFileEvent(played.entry, e)), played')
    BY <2>1 DEF Tells, Raw
  <2> QED
    BY <1>3, <2>2, <2>3, <2>4, FilePosted DEF EndFile
<1>4. CASE ReturnOverflow
  <2>1. queue' = <<>> /\ raw'.id = "QUEUE_OVERFLOW"
    BY <1>4 DEF ReturnOverflow, Return, Raw
  <2> QED
    BY <2>1 DEF YoungestTells, HandOrHead, IsFile
<1>5. CASE ReturnQueued
  <2>1. /\ queue # <<>> /\ raw' = Head(queue) /\ queue' = Tail(queue)
        /\ UNCHANGED <<shown, played, choked>> /\ pc \in Timeouts
    BY <1>5 DEF ReturnQueued, Return, playerVars
  <2>2. /\ raw' = queue[1] /\ Len(queue) >= 1 /\ Len(queue') = Len(queue) - 1
        /\ \A i \in 1..Len(queue') : queue'[i] = queue[i + 1]
    BY <1>0, <2>1, HeadTailProperties
  <2>3. pc # "handle" /\ ~over /\ ~choked
    BY <2>1, EventLoopAssumption DEF over
  <2>4. YoungestTells /\ HandOrHead /\ raw.id = "NONE"
    BY <2>3 DEF FilesTold, HandsEmpty, NoRaw, Raw
  <2>5. YoungestTells'
    <3> SUFFICES ASSUME NEW i \in 1..Len(queue'), IsFile(queue'[i]),
                        \A j \in i + 1..Len(queue') : ~IsFile(queue'[j])
                 PROVE  Tells(queue'[i], played')
      BY DEF YoungestTells, IsFile
    <3>1. i + 1 \in 1..Len(queue) /\ queue'[i] = queue[i + 1]
      BY <1>0, <2>2
    <3>2. ASSUME NEW j \in (i + 1) + 1..Len(queue)
          PROVE  ~IsFile(queue[j])
      <4>1. j - 1 \in i + 1..Len(queue') /\ queue'[j - 1] = queue[(j - 1) + 1] /\ (j - 1) + 1 = j
        BY <1>0, <2>2, <3>1
      <4> QED
        BY <4>1
    <3>3. Tells(queue[i + 1], played)
      BY <2>4, <3>1, <3>2 DEF YoungestTells
    <3> QED
      BY <2>1, <3>1, <3>3 DEF Tells
  <2>6. HandOrHead'
    <3> SUFFICES ASSUME \A i \in 1..Len(queue') : ~IsFile(queue'[i])
                 PROVE  /\ IsFile(raw') => Tells(raw', played')
                        /\ ~IsFile(raw') /\ raw'.id # "QUEUE_OVERFLOW" => Knows'
      BY DEF HandOrHead, IsFile
    <3>1. ASSUME NEW j \in 2..Len(queue)
          PROVE  ~IsFile(queue[j])
      <4>1. j - 1 \in 1..Len(queue') /\ queue'[j - 1] = queue[(j - 1) + 1] /\ (j - 1) + 1 = j
        BY <1>0, <2>2
      <4> QED
        BY <4>1
    <3>2. IsFile(raw') => Tells(raw', played')
      BY <1>0, <2>1, <2>2, <2>4, <3>1 DEF YoungestTells, Tells
    <3>3. ~IsFile(raw') => Knows
      <4>1. ASSUME ~IsFile(raw'), NEW i \in 1..Len(queue)
            PROVE  ~IsFile(queue[i])
        BY <1>0, <2>2, <3>1, <4>1
      <4> QED
        BY <2>4, <4>1 DEF HandOrHead, IsFile
    <3> QED
      BY <2>1, <3>2, <3>3 DEF Knows
  <2> QED
    BY <2>5, <2>6
<1>6. CASE ReturnNone \/ \E o \in Observations : ReturnProperty(o)
  <2>1. /\ queue = <<>> /\ queue' = <<>> /\ ~choked /\ pc \in Timeouts
        /\ UNCHANGED <<shown, played>>
        /\ raw'.id \in {"NONE", "PROPERTY_CHANGE"}
    BY <1>6 DEF ReturnNone, ReturnProperty, Return, NoRaw, Raw, playerVars
  <2>2. pc # "handle" /\ ~over
    BY <2>1, EventLoopAssumption DEF over
  <2>3. HandOrHead /\ raw.id = "NONE"
    BY <2>1, <2>2 DEF FilesTold, HandsEmpty, NoRaw, Raw
  <2>4. Knows
    BY <2>1, <2>3 DEF HandOrHead, IsFile
  <2> QED
    BY <2>1, <2>4 DEF YoungestTells, HandOrHead, IsFile, Knows
<1>7. CASE HandleEvent
  <2>1. /\ UNCHANGED <<played, queue, choked>> /\ shown' = Shown /\ raw'.id = "NONE" /\ ~over
    BY <1>7 DEF HandleEvent, NoRaw, Raw, over
  <2>2. YoungestTells /\ HandOrHead
    BY <2>1 DEF FilesTold
  <2>3. YoungestTells'
    BY <2>1, <2>2 DEF YoungestTells, Tells
  <2>4. HandOrHead'
    <3> SUFFICES ASSUME \A i \in 1..Len(queue) : ~IsFile(queue[i])
                 PROVE  Knows'
      BY <2>1 DEF HandOrHead, IsFile
    <3>1. CASE IsFile(raw)
      BY <2>1, <2>2, <3>1, HandledFile DEF HandOrHead, Knows
    <3>2. CASE raw.id = "QUEUE_OVERFLOW"
      BY <2>1, <3>2, HandledFile DEF Knows
    <3>3. CASE ~IsFile(raw) /\ raw.id # "QUEUE_OVERFLOW"
      <4>1. Knows /\ shown' = shown
        BY <2>1, <2>2, <3>3, HandledFile DEF HandOrHead
      <4> QED
        BY <2>1, <4>1 DEF Knows
    <3> QED
      BY <3>1, <3>2, <3>3
  <2> QED
    BY <2>3, <2>4
<1>8. CASE HandleUnwanted
  <2>1. /\ UNCHANGED <<played, queue, choked, shown>> /\ raw'.id = "NONE" /\ ~over
        /\ ~IsFile(raw) /\ raw.id # "QUEUE_OVERFLOW"
    BY <1>8, EventLoopAssumption DEF HandleUnwanted, NoRaw, Raw, over, IsFile, playerVars
  <2>2. YoungestTells /\ HandOrHead
    BY <2>1 DEF FilesTold
  <2> QED
    BY <2>1, <2>2 DEF YoungestTells, HandOrHead, Tells, Knows, IsFile
<1>9. CASE HandleShutdown \/ Destroy
  BY <1>9 DEF HandleShutdown, Destroy, over
<1> QED
  BY <1>1, <1>2, <1>3, <1>4, <1>5, <1>6, <1>7, <1>8, <1>9, FileCases

\* A loop that has read all there is knows which file plays and how the last one ended,
\* or was told that it missed something.
THEOREM FilesAreKnown == Spec => []FilesKnown
<1>1. Init => HandsEmpty /\ FilesTold
  <2> SUFFICES ASSUME Init PROVE HandsEmpty /\ YoungestTells /\ HandOrHead
    BY DEF FilesTold
  <2>1. raw = NoRaw /\ queue = <<>> /\ raw.id = "NONE" /\ shown = NoFile /\ played = NoFile
    BY DEF Init, NoRaw, Raw
  <2> QED
    BY <2>1 DEF HandsEmpty, YoungestTells, HandOrHead, IsFile, Knows, NoFile
<1>2. TypeInv /\ FilesTold => FilesKnown
  <2> SUFFICES ASSUME TypeInv, FilesTold, ~over, ~choked,
                      raw.id \notin {"START_FILE", "END_FILE", "QUEUE_OVERFLOW"},
                      ~Queued("START_FILE"), ~Queued("END_FILE"), shown # None
               PROVE  /\ shown.entry = played.entry
                      /\ shown.end = None <=> played.end = None
                      /\ played.end # None =>
                           /\ shown.end.tag = "Ok" <=> played.end.error = 0
                           /\ shown.end.code = played.end.error
    BY DEF FilesKnown
  <2>1. Knows
    BY DEF FilesTold, HandOrHead, IsFile, Queued
  <2>2. CASE played.end = None
    BY <2>1, <2>2 DEF Knows
  <2>3. CASE played.end # None
    <3>1. played.end \in Endings
      BY <2>3 DEF TypeInv, TypeOK
    <3>2. played.end.reason = 4 <=> played.end.error # 0
      BY <3>1, EventLoopAssumption
    <3>3. shown.end = IF played.end.reason = 4 THEN ErrorFrom(played.end.error) ELSE Ok
      BY <2>1, <2>3 DEF Knows
    <3>4. shown.end # None
      <4>1. played.end.error \in Int
        BY <3>1, EventLoopAssumption
      <4> QED
        BY <3>3, <4>1, NoneIsNoResult
    <3>5. /\ ErrorFrom(played.end.error).tag # "Ok" /\ ErrorFrom(played.end.error).code = played.end.error
          /\ Ok.tag = "Ok" /\ Ok.code = 0
      BY DEF ErrorFrom, Ok
    <3> QED
      BY <2>1, <2>3, <3>2, <3>3, <3>4, <3>5 DEF Knows
  <2> QED
    BY <2>2, <2>3
<1> QED
  BY <1>1, <1>2, InitType, StepType, HandsEmptyStep, FilesToldStep, PTL DEF Spec

=============================================================================
