----------------------------- MODULE EventLoop -----------------------------
(***************************************************************************)
(* One handle, the thread that polls its event queue and a thread that     *)
(* issues requests: wait_event, the asynchronous calls and their abort,    *)
(* observed properties, the event filter, hooks and wakeups of             *)
(* mpv-client/src/lib.rs, with the error conversion of error.rs and the    *)
(* loop the README gives to every plugin.                                  *)
(*                                                                         *)
(* The queue of libmpv is external: a ring buffer of Cap events in which a *)
(* request that was accepted has a place reserved for its reply.  Once an  *)
(* event did not fit, nothing more is queued until the client has emptied  *)
(* the queue and was told so.  Changes of an observed property are not     *)
(* queued but coalesced, and returned when the queue is empty.             *)
(***************************************************************************)
EXTENDS Integers, Sequences, FiniteSets

CONSTANTS Requests,    \* requests the program may send, each with its own reply number
          ReplyOf,     \* the event that answers a request: which *_async call sends it
          Endless,     \* commands that need not end before they are aborted
          Outcomes,    \* codes with which mpv finishes a request
          Values,      \* values of a property
          Observations, \* observe_property calls the program may make
          UserOf,      \* the reply number of an observation
          NameOf,      \* the property of an observation
          Hooks,       \* hooks the program may add a handler for
          Entries,     \* entries of the playlist
          Endings,     \* how playback of a file may end, a reason and an error code
          Wakeups,     \* the program interrupts wait_event
          Timeouts,    \* timeouts of the loop: "zero" polls, "forever" blocks
          Notices,     \* events without data that mpv sends on its own
          Cap,         \* size of the event queue
          Budget,      \* bound: things the player does on its own
          Invalid,     \* what the data of a property without a value holds
          None         \* absence of a value

EventIds == {"NONE", "SHUTDOWN", "LOG_MESSAGE", "GET_PROPERTY_REPLY",
             "SET_PROPERTY_REPLY", "COMMAND_REPLY", "START_FILE", "END_FILE",
             "FILE_LOADED", "IDLE", "TICK", "CLIENT_MESSAGE", "VIDEO_RECONFIG",
             "AUDIO_RECONFIG", "SEEK", "PLAYBACK_RESTART", "PROPERTY_CHANGE",
             "QUEUE_OVERFLOW", "HOOK"}

Replies == {"GET_PROPERTY_REPLY", "SET_PROPERTY_REPLY", "COMMAND_REPLY"}

ASSUME EventLoopAssumption ==
  /\ Cap \in Nat \ {0}
  /\ Budget \in Nat
  /\ IsFiniteSet(Observations)
  /\ \A r \in Requests : ReplyOf[r] \in Replies
  /\ Endless \subseteq {r \in Requests : ReplyOf[r] = "COMMAND_REPLY"}
  /\ Outcomes \subseteq Int
  /\ Wakeups \in BOOLEAN
  /\ \A e \in Endings : e.error \in Int /\ e.error <= 0 /\ (e.reason = 4 <=> e.error # 0)
  /\ Timeouts \subseteq {"zero", "forever"}
  /\ Notices \subseteq EventIds \ (Replies \cup {"NONE", "SHUTDOWN", "PROPERTY_CHANGE", "QUEUE_OVERFLOW",
                                         "HOOK", "START_FILE", "END_FILE"})
  /\ None \notin Requests \cup Values \cup Entries
  /\ None \notin Endings /\ None \notin [tag : {"Ok", "Nul", "MpvKnown", "MpvUnknown"}, code : Int]
  /\ Invalid \notin Values \cup {None}

Users == {UserOf[o] : o \in Observations}
Names == {NameOf[o] : o \in Observations}

VARIABLES pc,        \* the loop: "run", a timeout, "handle", "left" or "done"
          raw,       \* what mpv_wait_event returned last
          worker,    \* the other thread: "free" or "waitasync"
          sent,      \* sent[r]: what the *_async call returned, or None
          answer,    \* answer[r]: results the loop got for request r
          seen,      \* seen[p]: the loop's copy of property p
          shown,     \* the loop's idea of the file that plays, None after a loss
          held,      \* held[u]: observations under number u, by what the calls returned
          off,       \* the events the program does not want
          queue,     \* libmpv: events not yet returned
          inflight,  \* libmpv: accepted requests with no reply yet
          outcome,   \* libmpv: outcome[r], the code request r finished with
          aborted,   \* libmpv: requests that were told to end
          choked,    \* libmpv: an event was lost and the loop was not told
          wake,      \* libmpv: mpv_wakeup was called since the last return
          muted,     \* libmpv: the events it does not send to this handle
          observed,  \* libmpv: observations
          dirty,     \* libmpv: observations with a change not yet returned
          value,     \* player: value[p], None while the property is unavailable
          played,    \* player: the last file: its entry and how it ended, None while it plays
          hooked,    \* libmpv: hooks with a handler
          hook,      \* player: id of the hook it is blocked in, or None
          quitting,  \* player: it disconnects its clients
          budget     \* things the player may still do on its own

loopVars == <<pc, raw, answer, seen, shown>>
workerVars == <<worker, sent>>
requestVars == <<inflight, outcome, aborted>>
propertyVars == <<held, observed, dirty, value>>
filterVars == <<off, muted>>
playerVars == <<played, hooked, hook, quitting, budget>>
vars == <<loopVars, workerVars, requestVars, propertyVars, filterVars, playerVars, queue, choked, wake>>

-----------------------------------------------------------------------------
(* Errors: the macros result! and result_with_code!, and error.rs.         *)

Ok == [tag |-> "Ok", code |-> 0]
ErrNul == [tag |-> "Nul", code |-> 0]

EventQueueFull == -1
InvalidParameter == -4
PropertyFormat == -9

\* Codes that have an arm in Error::from; MpvError has them all and -1 too.
MatchedCodes == {0} \cup -20..-2
MpvErrors == -20..0

ErrorFrom(code) ==
  [tag |-> IF code \in MatchedCodes THEN "MpvKnown" ELSE "MpvUnknown", code |-> code]

Result(code) == IF code >= 0 THEN Ok ELSE ErrorFrom(code)

\* Mutant: the code of a success is dropped, as by result!.
ResultNoCode(code) == Result(code)

\* unobserve_property keeps the code of a success: the number of registrations.
ResultWithCode(code) == IF code >= 0 THEN [tag |-> "Ok", code |-> code] ELSE ErrorFrom(code)

-----------------------------------------------------------------------------
(* Events: from mpv_event to Event and back to an event id.                *)

Raw(id, user, error, data) == [id |-> id, user |-> user, error |-> error, data |-> data]
NoRaw == Raw("NONE", None, 0, None)

\* The arms of Event::from_ptr.
Arms == [SHUTDOWN |-> "Shutdown", LOG_MESSAGE |-> "LogMessage",
         GET_PROPERTY_REPLY |-> "GetPropertyReply",
         SET_PROPERTY_REPLY |-> "SetPropertyReply",
         COMMAND_REPLY |-> "CommandReply", START_FILE |-> "StartFile",
         END_FILE |-> "EndFile", FILE_LOADED |-> "FileLoaded",
         CLIENT_MESSAGE |-> "ClientMessage", VIDEO_RECONFIG |-> "VideoReconfig",
         AUDIO_RECONFIG |-> "AudioReconfig", SEEK |-> "Seek",
         PLAYBACK_RESTART |-> "PlaybackRestart",
         PROPERTY_CHANGE |-> "PropertyChange",
         QUEUE_OVERFLOW |-> "QueueOverflow", HOOK |-> "Hook"]

\* Mutants: from_ptr without one of its arms.
VariantNoReply(id) == IF id \in DOMAIN Arms \ {"SET_PROPERTY_REPLY"} THEN Arms[id] ELSE "None"
VariantNoOverflow(id) == IF id \in DOMAIN Arms \ {"QUEUE_OVERFLOW"} THEN Arms[id] ELSE "None"
VariantNoShutdown(id) == IF id \in DOMAIN Arms \ {"SHUTDOWN"} THEN Arms[id] ELSE "None"
VariantNoHook(id) == IF id \in DOMAIN Arms \ {"HOOK"} THEN Arms[id] ELSE "None"

\* An id without an arm gives Event::None.
Variant(id) == IF id \in DOMAIN Arms THEN Arms[id] ELSE "None"

\* The arms of u32::from(&Event), whose value names the event in its Display
\* and can be given to request_event.
Ids == [None |-> "NONE", Shutdown |-> "SHUTDOWN", LogMessage |-> "LOG_MESSAGE",
        GetPropertyReply |-> "GET_PROPERTY_REPLY",
        SetPropertyReply |-> "SET_PROPERTY_REPLY",
        CommandReply |-> "COMMAND_REPLY", StartFile |-> "START_FILE",
        EndFile |-> "END_FILE", FileLoaded |-> "FILE_LOADED",
        ClientMessage |-> "CLIENT_MESSAGE", VideoReconfig |-> "VIDEO_RECONFIG",
        AudioReconfig |-> "AUDIO_RECONFIG", Seek |-> "SEEK",
        PlaybackRestart |-> "PLAYBACK_RESTART",
        PropertyChange |-> "PROPERTY_CHANGE",
        QueueOverflow |-> "QUEUE_OVERFLOW", Hook |-> "HOOK"]

\* Mutant: two arms swapped.
EventIdSwapped(tag) == IF tag = "Seek" THEN Ids["PlaybackRestart"] ELSE Ids[tag]

EventId(tag) == Ids[tag]

\* Variants whose first or second field is the reply number.
Tagged == Replies \cup {"PROPERTY_CHANGE", "HOOK"}

\* Mutant: the reply number is taken for the result of the request.
FromPtrNoResult(r) ==
  [tag |-> Variant(r.id), user |-> r.user, res |-> Ok, data |-> r.data]

FromPtr(r) ==
  [tag  |-> Variant(r.id),
   user |-> IF r.id \in Tagged THEN r.user ELSE None,
   res  |-> IF r.id \in Replies THEN Result(r.error) ELSE Ok,
   data |-> r.data]

Event == FromPtr(raw)

\* mpv_event_start_file and mpv_event_end_file, and StartFile::playlist_entry_id.
StartFileEvent(entry) == [entry |-> entry]
EndFileEvent(entry, e) == [entry |-> entry, reason |-> e.reason, error |-> e.error]
PlaylistEntryId(d) == d.entry

\* Mutant: the reasons are numbered without a gap.
EndFileReasonShifted(n) ==
  IF n \in 0..4 THEN <<"Eof", "Stop", "Quit", "Error", "Redirect">>[n + 1] ELSE "Unknown"

\* From<u32> for EndFileReason.
EndFileReason(n) == CASE n = 0 -> "Eof"   [] n = 2 -> "Stop"     [] n = 3 -> "Quit"
                      [] n = 4 -> "Error" [] n = 5 -> "Redirect" [] OTHER -> "Unknown"

\* EndFile::error: the code is only looked at if the reason is an error.
EndFileError(d) == IF EndFileReason(d.reason) = "Error" THEN ErrorFrom(d.error) ELSE Ok

\* mpv_event_property: without a value the format is NONE and data is not valid.
PropertyEvent(p, v) ==
  IF v = None THEN [name |-> p, format |-> "NONE", data |-> Invalid]
  ELSE [name |-> p, format |-> "INT64", data |-> v]

\* mpv_event_hook, and Hook::id.
HookEvent(id) == [hook |-> id]
HookId(h) == h.hook

\* Mutant: the data is read whatever its format.
PropertyDataUnchecked(p) == p.data

\* Property::data::<i64>: only data of the format asked for is read.
PropertyData(p) == IF p.format = "INT64" THEN p.data ELSE None

-----------------------------------------------------------------------------
(* The event queue of libmpv.                                              *)

Room == ~choked /\ Len(queue) + Cardinality(inflight) < Cap

\* An event is queued if it fits; otherwise it is lost and the queue chokes.
Post(r) == IF Room THEN queue' = Append(queue, r) /\ UNCHANGED choked
           ELSE choked' = TRUE /\ UNCHANGED queue

Queued(id) == \E i \in 1..Len(queue) : queue[i].id = id

-----------------------------------------------------------------------------
NoFile == [entry |-> None, end |-> None]

Init ==
  /\ pc = "run" /\ raw = NoRaw
  /\ worker = "free"
  /\ sent = [r \in Requests |-> None]
  /\ answer = [r \in Requests |-> <<>>]
  /\ seen = [p \in Names |-> None] /\ shown = NoFile /\ played = NoFile
  /\ held = [u \in Users |-> 0]
  /\ queue = <<>> /\ inflight = {} /\ aborted = {}
  /\ outcome = [r \in Requests |-> None]
  /\ choked = FALSE /\ wake = FALSE
  /\ muted = Notices \cap {"TICK"} /\ off = muted
  /\ observed = {} /\ dirty = {} /\ value \in [Names -> Values]
  /\ hooked = {} /\ hook = None /\ quitting = FALSE /\ budget = Budget

\* The program left its event loop.
over == pc \in {"left", "done"}

\* The worker starts calls until the loop is left; then it is joined.
Working == ~over /\ worker = "free"

\* command_async, set_property_async and get_property_async.  An argument with
\* a NUL byte is refused before libmpv is called; libmpv refuses a malformed
\* request, and any request while the queue has no place for the reply.
SendAsync(r) ==
  /\ Working
  /\ sent[r] = None
  /\ \/ sent' = [sent EXCEPT ![r] = ErrNul] /\ UNCHANGED inflight
     \/ sent' = [sent EXCEPT ![r] = Result(InvalidParameter)] /\ UNCHANGED inflight
     \/ ~Room /\ sent' = [sent EXCEPT ![r] = Result(EventQueueFull)] /\ UNCHANGED inflight
     \/ Room /\ sent' = [sent EXCEPT ![r] = Result(0)] /\ inflight' = inflight \cup {r}
  /\ UNCHANGED <<loopVars, worker, outcome, aborted, propertyVars, filterVars, playerVars, queue, choked, wake>>

\* Mutant: an aborted request is dropped, and its reply with it.
AbortDrops(r) ==
  /\ ~over
  /\ worker = "free" \/ pc \in {"run", "handle"}
  /\ aborted' = aborted \cup ({r} \cap inflight)
  /\ inflight' = inflight \ {r}
  /\ UNCHANGED <<loopVars, workerVars, outcome, propertyVars, filterVars, playerVars, queue, choked, wake>>

\* abort_async_command, by either thread: a command that has not ended yet is told
\* to end, and ends with a reply like any other.
Abort(r) ==
  /\ ~over
  /\ worker = "free" \/ pc \in {"run", "handle"}
  /\ aborted' = aborted \cup ({r} \cap inflight)
  /\ UNCHANGED <<loopVars, workerVars, inflight, outcome, propertyVars, filterVars, playerVars, queue, choked, wake>>

\* wait_async_requests blocks until libmpv has finished every request; with none
\* in flight it returns at once.
WaitAsyncCall ==
  /\ Working
  /\ inflight # {}
  /\ worker' = "waitasync"
  /\ UNCHANGED <<loopVars, sent, requestVars, propertyVars, filterVars, playerVars, queue, choked, wake>>

\* Mutant: it waits until the replies were read as well.
WaitAsyncUnread ==
  /\ worker = "waitasync"
  /\ inflight = {} /\ queue = <<>>
  /\ worker' = "free"
  /\ UNCHANGED <<loopVars, sent, requestVars, propertyVars, filterVars, playerVars, queue, choked, wake>>

WaitAsyncReturn ==
  /\ worker = "waitasync"
  /\ inflight = {}
  /\ worker' = "free"
  /\ UNCHANGED <<loopVars, sent, requestVars, propertyVars, filterVars, playerVars, queue, choked, wake>>

\* observe_property fails when libmpv does not support the format.  The current
\* value counts as a change.
Observe(o, code) ==
  /\ Working
  /\ o \notin observed
  /\ held' = IF Result(code) = Ok THEN [held EXCEPT ![UserOf[o]] = @ + 1] ELSE held
  /\ IF code >= 0 THEN observed' = observed \cup {o} /\ dirty' = dirty \cup {o}
                  ELSE UNCHANGED <<observed, dirty>>
  /\ UNCHANGED <<loopVars, workerVars, requestVars, value, filterVars, playerVars, queue, choked, wake>>

Under(u) == {o \in observed : UserOf[o] = u}

\* unobserve_property removes all observations under a reply number; the program
\* strikes off as many as the call says it removed.
Unobserve(u) ==
  /\ Working
  /\ held' = [held EXCEPT ![u] = @ - ResultWithCode(Cardinality(Under(u))).code]
  /\ observed' = observed \ Under(u)
  /\ dirty' = dirty \ Under(u)
  /\ UNCHANGED <<loopVars, workerVars, requestVars, value, filterVars, playerVars, queue, choked, wake>>

\* request_event(id, enable).
RequestEvent(id, enable) == muted' = IF enable THEN muted \ {id} ELSE muted \cup {id}

\* The program wants an event again.
WantEvent(id) ==
  /\ Working
  /\ id \in off
  /\ off' = off \ {id}
  /\ RequestEvent(id, TRUE)
  /\ UNCHANGED <<loopVars, workerVars, requestVars, propertyVars, playerVars, queue, choked, wake>>

HookAdd(h) ==
  /\ Working
  /\ hooked' = hooked \cup {h}
  /\ UNCHANGED <<loopVars, workerVars, requestVars, propertyVars, filterVars, played, hook, quitting, budget, queue, choked, wake>>

Wakeup ==
  /\ Wakeups
  /\ Working
  /\ wake' = TRUE
  /\ UNCHANGED <<loopVars, workerVars, requestVars, propertyVars, filterVars, playerVars, queue, choked>>

-----------------------------------------------------------------------------
(* The player, on its own threads.                                         *)

\* mpv finishes a request and fills the place reserved for its reply.
Reply(r, code) ==
  /\ r \in inflight
  /\ inflight' = inflight \ {r}
  /\ outcome' = [outcome EXCEPT ![r] = code]
  /\ queue' = Append(queue, Raw(ReplyOf[r], r, code, None))
  /\ UNCHANGED <<loopVars, workerVars, aborted, propertyVars, filterVars, playerVars, choked, wake>>

Spend == pc # "done" /\ budget > 0 /\ budget' = budget - 1

Notify(id) ==
  /\ Spend
  /\ IF id \in muted THEN UNCHANGED <<queue, choked>> ELSE Post(Raw(id, None, 0, None))
  /\ UNCHANGED <<loopVars, workerVars, requestVars, propertyVars, filterVars, played, hooked, hook, quitting, wake>>

Change(p, v) ==
  /\ Spend
  /\ value' = [value EXCEPT ![p] = v]
  /\ dirty' = dirty \cup {o \in observed : NameOf[o] = p}
  /\ UNCHANGED <<loopVars, workerVars, requestVars, held, observed, filterVars, played, hooked, hook, quitting, queue, choked, wake>>

\* A file starts to play, and its playback ends.
StartFile(entry) ==
  /\ Spend
  /\ played.entry = None \/ played.end # None
  /\ played' = [entry |-> entry, end |-> None]
  /\ Post(Raw("START_FILE", None, 0, StartFileEvent(entry)))
  /\ UNCHANGED <<loopVars, workerVars, requestVars, propertyVars, filterVars, hooked, hook, quitting, wake>>

EndFile(e) ==
  /\ Spend
  /\ played.entry # None /\ played.end = None
  /\ played' = [played EXCEPT !.end = e]
  /\ Post(Raw("END_FILE", None, 0, EndFileEvent(played.entry, e)))
  /\ UNCHANGED <<loopVars, workerVars, requestVars, propertyVars, filterVars, hooked, hook, quitting, wake>>

\* A hook blocks the player until the client continues it; a hook whose event
\* cannot be queued is given up.  The ids of hooks differ.
RunHook(h) ==
  /\ Spend
  /\ h \in hooked
  /\ hook = None
  /\ hook' = IF Room THEN budget ELSE None
  /\ Post(Raw("HOOK", None, 0, HookEvent(budget)))
  /\ UNCHANGED <<loopVars, workerVars, requestVars, propertyVars, filterVars, played, hooked, quitting, wake>>

Quit ==
  /\ pc # "done"
  /\ ~quitting
  /\ quitting' = TRUE
  /\ UNCHANGED <<loopVars, workerVars, requestVars, propertyVars, filterVars, played, hooked, hook, budget, queue, choked, wake>>

\* SHUTDOWN is sent again until the client has it.
SendShutdown ==
  /\ quitting
  /\ ~over
  /\ raw.id # "SHUTDOWN"
  /\ ~Queued("SHUTDOWN")
  /\ Post(Raw("SHUTDOWN", None, 0, None))
  /\ UNCHANGED <<loopVars, workerVars, requestVars, propertyVars, filterVars, playerVars, wake>>

-----------------------------------------------------------------------------
(* The thread of the event loop.                                           *)

WaitCall(timeout) ==
  /\ pc = "run"
  /\ pc' = timeout
  /\ UNCHANGED <<raw, answer, seen, shown, workerVars, requestVars, propertyVars, filterVars, playerVars, queue, choked, wake>>

\* mpv_wait_event returns r and the loop gets Event::from_ptr(r).
Return(r) ==
  /\ pc \in Timeouts
  /\ pc' = "handle"
  /\ raw' = r
  /\ wake' = FALSE
  /\ UNCHANGED <<answer, seen, shown, workerVars, requestVars, held, observed, value, filterVars, playerVars>>

ReturnOverflow ==
  /\ queue = <<>> /\ choked
  /\ Return(Raw("QUEUE_OVERFLOW", None, 0, None))
  /\ choked' = FALSE
  /\ UNCHANGED <<queue, dirty>>

ReturnQueued ==
  /\ queue # <<>>
  /\ Return(Head(queue))
  /\ queue' = Tail(queue)
  /\ UNCHANGED <<choked, dirty>>

ReturnProperty(o) ==
  /\ queue = <<>> /\ ~choked
  /\ o \in dirty
  /\ Return(Raw("PROPERTY_CHANGE", UserOf[o], 0, PropertyEvent(NameOf[o], value[NameOf[o]])))
  /\ dirty' = dirty \ {o}
  /\ UNCHANGED <<queue, choked>>

ReturnNone ==
  /\ queue = <<>> /\ ~choked /\ dirty = {}
  /\ wake \/ pc = "zero"
  /\ Return(NoRaw)
  /\ UNCHANGED <<queue, choked, dirty>>

\* What the loop takes for the file that plays: after a loss it does not know.
Shown == CASE Event.tag = "StartFile" -> [entry |-> PlaylistEntryId(Event.data), end |-> None]
           [] Event.tag = "EndFile" -> [entry |-> PlaylistEntryId(Event.data), end |-> EndFileError(Event.data)]
           [] Event.tag = "QueueOverflow" -> None
           [] OTHER -> shown

\* The body of the loop: the README's break on Event::Shutdown, and what the
\* documentation of the other events asks for.
HandleShutdown ==
  /\ pc = "handle"
  /\ Event.tag = "Shutdown"
  /\ pc' = "left" /\ raw' = NoRaw
  /\ UNCHANGED <<answer, seen, shown, workerVars, requestVars, propertyVars, filterVars, playerVars, queue, choked, wake>>

\* hook_continue(id): an id other than that of the running hook is refused.
HookContinue(id) == hook' = IF id = hook THEN None ELSE hook

HandleEvent ==
  /\ pc = "handle"
  /\ Event.tag # "Shutdown"
  /\ pc' = "run" /\ raw' = NoRaw
  /\ answer' = IF Event.tag \in {"GetPropertyReply", "SetPropertyReply", "CommandReply"}
               THEN [answer EXCEPT ![Event.user] = Append(@, Event.res)] ELSE answer
  /\ seen' = IF Event.tag = "PropertyChange"
             THEN [seen EXCEPT ![Event.data.name] = PropertyData(Event.data)] ELSE seen
  /\ shown' = Shown
  /\ IF Event.tag = "Hook" THEN HookContinue(HookId(Event.data)) ELSE UNCHANGED hook
  /\ UNCHANGED <<workerVars, requestVars, propertyVars, filterVars, played, hooked, quitting, budget, queue, choked, wake>>

\* The program turns off the kind of event it just got.
HandleUnwanted ==
  /\ pc = "handle"
  /\ raw.id \in Notices
  /\ Event.tag # "None"
  /\ pc' = "run" /\ raw' = NoRaw
  /\ off' = off \cup {raw.id}
  /\ RequestEvent(EventId(Event.tag), FALSE)
  /\ UNCHANGED <<answer, seen, shown, workerVars, requestVars, propertyVars, playerVars, queue, choked, wake>>

\* Once the worker holds no borrow the program ends and the handle is destroyed:
\* what is queued is gone, a hook in progress is continued.
Destroy ==
  /\ pc = "left"
  /\ worker = "free"
  /\ pc' = "done"
  /\ queue' = <<>> /\ inflight' = {} /\ hook' = None
  /\ UNCHANGED <<raw, answer, seen, shown, workerVars, outcome, aborted, propertyVars, filterVars, played, hooked, quitting, budget, choked, wake>>

LoopStep ==
  \/ \E timeout \in Timeouts : WaitCall(timeout)
  \/ ReturnOverflow \/ ReturnQueued \/ ReturnNone
  \/ \E o \in Observations : ReturnProperty(o)
  \/ HandleShutdown \/ HandleEvent \/ HandleUnwanted \/ Destroy

WorkerStep ==
  \/ \E r \in Requests : SendAsync(r)
  \/ WaitAsyncCall \/ WaitAsyncReturn \/ Wakeup
  \/ \E h \in Hooks : HookAdd(h)
  \/ \E o \in Observations, code \in {0, PropertyFormat} : Observe(o, code)
  \/ \E u \in Users : Unobserve(u)
  \/ \E id \in Notices : WantEvent(id)

PlayerStep ==
  \/ \E r \in Requests, code \in Outcomes : Reply(r, code)
  \/ \E id \in Notices : Notify(id)
  \/ \E p \in Names, v \in Values \cup {None} : Change(p, v)
  \/ \E entry \in Entries : StartFile(entry)
  \/ \E e \in Endings : EndFile(e)
  \/ \E h \in Hooks : RunHook(h)
  \/ Quit \/ SendShutdown

Next == LoopStep \/ WorkerStep \/ PlayerStep \/ \E r \in Requests : Abort(r)

Spec == Init /\ [][Next]_vars

\* mpv ends a request on its own, or when it was aborted, or while it quits.
Ends(r) == r \in Endless => r \in aborted \/ quitting

\* The loop is a thread that runs, libmpv returns the changes of observed
\* properties in turn, finishes what it accepted and sends SHUTDOWN again while
\* it waits; nothing else has to happen.
LiveSpec ==
  /\ Spec
  /\ WF_vars(LoopStep)
  /\ \A o \in Observations : SF_vars(ReturnProperty(o))
  /\ WF_vars(WaitAsyncReturn)
  /\ \A r \in Requests : WF_vars(Ends(r) /\ \E code \in Outcomes : Reply(r, code))
  /\ WF_vars(SendShutdown)

-----------------------------------------------------------------------------
Results == {Ok, ErrNul} \cup {ErrorFrom(code) : code \in Outcomes \cup {EventQueueFull, InvalidParameter}}

\* What libmpv can queue.
RawEvents ==
  {Raw(ReplyOf[r], r, code, None) : r \in Requests, code \in Outcomes}
    \cup {Raw(id, None, 0, None) : id \in Notices \cup {"NONE", "SHUTDOWN", "QUEUE_OVERFLOW"}}
    \cup {Raw("HOOK", None, 0, HookEvent(id)) : id \in 1..Budget}
    \cup {Raw("START_FILE", None, 0, StartFileEvent(entry)) : entry \in Entries}
    \cup {Raw("END_FILE", None, 0, EndFileEvent(entry, e)) : entry \in Entries, e \in Endings}
    \cup {Raw("PROPERTY_CHANGE", UserOf[o], 0, PropertyEvent(NameOf[o], v)) :
            o \in Observations, v \in Values \cup {None}}

\* Every variable holds a value of its type, and the queue never grows past the
\* places it has, those reserved for replies included.
TypeOK ==
  /\ pc \in {"run", "handle", "left", "done"} \cup Timeouts
  /\ raw \in RawEvents
  /\ worker \in {"free", "waitasync"}
  /\ sent \in [Requests -> Results \cup {None}]
  /\ answer \in [Requests -> Seq(Results)]
  /\ seen \in [Names -> Values \cup {None}]
  /\ shown = None \/ shown \in [entry : Entries \cup {None},
                                end : {None, Ok} \cup {ErrorFrom(e.error) : e \in Endings}]
  /\ played \in [entry : Entries \cup {None}, end : Endings \cup {None}]
  /\ held \in [Users -> Int]
  /\ off \subseteq Notices /\ muted \subseteq EventIds
  /\ queue \in Seq(RawEvents)
  /\ inflight \subseteq Requests /\ aborted \subseteq Requests
  /\ outcome \in [Requests -> Outcomes \cup {None}]
  /\ choked \in BOOLEAN /\ wake \in BOOLEAN /\ quitting \in BOOLEAN
  /\ observed \subseteq Observations /\ dirty \subseteq observed
  /\ value \in [Names -> Values \cup {None}]
  /\ hooked \subseteq Hooks /\ hook \in 1..Budget \cup {None}
  /\ budget \in 0..Budget
  /\ Len(queue) + Cardinality(inflight) <= Cap

\* A request is answered at most once, with the result mpv finished it with,
\* and only if its call said Ok: an Err means that no event will come
\* (lib.rs 333-339).
AnsweredAsSent ==
  \A r \in Requests : answer[r] # <<>> =>
    /\ sent[r] = Ok
    /\ Len(answer[r]) = 1
    /\ answer[r][1].tag = "Ok" <=> outcome[r] >= 0
    /\ answer[r][1].tag # "Ok" => answer[r][1].code = outcome[r]

\* What the program asked to be left out by the ids its events convert to
\* (lib.rs 803-832, 1647-1669) is what libmpv leaves out, and nothing else.
FilterAsAsked == muted = off

\* A program that counts its observations by the results of its calls knows how
\* many it has: unobserve_property returns a count (lib.rs 545-548), which its
\* documentation calls 0.
ObservationsKnown == \A u \in Users : held[u] = Cardinality(Under(u))

\* An error code that MpvError names is reported by that name (error.rs 38-60).
KnownErrorsAreKnown ==
  \A r \in Requests :
    sent[r] # None /\ sent[r].tag = "MpvUnknown" => sent[r].code \notin MpvErrors

\* An event that was lost is never lost silently: the loop gets QueueOverflow.
OverflowReported == choked ~> (pc = "handle" /\ Event.tag = "QueueOverflow") \/ over

\* A loop that has read all there is knows which file plays, or how the last one
\* ended, unless it was told of a loss since (lib.rs 1182-1189): an EndFile has an
\* error exactly when playback failed, and no event of a file is lost silently.
FilesKnown ==
  ~over /\ ~choked /\ raw.id \notin {"START_FILE", "END_FILE", "QUEUE_OVERFLOW"}
        /\ ~Queued("START_FILE") /\ ~Queued("END_FILE")
  => \/ shown = None
     \/ /\ shown.entry = played.entry
        /\ shown.end = None <=> played.end = None
        /\ played.end # None =>
             /\ shown.end.tag = "Ok" <=> played.end.error = 0
             /\ shown.end.code = played.end.error

\* A hook that blocks the player is continued.
HooksContinue == hook # None ~> hook = None

\* Once the player quits, the loop of the README ends and the program with it,
\* even while its other thread waits for a command.
ShutdownEndsLoop == quitting ~> pc = "done"

\* wait_async_requests returns once the requests that do not end by themselves
\* are aborted, whether or not the loop still reads the replies.
WaitAsyncReturns ==
  worker = "waitasync" /\ (\A r \in inflight : Ends(r)) ~> worker = "free"

\* When an observed property stays what it is, the loop comes to know it, however
\* its changes were coalesced, whether it is available or not, and whatever other
\* observations are removed.
PropertyConverges ==
  \A p \in Names :
    <>[]((\E o \in observed : NameOf[o] = p) /\ ~over) => <>[](seen[p] = value[p])

-----------------------------------------------------------------------------
(* The asynchronous calls, as module AsyncCalls states them.               *)
call == [r \in Requests |->
  IF sent[r] = None THEN "unsent"
  ELSE IF answer[r] # <<>> THEN "answered"
  ELSE IF sent[r] = Ok THEN "pending" ELSE "failed"]

Calls == INSTANCE AsyncCalls WITH over <- over, aborted <- aborted

\* A call fails and is never answered, or is answered exactly once unless the
\* loop ends first (lib.rs 327-342).
ImplementsCalls == Calls!Spec

=============================================================================
