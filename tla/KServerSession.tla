--------------------------- MODULE KServerSession ---------------------------
(***************************************************************************)
(* One session between client and server threads: requests, replies and    *)
(* the end of either side (k_server_session.cpp, k_session.cpp,            *)
(* k_client_session.cpp, k_session_request.h, svc_ipc.cpp), with the       *)
(* references that keep its parts alive (k_auto_object.h).                 *)
(*                                                                         *)
(* The request list is used under the scheduler lock; the session's light  *)
(* lock m_lock is held from there on, while a request is received or       *)
(* answered; m_current_request is set under m_lock only, and the state of  *)
(* KSession under neither.  A critical section of the scheduler lock is a  *)
(* step, and takes m_lock on entry when the code takes it just before.     *)
(* The contents of messages are left out.                                  *)
(***************************************************************************)
EXTENDS Integers, Sequences, FiniteSets, SequencesExt

CONSTANTS
    Clients, Servers,   \* the threads of the two sides
    Nobody,             \* a null KThread*
    Requests,           \* the slab of KSessionRequest
    NoRequest,          \* a null KSessionRequest*
    Async,              \* the clients that make asynchronous requests
    Mortal              \* the clients that may be terminated

ASSUME SessionAssumption ==
    /\ Clients \cap Servers = {}
    /\ Nobody \notin Clients \cup Servers
    /\ NoRequest \notin Requests
    /\ Async \subseteq Clients /\ Mortal \subseteq Clients
    /\ IsFiniteSet(Clients) /\ IsFiniteSet(Servers) /\ IsFiniteSet(Requests)

Threads == Clients \cup Servers

VARIABLES
    state,          \* KSession::m_atomic_state
    handle,         \* the handles the two processes have of their ends
    refs,           \* reference counts of the client end, server end and parent
    list, current,  \* m_request_list, m_current_request
    lock,           \* the owner of m_lock
    rrefs,          \* a request's reference count, 0 for a free slab entry
    thread, event,  \* its m_thread, and whether m_event is set
    trefs,          \* how often a client thread is opened by what is modelled here
    terminating,    \* the threads with IsTerminationRequested
    pc,             \* where a thread is in its call
    own,            \* the request a client's call has created
    hand,           \* the request a thread is working on
    prev,           \* OnClientClosed's prev_request
    victim          \* the thread OnClientClosed has taken out of its request

sessionVars == <<state, handle, refs>>
queueVars == <<list, current, lock>>
requestVars == <<rrefs, thread, event, trefs>>
localVars == <<own, hand, prev, victim>>
vars == <<state, handle, refs, list, current, lock, rrefs, thread, event, trefs,
          terminating, pc, own, hand, prev, victim>>

Ends == {"client", "server", "parent"}
None == [t \in Threads |-> NoRequest]

TypeOK ==
    /\ state \in {"Normal", "ClientClosed", "ServerClosed"}
    /\ handle \in [{"client", "server"} -> BOOLEAN]
    /\ refs \in [Ends -> Nat]
    /\ list \in Seq(Requests)
    /\ current \in Requests \cup {NoRequest}
    /\ lock \in Threads \cup {Nobody}
    /\ rrefs \in [Requests -> Nat]
    /\ thread \in [Requests -> Clients \cup {Nobody}]
    /\ event \in [Requests -> BOOLEAN]
    /\ trefs \in [Clients -> Nat]
    /\ terminating \subseteq Clients
    /\ own \in [Clients -> Requests \cup {NoRequest}]
    /\ \A f \in {hand, prev} : f \in [Threads -> Requests \cup {NoRequest}]
    /\ victim \in [Threads -> Clients \cup {Nobody}]

\* KSession::Initialize: both ends have a handle, and hold the parent.
Init ==
    /\ state = "Normal"
    /\ handle = [e \in {"client", "server"} |-> TRUE]
    /\ refs = [e \in Ends |-> IF e = "parent" THEN 2 ELSE 1]
    /\ list = <<>> /\ current = NoRequest /\ lock = Nobody
    /\ rrefs = [r \in Requests |-> 0]
    /\ thread = [r \in Requests |-> Nobody]
    /\ event = [r \in Requests |-> FALSE]
    /\ trefs = [t \in Clients |-> 0]
    /\ terminating = {}
    /\ pc = [t \in Threads |-> "idle"]
    /\ own = [t \in Clients |-> NoRequest]
    /\ hand = None /\ prev = None
    /\ victim = [t \in Threads |-> Nobody]

-----------------------------------------------------------------------------
(* What the handlers share.                                                *)

At(t, where) == pc[t] = where

\* KServerSession::IsSignaled, with request list l and current request c.
Signaled(l, c) == state # "Normal" \/ (l # <<>> /\ c = NoRequest)
IsSignaled == Signaled(list, current)

\* KSynchronizationObject::NotifyAvailable: if the session is signaled, the servers
\* that sleep on it go on to wherever; otherwise nothing happens.
Woken(f, wherever) == [t \in Threads |-> IF f[t] = "sleeping" THEN wherever ELSE f[t]]
NotifyAvailable(f, l, c, wherever) == IF Signaled(l, c) THEN Woken(f, wherever) ELSE f

\* Whoever has cleared the current request wakes them if the list is not empty.
NotifyNobody(f) == f    \* a mutant of NotifyIfPending
NotifyIfPending(f) ==
    IF list # <<>> THEN NotifyAvailable(f, list, NoRequest, "receive") ELSE f

\* KThread::EndWait on the thread of request r, unless it is terminating; a
\* thread that does not wait is left alone.
EndWait(f, r) ==
    LET t == thread[r] IN
    IF t # Nobody /\ t \notin terminating /\ f[t] = "waiting"
    THEN [f EXCEPT ![t] = "return"] ELSE f

\* Mutants of Answered: an asynchronous request ends its thread's wait; a session
\* that is closed does not answer.
AnsweredAlways(f, r) == EndWait(f, r)
AnsweredWhileOpen(f, r) == IF event[r] \/ state # "Normal" THEN f ELSE EndWait(f, r)

\* The answer to request r: its event is signalled, or its thread's wait ends.
Answered(f, r) == IF event[r] THEN f ELSE EndWait(f, r)

\* KSessionRequest::Close, when the thread also closes those of its own
\* references to client threads that are in also.  The last reference frees the
\* request and closes its thread.
CloseRequest(r, also) ==
    LET last == rrefs[r] = 1
        closed(t) == (IF last /\ thread[r] = t THEN 1 ELSE 0) + (IF t \in also THEN 1 ELSE 0)
    IN /\ rrefs' = [rrefs EXCEPT ![r] = @ - 1]
       /\ trefs' = [t \in Clients |-> trefs[t] - closed(t)]
       /\ thread' = IF last THEN [thread EXCEPT ![r] = Nobody] ELSE thread
       /\ event' = IF last THEN [event EXCEPT ![r] = FALSE] ELSE event

\* KAutoObject::Close on an end, by a thread that then goes on to after, or
\* destroys the end if that was its last reference.
CloseEnd(t, e, also, after) ==
    /\ refs' = [k \in Ends |-> refs[k] - (IF k \in also \cup {e} THEN 1 ELSE 0)]
    /\ pc' = [pc EXCEPT ![t] = IF refs[e] = 1 THEN "destroy" ELSE after]

\* Where a client goes when its call is over.
Home(t) == IF t \in terminating THEN "dead" ELSE "idle"

-----------------------------------------------------------------------------
(* A client's call: SendSyncRequest, or SendAsyncRequestWithUserBuffer.    *)

\* Look up the handle, keep the parent, create and initialize the request.
SendRequest(t, async) ==
    /\ t \in Clients \ terminating
    /\ At(t, "idle")
    /\ handle["client"]
    /\ async => t \in Async
    /\ \E r \in Requests :
        /\ rrefs[r] = 0
        /\ rrefs' = [rrefs EXCEPT ![r] = 1]
        /\ thread' = [thread EXCEPT ![r] = t]
        /\ event' = [event EXCEPT ![r] = async]
        /\ own' = [own EXCEPT ![t] = r]
    /\ trefs' = [trefs EXCEPT ![t] = @ + 1]
    /\ refs' = [refs EXCEPT !["client"] = @ + 1, !["parent"] = @ + 1]
    /\ pc' = [pc EXCEPT ![t] = "send"]
    /\ UNCHANGED <<state, handle, queueVars, terminating, hand, prev, victim>>

\* No request can be created, since other sessions have the slab's: the end and the
\* parent are given up with ResultOutOfResource.
SendFails(t) ==
    /\ t \in Clients \ terminating
    /\ At(t, "idle")
    /\ handle["client"]
    /\ refs' = [refs EXCEPT !["client"] = @ + 1, !["parent"] = @ + 1]
    /\ pc' = [pc EXCEPT ![t] = "leave"]
    /\ UNCHANGED <<state, handle, queueVars, requestVars, terminating, localVars>>

\* KServerSession::OnRequest: refuse, or append the request, and wait unless it
\* has an event.
OnRequest(t) ==
    LET r == own[t] IN
    /\ At(t, "send")
    /\ \/ /\ state # "Normal" \/ t \in terminating
          /\ pc' = [pc EXCEPT ![t] = "return"]
          /\ UNCHANGED <<list, rrefs>>
       \/ /\ state = "Normal" /\ t \notin terminating
          /\ rrefs' = [rrefs EXCEPT ![r] = @ + 1]
          /\ list' = Append(list, r)
          /\ LET woken == IF list = <<>>
                          THEN NotifyAvailable(pc, list', current, "receive") ELSE pc
             IN pc' = [woken EXCEPT ![t] = IF event[r] THEN "return" ELSE "waiting"]
    /\ UNCHANGED <<sessionVars, current, lock, thread, event, trefs, terminating, localVars>>

\* The end of the call: SendSyncRequest closes its request.
CallReturn(t) ==
    /\ At(t, "return")
    /\ CloseRequest(own[t], {})
    /\ own' = [own EXCEPT ![t] = NoRequest]
    /\ pc' = [pc EXCEPT ![t] = "leave"]
    /\ UNCHANGED <<sessionVars, queueVars, terminating, hand, prev, victim>>

\* SendSyncRequestImpl gives up the parent and the client end.
CallLeave(t) ==
    /\ t \in Clients
    /\ At(t, "leave")
    /\ CloseEnd(t, "client", {"parent"}, Home(t))
    /\ UNCHANGED <<state, handle, queueVars, requestVars, terminating, localVars>>

\* KThread::RequestTerminate: a wait is cancelled, and the thread returns.  A thread
\* that waits for m_lock is not terminated here: the cancelled wait would let it go
\* on without the lock (HolderOwnsTag in KLightLock fails).
WaitsForLock(t) == At(t, "drain") /\ lock \notin {Nobody, t}
RequestTerminate(t) ==
    /\ t \in Mortal \ terminating
    /\ ~At(t, "dead") /\ ~WaitsForLock(t)
    /\ terminating' = terminating \cup {t}
    /\ pc' = CASE At(t, "waiting") -> [pc EXCEPT ![t] = "return"]
               [] At(t, "idle") -> [pc EXCEPT ![t] = "dead"]
               [] OTHER -> pc
    /\ UNCHANGED <<sessionVars, queueVars, requestVars, localVars>>

\* The guest closes its handle of its end of the session.
CloseHandle(t, e) ==
    /\ t \in (IF e = "client" THEN Clients ELSE Servers)
    /\ At(t, "idle")
    /\ handle[e]
    /\ handle' = [handle EXCEPT ![e] = FALSE]
    /\ CloseEnd(t, e, {}, "idle")
    /\ UNCHANGED <<state, queueVars, requestVars, terminating, localVars>>

-----------------------------------------------------------------------------
(* A server's call: ReplyAndReceive, once to receive and once to reply.    *)

\* Look up the handles of a call, to wait for a request or to reply to one.
ServerCall(s, what) ==
    /\ At(s, "idle")
    /\ handle["server"]
    /\ refs' = [refs EXCEPT !["server"] = @ + 1]
    /\ pc' = [pc EXCEPT ![s] = what]
    /\ UNCHANGED <<state, handle, queueVars, requestVars, terminating, localVars>>

\* KSynchronizationObject::Wait on the session.
Wait(s) ==
    /\ At(s, "wait")
    /\ pc' = [pc EXCEPT ![s] = IF IsSignaled THEN "receive" ELSE "sleeping"]
    /\ UNCHANGED <<sessionVars, queueVars, requestVars, terminating, localVars>>

\* The wait times out.
WaitTimeout(s) ==
    /\ At(s, "sleeping")
    /\ pc' = [pc EXCEPT ![s] = "leave"]
    /\ UNCHANGED <<sessionVars, queueVars, requestVars, terminating, localVars>>

\* KServerSession::ReceiveRequest, its critical section: nothing to receive, or
\* the first request, whose thread is opened.
ReceiveRequest(s) ==
    /\ At(s, "receive")
    /\ lock = Nobody
    /\ \/ /\ state # "Normal" \/ current # NoRequest \/ list = <<>>
          /\ pc' = [pc EXCEPT ![s] = IF state # "Normal" THEN "leave" ELSE "wait"]
          /\ UNCHANGED <<list, lock, trefs, hand>>
       \/ /\ state = "Normal" /\ current = NoRequest /\ list # <<>>
          /\ list' = Tail(list)
          /\ hand' = [hand EXCEPT ![s] = Head(list)]
          /\ trefs' = [trefs EXCEPT ![thread[Head(list)]] = @ + 1]
          /\ lock' = s
          /\ pc' = [pc EXCEPT ![s] = "received"]
    /\ UNCHANGED <<sessionVars, current, rrefs, thread, event, terminating, own, prev, victim>>

\* Make it the current request; the message is received.
SetCurrent(s) ==
    /\ At(s, "received")
    /\ current' = hand[s]
    /\ pc' = [pc EXCEPT ![s] = "receiving"]
    /\ UNCHANGED <<sessionVars, list, lock, requestVars, terminating, localVars>>

\* ReceiveRequest has succeeded: the thread is closed, the request stays current.
ReceiveSucceeds(s) ==
    /\ At(s, "receiving")
    /\ trefs' = [trefs EXCEPT ![thread[hand[s]]] = @ - 1]
    /\ hand' = [hand EXCEPT ![s] = NoRequest]
    /\ lock' = Nobody
    /\ pc' = [pc EXCEPT ![s] = "leave"]
    /\ UNCHANGED <<sessionVars, list, current, rrefs, thread, event, terminating,
                   own, prev, victim>>

\* ReceiveRequest has failed: there is no current request any more.
ReceiveFails(s) ==
    /\ At(s, "receiving")
    /\ current' = NoRequest
    /\ pc' = [NotifyIfPending(pc) EXCEPT ![s] = "refuse"]
    /\ UNCHANGED <<sessionVars, list, lock, requestVars, terminating, localVars>>

\* The client of a request that could not be received is told so; the server
\* waits for another, or returns ResultReceiveListBroken.
RefuseRequest(s) ==
    LET r == hand[s] IN
    /\ At(s, "refuse")
    /\ CloseRequest(r, {thread[r]})
    /\ \E next \in {"wait", "leave"} : pc' = [Answered(pc, r) EXCEPT ![s] = next]
    /\ hand' = [hand EXCEPT ![s] = NoRequest]
    /\ lock' = Nobody
    /\ UNCHANGED <<sessionVars, list, current, terminating, own, prev, victim>>

\* KServerSession::SendReply, its critical section: take the current request.
SendReply(s) ==
    /\ At(s, "reply")
    /\ lock = Nobody
    /\ \/ /\ current = NoRequest
          /\ pc' = [pc EXCEPT ![s] = "leave"]
          /\ UNCHANGED <<current, lock, hand>>
       \/ /\ current # NoRequest
          /\ current' = NoRequest
          /\ hand' = [hand EXCEPT ![s] = current]
          /\ lock' = s
          /\ pc' = [NotifyIfPending(pc) EXCEPT ![s] = "replying"]
    /\ UNCHANGED <<sessionVars, list, requestVars, terminating, own, prev, victim>>

\* Send the message, or ResultSessionClosed, and end the client's wait.
ReplyToClient(s) ==
    LET r == hand[s] IN
    /\ At(s, "replying")
    /\ CloseRequest(r, {})
    /\ pc' = [Answered(pc, r) EXCEPT ![s] = "leave"]
    /\ hand' = [hand EXCEPT ![s] = NoRequest]
    /\ lock' = Nobody
    /\ UNCHANGED <<sessionVars, list, current, terminating, own, prev, victim>>

\* ReplyAndReceive gives up the server end.
ServerLeave(s) ==
    /\ s \in Servers
    /\ At(s, "leave")
    /\ CloseEnd(s, "server", {}, "idle")
    /\ UNCHANGED <<state, handle, queueVars, requestVars, terminating, localVars>>

-----------------------------------------------------------------------------
(* The end of either side: KClientSession::Destroy, KServerSession::Destroy*)

\* KSession::OnClientClosed and OnServerClosed read the state ...
Destroy(t) ==
    /\ At(t, "destroy")
    /\ pc' = [pc EXCEPT ![t] = IF state = "Normal" THEN "close"
                               ELSE IF t \in Servers THEN "cleanup" ELSE "closed"]
    /\ UNCHANGED <<sessionVars, queueVars, requestVars, terminating, localVars>>

\* ... and set it.
SetState(t) ==
    /\ At(t, "close")
    /\ state' = IF t \in Servers THEN "ServerClosed" ELSE "ClientClosed"
    /\ pc' = [pc EXCEPT ![t] = IF t \in Servers THEN "cleanup" ELSE "drain"]
    /\ UNCHANGED <<handle, refs, queueVars, requestVars, terminating, localVars>>

\* KServerSession::OnClientClosed takes the next request: the current one is
\* looked at once, and stays current; the others leave the list.
Takeable(t) == current \notin {NoRequest, prev[t]}
KeepThread(r) == thread    \* a mutant of ClearThread
ClearThread(r) == [thread EXCEPT ![r] = Nobody]

DrainCurrent(t) ==
    LET dying == thread[current] \in terminating IN
    /\ At(t, "drain")
    /\ lock \in {Nobody, t}
    /\ Takeable(t)
    /\ lock' = t
    /\ rrefs' = [rrefs EXCEPT ![current] = @ + 1]
    /\ hand' = [hand EXCEPT ![t] = current]
    /\ prev' = [prev EXCEPT ![t] = current]
    /\ IF dying
       THEN /\ thread' = ClearThread(current)
            /\ event' = [event EXCEPT ![current] = FALSE]
            /\ victim' = [victim EXCEPT ![t] = thread[current]]
       ELSE UNCHANGED <<thread, event, victim>>
    /\ pc' = [pc EXCEPT ![t] = "looked"]
    /\ UNCHANGED <<sessionVars, list, current, trefs, terminating, own>>

DrainPending(t) ==
    /\ At(t, "drain")
    /\ lock \in {Nobody, t}
    /\ ~Takeable(t)
    /\ list # <<>>
    /\ lock' = t
    /\ list' = Tail(list)
    /\ hand' = [hand EXCEPT ![t] = Head(list)]
    /\ pc' = [pc EXCEPT ![t] = "popped"]
    /\ UNCHANGED <<sessionVars, current, requestVars, terminating, own, prev, victim>>

\* Nothing is left: the servers that sleep are told that the session is closed.
DrainEnd(t) ==
    /\ At(t, "drain")
    /\ lock \in {Nobody, t}
    /\ ~Takeable(t)
    /\ list = <<>>
    /\ lock' = Nobody
    /\ prev' = [prev EXCEPT ![t] = NoRequest]
    /\ pc' = [NotifyAvailable(pc, list, current, "leave") EXCEPT ![t] = "closed"]
    /\ UNCHANGED <<sessionVars, list, current, requestVars, terminating, own, hand, victim>>

\* The current request is left to the server; a thread taken out of it is closed.
LeaveCurrent(t) ==
    /\ At(t, "looked")
    /\ CloseRequest(hand[t], {victim[t]})
    /\ hand' = [hand EXCEPT ![t] = NoRequest]
    /\ victim' = [victim EXCEPT ![t] = Nobody]
    /\ pc' = [pc EXCEPT ![t] = "drain"]
    /\ UNCHANGED <<sessionVars, queueVars, terminating, own, prev>>

\* A pending request gets ResultSessionClosed when it has an event; otherwise its
\* thread, which would hold the client end, has been terminated.
CancelPending(t) ==
    /\ At(t, "popped")
    /\ CloseRequest(hand[t], {})
    /\ hand' = [hand EXCEPT ![t] = NoRequest]
    /\ pc' = [pc EXCEPT ![t] = "drain"]
    /\ UNCHANGED <<sessionVars, queueVars, terminating, own, prev, victim>>

\* A mutant of CleanupTake: the current request is overlooked.
CleanupTakePending(s) ==
    /\ At(s, "cleanup")
    /\ lock \in {Nobody, s}
    /\ IF list # <<>>
       THEN /\ list' = Tail(list) /\ hand' = [hand EXCEPT ![s] = Head(list)]
            /\ lock' = s /\ pc' = [pc EXCEPT ![s] = "cleaning"]
       ELSE /\ lock' = Nobody /\ pc' = [pc EXCEPT ![s] = "closed"]
            /\ UNCHANGED <<list, hand>>
    /\ UNCHANGED <<sessionVars, current, requestVars, terminating, own, prev, victim>>

\* KServerSession::CleanupRequests takes the current request, or the next one.
CleanupTake(s) ==
    /\ At(s, "cleanup")
    /\ lock \in {Nobody, s}
    /\ \/ /\ current # NoRequest
          /\ current' = NoRequest
          /\ hand' = [hand EXCEPT ![s] = current]
          /\ lock' = s
          /\ pc' = [pc EXCEPT ![s] = "cleaning"]
          /\ UNCHANGED list
       \/ /\ current = NoRequest /\ list # <<>>
          /\ list' = Tail(list)
          /\ hand' = [hand EXCEPT ![s] = Head(list)]
          /\ lock' = s
          /\ pc' = [pc EXCEPT ![s] = "cleaning"]
          /\ UNCHANGED current
       \/ /\ current = NoRequest /\ list = <<>>
          /\ lock' = Nobody
          /\ pc' = [pc EXCEPT ![s] = "closed"]
          /\ UNCHANGED <<list, current, hand>>
    /\ UNCHANGED <<sessionVars, requestVars, terminating, own, prev, victim>>

\* Its client is told that the session is closed.
CleanupAnswer(s) ==
    LET r == hand[s] IN
    /\ At(s, "cleaning")
    /\ CloseRequest(r, {})
    /\ pc' = [Answered(pc, r) EXCEPT ![s] = "cleanup"]
    /\ hand' = [hand EXCEPT ![s] = NoRequest]
    /\ UNCHANGED <<sessionVars, queueVars, terminating, own, prev, victim>>

\* The end is destroyed and gives up the parent; the last one finalizes it.
CloseParent(t) ==
    /\ At(t, "closed")
    /\ refs' = [refs EXCEPT !["parent"] = @ - 1]
    /\ pc' = [pc EXCEPT ![t] = Home(t)]
    /\ UNCHANGED <<state, handle, queueVars, requestVars, terminating, localVars>>

-----------------------------------------------------------------------------
\* What the guests ask for.
Guest ==
    \/ \E t \in Clients :
        \/ \E async \in BOOLEAN : SendRequest(t, async)
        \/ SendFails(t) \/ RequestTerminate(t) \/ CloseHandle(t, "client")
    \/ \E s \in Servers :
        \/ \E what \in {"wait", "reply"} : ServerCall(s, what)
        \/ WaitTimeout(s) \/ CloseHandle(s, "server")

\* What the kernel then does in the thread.
Kernel(t) ==
    \/ OnRequest(t) \/ CallReturn(t) \/ CallLeave(t)
    \/ Wait(t) \/ ReceiveRequest(t) \/ SetCurrent(t) \/ ReceiveSucceeds(t)
    \/ ReceiveFails(t) \/ RefuseRequest(t)
    \/ SendReply(t) \/ ReplyToClient(t) \/ ServerLeave(t)
    \/ Destroy(t) \/ SetState(t)
    \/ DrainCurrent(t) \/ DrainPending(t) \/ DrainEnd(t) \/ LeaveCurrent(t) \/ CancelPending(t)
    \/ CleanupTake(t) \/ CleanupAnswer(t) \/ CloseParent(t)

Next == Guest \/ \E t \in Threads : Kernel(t)

Spec == Init /\ [][Next]_vars

\* A thread inside a supervisor call keeps running; the guests owe nothing.
FairSpec == Spec /\ \A t \in Threads : WF_vars(Kernel(t))

-----------------------------------------------------------------------------
(* Properties.                                                             *)

Holding(r) == {t \in Threads : hand[t] = r}
Copies(r) == Cardinality({i \in DOMAIN list : list[i] = r})
One(b) == IF b THEN 1 ELSE 0

\* Every reference is counted once, whatever path a request takes to its end: a
\* request lives while its caller, the list, the session or a handler has it, a
\* client thread is opened for its requests and its receivers and closed as
\* often, and the ends and the parent live as long as somebody uses them.
ReferencesExact ==
    /\ \A r \in Requests :
        rrefs[r] = Cardinality({t \in Clients : own[t] = r}) + Copies(r) + One(current = r)
                   + Cardinality({t \in Holding(r) : ~At(t, "receiving")})
    /\ \A t \in Clients :
        trefs[t] = Cardinality({r \in Requests : thread[r] = t})
                   + Cardinality({s \in Servers : /\ pc[s] \in {"received", "receiving", "refuse"}
                                                  /\ thread[hand[s]] = t})
                   + Cardinality({k \in Threads : victim[k] = t})
    /\ refs["parent"] = One(refs["client"] > 0 \/ \E t \in Clients :
                                pc[t] \in {"destroy", "close", "drain", "looked", "popped", "closed"})
                        + One(refs["server"] > 0 \/ \E s \in Servers :
                                pc[s] \in {"destroy", "close", "cleanup", "cleaning", "closed"})
                        + Cardinality({t \in Clients : pc[t] \in {"send", "waiting", "return", "leave"}})

WellFormed == TypeOK /\ ReferencesExact

\* No call is lost: a client that waits has its request in the list, or current,
\* or in the hands of a thread that will answer it; and the server end is alive
\* or its last user has yet to go through the requests.
WaiterIsInLine ==
    \A t \in Clients : At(t, "waiting") =>
        /\ thread[own[t]] = t
        /\ own[t] \in ToSet(list) \cup {current} \/ Holding(own[t]) # {}
        /\ refs["server"] > 0 \/ \E s \in Servers :
               pc[s] \in {"destroy", "close", "cleanup", "cleaning"}

\* A client's wait ends by the answer to the request it waits for, by whoever
\* has taken that request, never by a late answer to an earlier one; or because
\* the client is terminated.
AnswersOwnCall ==
    [][\A t \in Clients : At(t, "waiting") /\ ~At(t, "waiting")' =>
           t \in terminating' \/ Holding(own[t]) # {}]_vars

\* A server does not sleep beside a request it could receive, or on a session
\* that is closed, unless somebody is about to wake it or to take the request.
SleepersAreWoken ==
    IsSignaled => \A s \in Servers : At(s, "sleeping") =>
        \/ \E t \in Clients : pc[t] \in {"drain", "looked", "popped"}
        \/ \E k \in Servers : At(k, "received")

\* When the server end is gone, every call comes back.
CallsEndWithServer ==
    \A t \in Clients : refs["server"] = 0 /\ At(t, "waiting") ~> ~At(t, "waiting")
=============================================================================
