------------------------ MODULE KServerSessionProofs ------------------------
(***************************************************************************)
(* Proofs about KServerSession, for any clients, servers and requests.     *)
(*                                                                         *)
(* The references of a request are counted by the places it is in.  That   *)
(* it is never in two hands, nor in the list twice, follows from m_lock:   *)
(* whoever has a request in hand holds it.  That its client is told of its *)
(* own answer follows from the places, and from whose request it is.       *)
(***************************************************************************)
EXTENDS KServerSession, FiniteSetTheorems, SequenceTheorems, TLAPS

ClientLabels == {"idle", "send", "waiting", "return", "leave", "dead",
                 "destroy", "close", "drain", "looked", "popped", "closed"}
ServerLabels == {"idle", "wait", "sleeping", "receive", "received", "receiving", "refuse",
                 "reply", "replying", "leave", "destroy", "close", "cleanup", "cleaning",
                 "closed"}

\* In a call, which keeps the end of the session; on the way of destroying it.
Calling == {"send", "waiting", "return", "leave"}
Serving == {"wait", "sleeping", "receive", "received", "receiving", "refuse", "reply",
            "replying", "leave"}
Ending == {"destroy", "close", "drain", "looked", "popped", "cleanup", "cleaning", "closed"}

\* With a request in hand, and m_lock.
Busy == {"received", "receiving", "refuse", "replying", "looked", "popped", "cleaning"}

LabelsOK ==
    /\ pc \in [Threads -> ClientLabels \cup ServerLabels]
    /\ \A t \in Clients : pc[t] \in ClientLabels
    /\ \A s \in Servers : pc[s] \in ServerLabels

\* The types as far as no count is concerned: that the references do not fall below
\* zero follows from what is counted.
Types ==
    /\ state \in {"Normal", "ClientClosed", "ServerClosed"}
    /\ handle \in [{"client", "server"} -> BOOLEAN]
    /\ refs \in [Ends -> Int]
    /\ list \in Seq(Requests)
    /\ current \in Requests \cup {NoRequest}
    /\ lock \in Threads \cup {Nobody}
    /\ rrefs \in [Requests -> Int]
    /\ thread \in [Requests -> Clients \cup {Nobody}]
    /\ event \in [Requests -> BOOLEAN]
    /\ trefs \in [Clients -> Int]
    /\ terminating \subseteq Clients
    /\ own \in [Clients -> Requests \cup {NoRequest}]
    /\ hand \in [Threads -> Requests \cup {NoRequest}]
    /\ prev \in [Threads -> Requests \cup {NoRequest}]
    /\ victim \in [Threads -> Clients \cup {Nobody}]
    /\ LabelsOK

\* Whoever has a request in hand holds m_lock.
HandsLocked ==
    \A t \in Threads :
        /\ hand[t] # NoRequest <=> pc[t] \in Busy
        /\ pc[t] \in Busy => lock = t
        /\ lock = t => pc[t] \in Busy \cup {"drain", "cleanup"}
        /\ victim[t] # Nobody => pc[t] = "looked"

\* A call has a request of its own from its creation to its end.
CallsOwn ==
    /\ \A t \in Clients : own[t] # NoRequest <=> pc[t] \in {"send", "waiting", "return"}
    /\ \A t, u \in Clients : own[t] # NoRequest /\ own[t] = own[u] => t = u

Owned(r) == \E t \in Clients : own[t] = r
Listed(r) == \E i \in DOMAIN list : list[i] = r
Held(r) == \E t \in Threads : hand[t] = r /\ pc[t] # "receiving"

\* Nothing is in the list twice, or in it and anywhere else; and what is in a hand
\* is the current request just while it is received, or looked at by the client end.
PlacesDistinct ==
    /\ \A i, j \in DOMAIN list : list[i] = list[j] => i = j
    /\ \A r \in Requests : Listed(r) => current # r /\ \A t \in Threads : hand[t] # r
    /\ \A t \in Threads :
        /\ hand[t] # NoRequest =>
              (hand[t] = current <=> pc[t] \in {"receiving", "looked"})
        /\ pc[t] = "received" => current = NoRequest

\* A request has a reference for each of its places.
PlacesCounted ==
    \A r \in Requests :
        rrefs[r] = One(Owned(r)) + One(Listed(r)) + One(current = r) + One(Held(r))

\* A request that has been sent and not answered yet.
InLine(r) == Listed(r) \/ current = r \/ Held(r)

\* What a call is about to send nobody has seen.
SendsNew == \A t \in Clients : pc[t] = "send" => ~InLine(own[t])

QueueInv ==
    /\ HandsLocked
    /\ CallsOwn
    /\ PlacesDistinct
    /\ PlacesCounted
    /\ SendsNew

-----------------------------------------------------------------------------
(* The ends of the session.                                                *)

InCall == {t \in Clients : pc[t] \in Calling}
InService == {s \in Servers : pc[s] \in Serving}
ClientEnding == \E t \in Clients : pc[t] \in Ending
ServerEnding == \E s \in Servers : pc[s] \in Ending

\* Each end is kept by its handle and its calls, and destroyed by one thread.
EndsCounted ==
    /\ refs["client"] = One(handle["client"]) + Cardinality(InCall)
    /\ refs["server"] = One(handle["server"]) + Cardinality(InService)
    /\ refs["parent"] = One(refs["client"] > 0 \/ ClientEnding)
                        + One(refs["server"] > 0 \/ ServerEnding)
                        + Cardinality(InCall)
    /\ ClientEnding => refs["client"] = 0
    /\ ServerEnding => refs["server"] = 0
    /\ \A t, u \in Clients : pc[t] \in Ending /\ pc[u] \in Ending => t = u
    /\ \A t, u \in Servers : pc[t] \in Ending /\ pc[u] \in Ending => t = u

\* The state tells which end is closed.
ServerOpen == refs["server"] > 0 \/ \E s \in Servers : pc[s] \in {"destroy", "close"}
StateTells ==
    /\ state = "Normal" => ServerOpen
    /\ state = "Normal" => \A t \in Clients : pc[t] \notin {"drain", "looked", "popped"}
    /\ state = "ServerClosed" => refs["server"] = 0

EndsInv == EndsCounted /\ StateTells

-----------------------------------------------------------------------------
(* The client threads.                                                     *)

RequestsOf(t) == {r \in Requests : thread[r] = t}
Receiver(s, t) == /\ s \in Servers /\ pc[s] \in {"received", "receiving", "refuse"}
                  /\ thread[hand[s]] = t

\* A client thread is open once for each of its requests, for whoever receives one,
\* and for the client end that has taken it out of its request.
ThreadsCounted ==
    \A t \in Clients :
        trefs[t] = Cardinality(RequestsOf(t)) + One(\E s \in Servers : Receiver(s, t))
                   + One(\E k \in Threads : victim[k] = t)

\* Whose request a request is.
RequestsOwned ==
    /\ \A r \in Requests :
        /\ rrefs[r] = 0 => thread[r] = Nobody
        /\ Listed(r) => thread[r] \in Clients
        /\ thread[r] # Nobody /\ ~event[r] =>
              own[thread[r]] = r \/ thread[r] \in terminating
    /\ \A t \in Clients : own[t] # NoRequest => thread[own[t]] = t
    /\ \A s \in Servers : pc[s] \in {"received", "receiving", "refuse"} =>
          thread[hand[s]] \in Clients

ThreadsInv == ThreadsCounted /\ RequestsOwned

-----------------------------------------------------------------------------
(* Who waits.                                                              *)

\* A call waits for a request that somebody has or will see, and returns from one
\* that is answered.
CallsInLine ==
    \A t \in Clients :
        /\ pc[t] = "waiting" => InLine(own[t]) /\ ~event[own[t]] /\ t \notin terminating
        /\ pc[t] = "return" /\ ~event[own[t]] /\ t \notin terminating => ~InLine(own[t])

\* The last user of the server end has yet to go through the requests.
ServerAnswers ==
    (\E t \in Clients : pc[t] = "waiting") =>
        refs["server"] > 0 \/ \E s \in Servers :
            pc[s] \in {"destroy", "close", "cleanup", "cleaning"}

\* The client end, closed, has yet to wake the servers.
ClosedWakes ==
    state # "Normal" => \A s \in Servers : pc[s] = "sleeping" =>
        \E t \in Clients : pc[t] \in {"drain", "looked", "popped"}

WaitInv == CallsInLine /\ ServerAnswers /\ ClosedWakes /\ SleepersAreWoken

SessionInv == Types /\ QueueInv /\ EndsInv /\ ThreadsInv /\ WaitInv

-----------------------------------------------------------------------------
(* Where the threads go.                                                   *)

\* The threads that f sends elsewhere have slept, or waited for an answer.
Moves(f) ==
    /\ f \in [Threads -> ClientLabels \cup ServerLabels]
    /\ \A u \in Threads :
        \/ f[u] = pc[u]
        \/ u \in Servers /\ pc[u] = "sleeping" /\ f[u] \in {"receive", "leave"}
        \/ u \in Clients /\ pc[u] = "waiting" /\ f[u] = "return"

LEMMA HelpersMove ==
    ASSUME Types
    PROVE  /\ Moves(pc) /\ Moves(Woken(pc, "receive")) /\ Moves(Woken(pc, "leave"))
           /\ Moves(NotifyIfPending(pc))
           /\ \A l, c : \A w \in {"receive", "leave"} : Moves(NotifyAvailable(pc, l, c, w))
           /\ \A r \in Requests : Moves(Answered(pc, r))
<1> USE DEF Types
<1>1. \A u \in Threads : /\ pc[u] = "sleeping" => u \in Servers
                         /\ pc[u] = "waiting" => u \in Clients
  BY DEF LabelsOK, Threads, ClientLabels, ServerLabels
<1>2. Moves(pc)
  BY DEF Moves, LabelsOK
<1>3. \A w \in {"receive", "leave"} : Moves(Woken(pc, w))
  BY <1>1 DEF Moves, Woken, LabelsOK, ServerLabels
<1>6. ASSUME NEW l, NEW c, NEW w \in {"receive", "leave"}
      PROVE  Moves(NotifyAvailable(pc, l, c, w))
  BY <1>2, <1>3 DEF NotifyAvailable
<1>4. Moves(NotifyIfPending(pc))
  BY <1>2, <1>6 DEF NotifyIfPending
<1>5. ASSUME NEW r \in Requests PROVE Moves(Answered(pc, r))
  BY <1>1, <1>2 DEF Moves, Answered, EndWait, LabelsOK, ClientLabels
<1> QED
  BY <1>2, <1>3, <1>4, <1>5, <1>6

\* A step of thread t: t goes to a label, and others may be sent elsewhere.
Steps(t) ==
    /\ pc' \in [Threads -> ClientLabels \cup ServerLabels]
    /\ t \in Clients => pc'[t] \in ClientLabels
    /\ t \in Servers => pc'[t] \in ServerLabels
    /\ \A u \in Threads \ {t} :
        \/ pc'[u] = pc[u]
        \/ u \in Servers /\ pc[u] = "sleeping" /\ pc'[u] \in {"receive", "leave"}
        \/ u \in Clients /\ pc[u] = "waiting" /\ pc'[u] = "return"

LEMMA MovesStep ==
    ASSUME Types, NEW t \in Threads, NEW f, Moves(f), NEW l,
           t \in Clients => l \in ClientLabels, t \in Servers => l \in ServerLabels,
           pc' = [f EXCEPT ![t] = l]
    PROVE  Steps(t) /\ pc'[t] = l
BY DEF Moves, Steps, Threads

LEMMA StepsLabels ==
    ASSUME Types, NEW t \in Threads, Steps(t)
    PROVE  LabelsOK'
BY DEF Types, LabelsOK, Steps, Threads, ClientLabels, ServerLabels

-----------------------------------------------------------------------------
(* The types, and the thread that takes a step.                            *)

\* Appending to the request list, and taking its first request.
LEMMA ListAppend ==
    ASSUME Types, NEW r \in Requests, list' = Append(list, r)
    PROVE  /\ list' \in Seq(Requests)
           /\ \A q : Listed(q)' <=> Listed(q) \/ q = r
           /\ (\A i, j \in DOMAIN list : list[i] = list[j] => i = j) /\ ~Listed(r)
              => \A i, j \in DOMAIN list' : list'[i] = list'[j] => i = j
<1>1. /\ list' \in Seq(Requests) /\ Len(list') = Len(list) + 1 /\ Len(list) \in Nat
      /\ DOMAIN list = 1..Len(list) /\ DOMAIN list' = 1..(Len(list) + 1)
      /\ \A i \in 1..Len(list) : list'[i] = list[i]
      /\ list'[Len(list) + 1] = r
  BY AppendProperties, LenProperties DEF Types
<1>2. \A i \in DOMAIN list' : i \in DOMAIN list \/ i = Len(list) + 1
  BY <1>1
<1>3. Len(list) + 1 \in DOMAIN list' /\ Len(list) + 1 \notin DOMAIN list
      /\ DOMAIN list \subseteq DOMAIN list'
  BY <1>1
<1> QED
  BY <1>1, <1>2, <1>3 DEF Listed

LEMMA ListTake ==
    ASSUME Types, list # <<>>, list' = Tail(list)
    PROVE  /\ list' \in Seq(Requests) /\ Head(list) \in Requests /\ Listed(Head(list))
           /\ \A q : Listed(q)' => Listed(q)
           /\ \A q : Listed(q) => Listed(q)' \/ q = Head(list)
           /\ (\A i, j \in DOMAIN list : list[i] = list[j] => i = j)
              => /\ \A q : q = Head(list) => ~Listed(q)'
                 /\ \A i, j \in DOMAIN list' : list'[i] = list'[j] => i = j
<1>1. /\ Len(list) \in Nat /\ Len(list) > 0
      /\ list' \in Seq(Requests) /\ Len(list') = Len(list) - 1
      /\ DOMAIN list = 1..Len(list) /\ DOMAIN list' = 1..(Len(list) - 1)
      /\ \A i \in 1..(Len(list) - 1) : list'[i] = list[i + 1]
      /\ Head(list) = list[1] /\ Head(list) \in Requests
  BY HeadTailProperties, LenProperties, EmptySeq DEF Types
<1>2. 1 \in DOMAIN list /\ \A i \in DOMAIN list' : i + 1 \in DOMAIN list /\ i + 1 # 1
  BY <1>1
<1>3. \A i \in DOMAIN list : i = 1 \/ (i - 1 \in DOMAIN list' /\ list'[i - 1] = list[i])
  BY <1>1
<1>4. \A i, j \in DOMAIN list' : i + 1 = j + 1 => i = j
  BY <1>1
<1>5. \A i \in DOMAIN list' : list'[i] = list[i + 1]
  BY <1>1
<1>6. \A q : Listed(q)' => Listed(q)
  BY <1>2, <1>5 DEF Listed
<1>7. \A q : Listed(q) => Listed(q)' \/ q = Head(list)
  BY <1>1, <1>3 DEF Listed
<1>8. ASSUME \A i, j \in DOMAIN list : list[i] = list[j] => i = j
      PROVE  /\ \A q : q = Head(list) => ~Listed(q)'
             /\ \A i, j \in DOMAIN list' : list'[i] = list'[j] => i = j
  <2>1. \A q : q = Head(list) => ~Listed(q)'
    BY <1>1, <1>2, <1>5, <1>8 DEF Listed
  <2>2. \A i, j \in DOMAIN list' : list'[i] = list'[j] => i = j
    <3> SUFFICES ASSUME NEW i \in DOMAIN list', NEW j \in DOMAIN list', list'[i] = list'[j]
                 PROVE  i = j
      OBVIOUS
    <3>1. list[i + 1] = list[j + 1]
      BY <1>5
    <3>2. i + 1 = j + 1
      BY <1>2, <1>8, <3>1
    <3> QED
      BY <1>4, <3>2
  <2> QED
    BY <2>1, <2>2
<1>9. Listed(Head(list))
  BY <1>1, <1>2 DEF Listed
<1> QED
  BY <1>1, <1>6, <1>7, <1>8, <1>9


LEMMA PlainStep ==
    ASSUME Types, NEW t \in Threads, NEW l,
           t \in Clients => l \in ClientLabels, t \in Servers => l \in ServerLabels,
           pc' = [pc EXCEPT ![t] = l]
    PROVE  Steps(t) /\ pc'[t] = l
BY HelpersMove, MovesStep

\* A client thread, or a server thread, that is where only such a thread can be.
LEMMA Sides ==
    ASSUME Types, NEW t \in Threads
    PROVE  /\ pc[t] \in {"send", "waiting", "return", "drain", "looked", "popped"} => t \in Clients
           /\ pc[t] \in (Serving \ {"leave"}) \cup {"cleanup", "cleaning"} => t \in Servers
           /\ t \in Clients <=> t \notin Servers
BY SessionAssumption DEF Types, LabelsOK, Threads, ClientLabels, ServerLabels, Serving

\* Where the threads are after a step that asks for something,
LEMMA GuestSteps ==
    ASSUME Types
    PROVE  /\ \A t \in Clients, async \in BOOLEAN :
                SendRequest(t, async) => Steps(t) /\ pc'[t] = "send"
           /\ \A t \in Clients : SendFails(t) => Steps(t) /\ pc'[t] = "leave"
           /\ \A t \in Clients : RequestTerminate(t) =>
                /\ Steps(t)
                /\ pc[t] = "waiting" => pc'[t] = "return"
                /\ pc[t] = "idle" => pc'[t] = "dead"
                /\ pc[t] \notin {"waiting", "idle"} => pc'[t] = pc[t]
           /\ \A t \in Threads, e \in {"client", "server"} : CloseHandle(t, e) =>
                /\ Steps(t)
                /\ pc'[t] = IF refs[e] = 1 THEN "destroy" ELSE "idle"
           /\ \A s \in Servers, what \in {"wait", "reply"} :
                ServerCall(s, what) => Steps(s) /\ pc'[s] = what
           /\ \A s \in Servers : WaitTimeout(s) => Steps(s) /\ pc'[s] = "leave"
<1> USE DEF ClientLabels, ServerLabels
<1>t. \A t \in Threads : t \in Clients <=> t \notin Servers
  BY Sides
<1>s. Clients \subseteq Threads /\ Servers \subseteq Threads
  BY DEF Threads
<1>1. ASSUME NEW t \in Clients, NEW async \in BOOLEAN, SendRequest(t, async)
      PROVE  Steps(t) /\ pc'[t] = "send"
  <2>1. pc' = [pc EXCEPT ![t] = "send"]
    BY <1>1 DEF SendRequest
  <2> QED
    BY <1>s, <1>t, <2>1, PlainStep
<1>6. ASSUME NEW t \in Clients, SendFails(t)
      PROVE  Steps(t) /\ pc'[t] = "leave"
  <2>1. pc' = [pc EXCEPT ![t] = "leave"]
    BY <1>6 DEF SendFails
  <2> QED
    BY <1>s, <1>t, <2>1, PlainStep
<1>2. ASSUME NEW t \in Clients, RequestTerminate(t)
      PROVE  /\ Steps(t)
             /\ pc[t] = "waiting" => pc'[t] = "return"
             /\ pc[t] = "idle" => pc'[t] = "dead"
             /\ pc[t] \notin {"waiting", "idle"} => pc'[t] = pc[t]
  <2>1. CASE pc[t] = "waiting"
    <3>1. pc' = [pc EXCEPT ![t] = "return"]
      BY <1>2, <2>1 DEF RequestTerminate, At
    <3> QED
      BY <1>s, <1>t, <2>1, <3>1, PlainStep
  <2>2. CASE pc[t] = "idle"
    <3>1. pc' = [pc EXCEPT ![t] = "dead"]
      BY <1>2, <2>2 DEF RequestTerminate, At
    <3> QED
      BY <1>s, <1>t, <2>2, <3>1, PlainStep
  <2>3. CASE pc[t] \notin {"waiting", "idle"}
    <3>1. pc' = pc
      BY <1>2, <2>3 DEF RequestTerminate, At
    <3> QED
      BY <2>3, <3>1 DEF Steps, Types, LabelsOK
  <2> QED
    BY <2>1, <2>2, <2>3
<1>3. ASSUME NEW t \in Threads, NEW e \in {"client", "server"}, CloseHandle(t, e)
      PROVE  Steps(t) /\ pc'[t] = IF refs[e] = 1 THEN "destroy" ELSE "idle"
  <2>1. pc' = [pc EXCEPT ![t] = IF refs[e] = 1 THEN "destroy" ELSE "idle"]
    BY <1>3 DEF CloseHandle, CloseEnd
  <2> QED
    BY <2>1, PlainStep
<1>4. ASSUME NEW s \in Servers, NEW what \in {"wait", "reply"}, ServerCall(s, what)
      PROVE  Steps(s) /\ pc'[s] = what
  <2>1. pc' = [pc EXCEPT ![s] = what]
    BY <1>4 DEF ServerCall
  <2> QED
    BY <1>s, <1>t, <2>1, PlainStep
<1>5. ASSUME NEW s \in Servers, WaitTimeout(s)
      PROVE  Steps(s) /\ pc'[s] = "leave"
  <2>1. pc' = [pc EXCEPT ![s] = "leave"]
    BY <1>5 DEF WaitTimeout
  <2> QED
    BY <1>s, <1>t, <2>1, PlainStep
<1> QED
  BY <1>1, <1>2, <1>3, <1>4, <1>5, <1>6

\* and after a step of the kernel.
LEMMA KernelSteps ==
    ASSUME Types, HandsLocked, NEW t \in Threads
    PROVE  /\ OnRequest(t) => Steps(t) /\ t \in Clients /\ pc'[t] \in {"return", "waiting"}
           /\ CallReturn(t) => Steps(t) /\ t \in Clients /\ pc'[t] = "leave"
           /\ CallLeave(t) => Steps(t) /\ t \in Clients /\ pc'[t] = IF refs["client"] = 1 THEN "destroy" ELSE Home(t)
           /\ Wait(t) => Steps(t) /\ t \in Servers /\ pc'[t] = IF IsSignaled THEN "receive" ELSE "sleeping"
           /\ ReceiveRequest(t) => Steps(t) /\ t \in Servers /\ pc'[t] = IF state # "Normal" THEN "leave"
                  ELSE IF current # NoRequest \/ list = <<>> THEN "wait" ELSE "received"
           /\ SetCurrent(t) => Steps(t) /\ t \in Servers /\ pc'[t] = "receiving"
           /\ ReceiveSucceeds(t) => Steps(t) /\ t \in Servers /\ pc'[t] = "leave"
           /\ ReceiveFails(t) => Steps(t) /\ t \in Servers /\ pc'[t] = "refuse"
           /\ RefuseRequest(t) => Steps(t) /\ t \in Servers /\ pc'[t] \in {"wait", "leave"}
           /\ SendReply(t) => Steps(t) /\ t \in Servers /\ pc'[t] = IF current = NoRequest THEN "leave" ELSE "replying"
           /\ ReplyToClient(t) => Steps(t) /\ t \in Servers /\ pc'[t] = "leave"
           /\ ServerLeave(t) => Steps(t) /\ t \in Servers /\ pc'[t] = IF refs["server"] = 1 THEN "destroy" ELSE "idle"
           /\ Destroy(t) => Steps(t) /\ pc'[t] = IF state = "Normal" THEN "close"
                  ELSE IF t \in Servers THEN "cleanup" ELSE "closed"
           /\ SetState(t) => Steps(t) /\ pc'[t] = IF t \in Servers THEN "cleanup" ELSE "drain"
           /\ DrainCurrent(t) => Steps(t) /\ t \in Clients /\ pc'[t] = "looked"
           /\ DrainPending(t) => Steps(t) /\ t \in Clients /\ pc'[t] = "popped"
           /\ DrainEnd(t) => Steps(t) /\ t \in Clients /\ pc'[t] = "closed"
           /\ LeaveCurrent(t) => Steps(t) /\ t \in Clients /\ pc'[t] = "drain"
           /\ CancelPending(t) => Steps(t) /\ t \in Clients /\ pc'[t] = "drain"
           /\ CleanupTake(t) => Steps(t) /\ t \in Servers /\ pc'[t] = IF current # NoRequest \/ list # <<>> THEN "cleaning" ELSE "closed"
           /\ CleanupAnswer(t) => Steps(t) /\ t \in Servers /\ pc'[t] = "cleanup"
           /\ CloseParent(t) => Steps(t) /\ pc'[t] = Home(t)
<1> USE DEF ClientLabels, ServerLabels
<1>1. ASSUME OnRequest(t) PROVE Steps(t) /\ t \in Clients /\ pc'[t] \in {"return", "waiting"}
  <2>1. t \in Clients /\ t \notin Servers
    BY <1>1, Sides DEF OnRequest, At, Serving
  <2>2. CASE state # "Normal" \/ t \in terminating
    <3>1. pc' = [pc EXCEPT ![t] = "return"]
      BY <1>1, <2>2 DEF OnRequest, At
    <3> QED
      BY <2>1, <2>2, <3>1, PlainStep
  <2>3. CASE state = "Normal" /\ t \notin terminating /\ list = <<>>
    <3>1. pc' = [NotifyAvailable(pc, list', current, "receive") EXCEPT
                     ![t] = IF event[own[t]] THEN "return" ELSE "waiting"]
      BY <1>1, <2>3 DEF OnRequest, At
    <3>2. Moves(NotifyAvailable(pc, list', current, "receive"))
      BY HelpersMove
    <3> QED
      BY <2>1, <2>3, <3>1, <3>2, MovesStep
  <2>4. CASE state = "Normal" /\ t \notin terminating /\ list # <<>>
    <3>1. pc' = [pc EXCEPT ![t] = IF event[own[t]] THEN "return" ELSE "waiting"]
      BY <1>1, <2>4 DEF OnRequest, At
    <3> QED
      BY <2>1, <2>4, <3>1, PlainStep
  <2> QED
    BY <2>1, <2>2, <2>3, <2>4
<1>2. ASSUME CallReturn(t) PROVE Steps(t) /\ t \in Clients /\ pc'[t] = "leave"
  <2>1. t \in Clients /\ t \notin Servers
    BY <1>2, Sides DEF CallReturn, At, Serving
  <2>2. pc' = [pc EXCEPT ![t] = "leave"]
    BY <1>2 DEF CallReturn
  <2> QED
    BY <2>1, <2>2, PlainStep
<1>3. ASSUME CallLeave(t) PROVE Steps(t) /\ t \in Clients /\ pc'[t] = IF refs["client"] = 1 THEN "destroy" ELSE Home(t)
  <2>1. t \in Clients /\ t \notin Servers
    BY <1>3, Sides DEF CallLeave, At, Serving
  <2>2. pc' = [pc EXCEPT ![t] = IF refs["client"] = 1 THEN "destroy" ELSE Home(t)]
    BY <1>3 DEF CallLeave, CloseEnd
  <2> QED
    BY <2>1, <2>2, PlainStep DEF Home
<1>4. ASSUME Wait(t) PROVE Steps(t) /\ t \in Servers /\ pc'[t] = IF IsSignaled THEN "receive" ELSE "sleeping"
  <2>1. t \in Servers /\ t \notin Clients
    BY <1>4, Sides DEF Wait, At, Serving
  <2>2. pc' = [pc EXCEPT ![t] = IF IsSignaled THEN "receive" ELSE "sleeping"]
    BY <1>4 DEF Wait
  <2> QED
    BY <2>1, <2>2, PlainStep
<1>5. ASSUME ReceiveRequest(t) PROVE Steps(t) /\ t \in Servers /\ pc'[t] = IF state # "Normal" THEN "leave"
                       ELSE IF current # NoRequest \/ list = <<>> THEN "wait" ELSE "received"
  <2>1. t \in Servers /\ t \notin Clients
    BY <1>5, Sides DEF ReceiveRequest, At, Serving
  <2>2. CASE state # "Normal" \/ current # NoRequest \/ list = <<>>
    <3>1. pc' = [pc EXCEPT ![t] = IF state # "Normal" THEN "leave" ELSE "wait"]
      BY <1>5, <2>2 DEF ReceiveRequest
    <3> QED
      BY <2>1, <2>2, <3>1, PlainStep
  <2>3. CASE state = "Normal" /\ current = NoRequest /\ list # <<>>
    <3>1. pc' = [pc EXCEPT ![t] = "received"]
      BY <1>5, <2>3 DEF ReceiveRequest
    <3> QED
      BY <2>1, <2>3, <3>1, PlainStep
  <2> QED
    BY <2>1, <2>2, <2>3
<1>6. ASSUME SetCurrent(t) PROVE Steps(t) /\ t \in Servers /\ pc'[t] = "receiving"
  <2>1. t \in Servers /\ t \notin Clients
    BY <1>6, Sides DEF SetCurrent, At, Serving
  <2>2. pc' = [pc EXCEPT ![t] = "receiving"]
    BY <1>6 DEF SetCurrent
  <2> QED
    BY <2>1, <2>2, PlainStep
<1>7. ASSUME ReceiveSucceeds(t) PROVE Steps(t) /\ t \in Servers /\ pc'[t] = "leave"
  <2>1. t \in Servers /\ t \notin Clients
    BY <1>7, Sides DEF ReceiveSucceeds, At, Serving
  <2>2. pc' = [pc EXCEPT ![t] = "leave"]
    BY <1>7 DEF ReceiveSucceeds
  <2> QED
    BY <2>1, <2>2, PlainStep
<1>8. ASSUME ReceiveFails(t) PROVE Steps(t) /\ t \in Servers /\ pc'[t] = "refuse"
  <2>1. t \in Servers /\ t \notin Clients
    BY <1>8, Sides DEF ReceiveFails, At, Serving
  <2>2. pc' = [NotifyIfPending(pc) EXCEPT ![t] = "refuse"]
    BY <1>8 DEF ReceiveFails
  <2> QED
    BY <2>1, <2>2, HelpersMove, MovesStep
<1>9. ASSUME RefuseRequest(t) PROVE Steps(t) /\ t \in Servers /\ pc'[t] \in {"wait", "leave"}
  <2>1. t \in Servers /\ t \notin Clients
    BY <1>9, Sides DEF RefuseRequest, At, Serving
  <2>2. PICK next \in {"wait", "leave"} : pc' = [Answered(pc, hand[t]) EXCEPT ![t] = next]
    BY <1>9 DEF RefuseRequest
  <2>3. Moves(Answered(pc, hand[t]))
    BY <1>9, HelpersMove DEF RefuseRequest, At, HandsLocked, Busy, Types
  <2> QED
    BY <2>1, <2>2, <2>3, MovesStep
<1>10. ASSUME SendReply(t) PROVE Steps(t) /\ t \in Servers /\ pc'[t] = IF current = NoRequest THEN "leave" ELSE "replying"
  <2>1. t \in Servers /\ t \notin Clients
    BY <1>10, Sides DEF SendReply, At, Serving
  <2>2. CASE current = NoRequest
    <3>1. pc' = [pc EXCEPT ![t] = "leave"]
      BY <1>10, <2>2 DEF SendReply
    <3> QED
      BY <2>1, <2>2, <3>1, PlainStep
  <2>3. CASE current # NoRequest
    <3>1. pc' = [NotifyIfPending(pc) EXCEPT ![t] = "replying"]
      BY <1>10, <2>3 DEF SendReply
    <3> QED
      BY <2>1, <2>3, <3>1, HelpersMove, MovesStep
  <2> QED
    BY <2>1, <2>2, <2>3
<1>11. ASSUME ReplyToClient(t) PROVE Steps(t) /\ t \in Servers /\ pc'[t] = "leave"
  <2>1. t \in Servers /\ t \notin Clients
    BY <1>11, Sides DEF ReplyToClient, At, Serving
  <2>2. pc' = [Answered(pc, hand[t]) EXCEPT ![t] = "leave"]
    BY <1>11 DEF ReplyToClient
  <2>3. Moves(Answered(pc, hand[t]))
    BY <1>11, HelpersMove DEF ReplyToClient, At, HandsLocked, Busy, Types
  <2> QED
    BY <2>1, <2>2, <2>3, MovesStep
<1>12. ASSUME ServerLeave(t) PROVE Steps(t) /\ t \in Servers /\ pc'[t] = IF refs["server"] = 1 THEN "destroy" ELSE "idle"
  <2>1. t \in Servers /\ t \notin Clients
    BY <1>12, Sides DEF ServerLeave, At, Serving
  <2>2. pc' = [pc EXCEPT ![t] = IF refs["server"] = 1 THEN "destroy" ELSE "idle"]
    BY <1>12 DEF ServerLeave, CloseEnd
  <2> QED
    BY <2>1, <2>2, PlainStep
<1>13. ASSUME Destroy(t) PROVE Steps(t) /\ pc'[t] = IF state = "Normal" THEN "close"
                       ELSE IF t \in Servers THEN "cleanup" ELSE "closed"
  <2>1. t \in Clients <=> t \notin Servers
    BY Sides
  <2>2. pc' = [pc EXCEPT ![t] = IF state = "Normal" THEN "close"
                             ELSE IF t \in Servers THEN "cleanup" ELSE "closed"]
    BY <1>13 DEF Destroy
  <2> QED
    BY <2>1, <2>2, PlainStep
<1>14. ASSUME SetState(t) PROVE Steps(t) /\ pc'[t] = IF t \in Servers THEN "cleanup" ELSE "drain"
  <2>1. t \in Clients <=> t \notin Servers
    BY Sides
  <2>2. pc' = [pc EXCEPT ![t] = IF t \in Servers THEN "cleanup" ELSE "drain"]
    BY <1>14 DEF SetState
  <2> QED
    BY <2>1, <2>2, PlainStep
<1>15. ASSUME DrainCurrent(t) PROVE Steps(t) /\ t \in Clients /\ pc'[t] = "looked"
  <2>1. t \in Clients /\ t \notin Servers
    BY <1>15, Sides DEF DrainCurrent, At, Serving
  <2>2. pc' = [pc EXCEPT ![t] = "looked"]
    BY <1>15 DEF DrainCurrent
  <2> QED
    BY <2>1, <2>2, PlainStep
<1>16. ASSUME DrainPending(t) PROVE Steps(t) /\ t \in Clients /\ pc'[t] = "popped"
  <2>1. t \in Clients /\ t \notin Servers
    BY <1>16, Sides DEF DrainPending, At, Serving
  <2>2. pc' = [pc EXCEPT ![t] = "popped"]
    BY <1>16 DEF DrainPending
  <2> QED
    BY <2>1, <2>2, PlainStep
<1>17. ASSUME DrainEnd(t) PROVE Steps(t) /\ t \in Clients /\ pc'[t] = "closed"
  <2>1. t \in Clients /\ t \notin Servers
    BY <1>17, Sides DEF DrainEnd, At, Serving
  <2>2. pc' = [NotifyAvailable(pc, list, current, "leave") EXCEPT ![t] = "closed"]
    BY <1>17 DEF DrainEnd
  <2>3. Moves(NotifyAvailable(pc, list, current, "leave"))
    BY HelpersMove
  <2> QED
    BY <2>1, <2>2, <2>3, MovesStep
<1>18. ASSUME LeaveCurrent(t) PROVE Steps(t) /\ t \in Clients /\ pc'[t] = "drain"
  <2>1. t \in Clients /\ t \notin Servers
    BY <1>18, Sides DEF LeaveCurrent, At, Serving
  <2>2. pc' = [pc EXCEPT ![t] = "drain"]
    BY <1>18 DEF LeaveCurrent
  <2> QED
    BY <2>1, <2>2, PlainStep
<1>19. ASSUME CancelPending(t) PROVE Steps(t) /\ t \in Clients /\ pc'[t] = "drain"
  <2>1. t \in Clients /\ t \notin Servers
    BY <1>19, Sides DEF CancelPending, At, Serving
  <2>2. pc' = [pc EXCEPT ![t] = "drain"]
    BY <1>19 DEF CancelPending
  <2> QED
    BY <2>1, <2>2, PlainStep
<1>20. ASSUME CleanupTake(t) PROVE Steps(t) /\ t \in Servers /\ pc'[t] = IF current # NoRequest \/ list # <<>> THEN "cleaning" ELSE "closed"
  <2>1. t \in Servers /\ t \notin Clients
    BY <1>20, Sides DEF CleanupTake, At, Serving
  <2>2. CASE current # NoRequest \/ list # <<>>
    <3>1. pc' = [pc EXCEPT ![t] = "cleaning"]
      BY <1>20, <2>2 DEF CleanupTake
    <3> QED
      BY <2>1, <2>2, <3>1, PlainStep
  <2>3. CASE current = NoRequest /\ list = <<>>
    <3>1. pc' = [pc EXCEPT ![t] = "closed"]
      BY <1>20, <2>3 DEF CleanupTake
    <3> QED
      BY <2>1, <2>3, <3>1, PlainStep
  <2> QED
    BY <2>1, <2>2, <2>3
<1>21. ASSUME CleanupAnswer(t) PROVE Steps(t) /\ t \in Servers /\ pc'[t] = "cleanup"
  <2>1. t \in Servers /\ t \notin Clients
    BY <1>21, Sides DEF CleanupAnswer, At, Serving
  <2>2. pc' = [Answered(pc, hand[t]) EXCEPT ![t] = "cleanup"]
    BY <1>21 DEF CleanupAnswer
  <2>3. Moves(Answered(pc, hand[t]))
    BY <1>21, HelpersMove DEF CleanupAnswer, At, HandsLocked, Busy, Types
  <2> QED
    BY <2>1, <2>2, <2>3, MovesStep
<1>22. ASSUME CloseParent(t) PROVE Steps(t) /\ pc'[t] = Home(t)
  <2>1. Home(t) \in {"dead", "idle"} /\ (t \in Servers => Home(t) = "idle")
    BY SessionAssumption DEF Types, Home
  <2>2. pc' = [pc EXCEPT ![t] = Home(t)]
    BY <1>22 DEF CloseParent
  <2> QED
    BY <2>1, <2>2, PlainStep
<1> QED
  BY <1>1, <1>2, <1>3, <1>4, <1>5, <1>6, <1>7, <1>8, <1>9, <1>10, <1>11, <1>12, <1>13, <1>14, <1>15, <1>16, <1>17, <1>18, <1>19, <1>20, <1>21, <1>22

\* What a thread works on is a request.
LEMMA Requested ==
    ASSUME Types, HandsLocked, CallsOwn, NEW t \in Threads
    PROVE  /\ pc[t] \in Busy => hand[t] \in Requests
           /\ pc[t] \in {"send", "return"} => t \in Clients /\ own[t] \in Requests
BY Sides DEF Types, HandsLocked, CallsOwn

LEMMA CloseTypes ==
    ASSUME Types, NEW r \in Requests, NEW also, CloseRequest(r, also)
    PROVE  /\ rrefs' \in [Requests -> Int] /\ trefs' \in [Clients -> Int]
           /\ thread' \in [Requests -> Clients \cup {Nobody}]
           /\ event' \in [Requests -> BOOLEAN]
<1> USE DEF Types
<1>1. rrefs' \in [Requests -> Int]
  BY DEF CloseRequest
<1>2. trefs' \in [Clients -> Int]
  BY DEF CloseRequest
<1>3. thread' \in [Requests -> Clients \cup {Nobody}] /\ event' \in [Requests -> BOOLEAN]
  BY DEF CloseRequest
<1> QED
  BY <1>1, <1>2, <1>3

LEMMA CountUpdate ==
    ASSUME NEW S, NEW f \in [S -> Int], NEW k
    PROVE  [f EXCEPT ![k] = @ + 1] \in [S -> Int] /\ [f EXCEPT ![k] = @ - 1] \in [S -> Int]
<1>1. CASE k \in S
  BY <1>1
<1>2. CASE k \notin S
  <2>1. [f EXCEPT ![k] = @ + 1] = f /\ [f EXCEPT ![k] = @ - 1] = f
    BY <1>2
  <2> QED
    BY <2>1
<1> QED
  BY <1>1, <1>2

\* What a step does keeps the types.
LEMMA TypesKept ==
    ASSUME Types, HandsLocked, CallsOwn, Next
    PROVE  Types'
<1> USE DEF sessionVars, queueVars, requestVars, localVars, At
<1>t. \A t \in Threads : Steps(t) => LabelsOK'
  BY StepsLabels
<1>s. Clients \subseteq Threads /\ Servers \subseteq Threads
  BY DEF Threads
<1>g. ASSUME NEW t \in Clients, NEW async \in BOOLEAN, SendRequest(t, async) PROVE Types'
  <2>1. LabelsOK'
    BY <1>g, <1>s, <1>t, GuestSteps
  <2> QED
    BY <1>g, <2>1, <1>s DEF Types, SendRequest, Ends
<1>f. ASSUME NEW t \in Clients, SendFails(t) PROVE Types'
  <2>1. LabelsOK'
    BY <1>f, <1>s, <1>t, GuestSteps
  <2> QED
    BY <1>f, <2>1, <1>s DEF Types, SendFails, Ends
<1>h. ASSUME NEW t \in Clients, RequestTerminate(t) PROVE Types'
  <2>1. LabelsOK'
    BY <1>h, <1>s, <1>t, GuestSteps
  <2> QED
    BY <1>h, <2>1, SessionAssumption DEF Types, RequestTerminate
<1>i. ASSUME NEW t \in Threads, NEW e \in {"client", "server"}, CloseHandle(t, e) PROVE Types'
  <2>1. LabelsOK'
    BY <1>i, <1>t, GuestSteps
  <2> QED
    BY <1>i, <2>1 DEF Types, CloseHandle, CloseEnd, Ends
<1>j. ASSUME NEW s \in Servers, NEW what \in {"wait", "reply"}, ServerCall(s, what) PROVE Types'
  <2>1. LabelsOK'
    BY <1>j, <1>s, <1>t, GuestSteps
  <2> QED
    BY <1>j, <2>1 DEF Types, ServerCall, Ends
<1>k. ASSUME NEW s \in Servers, WaitTimeout(s) PROVE Types'
  <2>1. LabelsOK'
    BY <1>k, <1>s, <1>t, GuestSteps
  <2> QED
    BY <1>k, <2>1 DEF Types, WaitTimeout
<1>1. ASSUME NEW t \in Threads, OnRequest(t) PROVE Types'
  <2>1. LabelsOK'
    BY <1>1, <1>t, KernelSteps
  <2>2. list' \in Seq(Requests)
    BY <1>1, Requested, ListAppend, ListTake DEF Types, OnRequest
  <2> QED
    BY <1>1, <2>1, <2>2 DEF Types, OnRequest
<1>2. ASSUME NEW t \in Threads, CallReturn(t) PROVE Types'
  <2>1. LabelsOK'
    BY <1>2, <1>t, KernelSteps
  <2>2. own[t] \in Requests /\ CloseRequest(own[t], {})
    BY <1>2, Requested DEF CallReturn, Busy
  <2>3. /\ rrefs' \in [Requests -> Int] /\ trefs' \in [Clients -> Int]
        /\ thread' \in [Requests -> Clients \cup {Nobody}] /\ event' \in [Requests -> BOOLEAN]
    BY <2>2, CloseTypes
  <2>4. /\ UNCHANGED <<sessionVars, list, current, terminating, prev>>
        /\ lock' \in Threads \cup {Nobody} /\ own' \in [Clients -> Requests \cup {NoRequest}]
        /\ hand' \in [Threads -> Requests \cup {NoRequest}]
        /\ victim' \in [Threads -> Clients \cup {Nobody}]
    BY <1>2 DEF Types, CallReturn
  <2> QED
    BY <2>1, <2>3, <2>4 DEF Types
<1>3. ASSUME NEW t \in Threads, CallLeave(t) PROVE Types'
  <2>1. LabelsOK'
    BY <1>3, <1>t, KernelSteps
  <2> QED
    BY <1>3, <2>1 DEF Types, CallLeave, CloseEnd, Ends
<1>4. ASSUME NEW t \in Threads, Wait(t) PROVE Types'
  <2>1. LabelsOK'
    BY <1>4, <1>t, KernelSteps
  <2> QED
    BY <1>4, <2>1 DEF Types, Wait
<1>5. ASSUME NEW t \in Threads, ReceiveRequest(t) PROVE Types'
  <2>1. LabelsOK'
    BY <1>5, <1>t, KernelSteps
  <2>2. list' \in Seq(Requests) /\ (list # <<>> => Head(list) \in Requests)
    BY <1>5, HeadTailProperties, ListAppend, ListTake DEF Types, ReceiveRequest
  <2>3. trefs' \in [Clients -> Int] /\ hand' \in [Threads -> Requests \cup {NoRequest}]
    <3>1. CASE UNCHANGED <<trefs, hand>>
      BY <3>1 DEF Types
    <3>2. CASE /\ list # <<>> /\ hand' = [hand EXCEPT ![t] = Head(list)]
               /\ trefs' = [trefs EXCEPT ![thread[Head(list)]] = @ + 1]
      BY <2>2, <3>2, CountUpdate DEF Types
    <3> QED
      BY <1>5, <3>1, <3>2 DEF ReceiveRequest
  <2> QED
    BY <1>5, <2>1, <2>2, <2>3 DEF Types, ReceiveRequest
<1>6. ASSUME NEW t \in Threads, SetCurrent(t) PROVE Types'
  <2>1. LabelsOK'
    BY <1>6, <1>t, KernelSteps
  <2> QED
    BY <1>6, <2>1, Requested DEF Types, SetCurrent, Busy
<1>7. ASSUME NEW t \in Threads, ReceiveSucceeds(t) PROVE Types'
  <2>1. LabelsOK'
    BY <1>7, <1>t, KernelSteps
  <2>2. trefs' \in [Clients -> Int]
    BY <1>7, CountUpdate DEF Types, ReceiveSucceeds
  <2> QED
    BY <1>7, <2>1, <2>2 DEF Types, ReceiveSucceeds
<1>8. ASSUME NEW t \in Threads, ReceiveFails(t) PROVE Types'
  <2>1. LabelsOK'
    BY <1>8, <1>t, KernelSteps
  <2> QED
    BY <1>8, <2>1 DEF Types, ReceiveFails
<1>9. ASSUME NEW t \in Threads, RefuseRequest(t) PROVE Types'
  <2>1. LabelsOK'
    BY <1>9, <1>t, KernelSteps
  <2>2. hand[t] \in Requests /\ CloseRequest(hand[t], {thread[hand[t]]})
    BY <1>9, Requested DEF RefuseRequest, Busy
  <2>3. /\ rrefs' \in [Requests -> Int] /\ trefs' \in [Clients -> Int]
        /\ thread' \in [Requests -> Clients \cup {Nobody}] /\ event' \in [Requests -> BOOLEAN]
    BY <2>2, CloseTypes
  <2>4. /\ UNCHANGED <<sessionVars, list, current, terminating, prev>>
        /\ lock' \in Threads \cup {Nobody} /\ own' \in [Clients -> Requests \cup {NoRequest}]
        /\ hand' \in [Threads -> Requests \cup {NoRequest}]
        /\ victim' \in [Threads -> Clients \cup {Nobody}]
    BY <1>9 DEF Types, RefuseRequest
  <2> QED
    BY <2>1, <2>3, <2>4 DEF Types
<1>10. ASSUME NEW t \in Threads, SendReply(t) PROVE Types'
  <2>1. LabelsOK'
    BY <1>10, <1>t, KernelSteps
  <2> QED
    BY <1>10, <2>1 DEF Types, SendReply
<1>11. ASSUME NEW t \in Threads, ReplyToClient(t) PROVE Types'
  <2>1. LabelsOK'
    BY <1>11, <1>t, KernelSteps
  <2>2. hand[t] \in Requests /\ CloseRequest(hand[t], {})
    BY <1>11, Requested DEF ReplyToClient, Busy
  <2>3. /\ rrefs' \in [Requests -> Int] /\ trefs' \in [Clients -> Int]
        /\ thread' \in [Requests -> Clients \cup {Nobody}] /\ event' \in [Requests -> BOOLEAN]
    BY <2>2, CloseTypes
  <2>4. /\ UNCHANGED <<sessionVars, list, current, terminating, prev>>
        /\ lock' \in Threads \cup {Nobody} /\ own' \in [Clients -> Requests \cup {NoRequest}]
        /\ hand' \in [Threads -> Requests \cup {NoRequest}]
        /\ victim' \in [Threads -> Clients \cup {Nobody}]
    BY <1>11 DEF Types, ReplyToClient
  <2> QED
    BY <2>1, <2>3, <2>4 DEF Types
<1>12. ASSUME NEW t \in Threads, ServerLeave(t) PROVE Types'
  <2>1. LabelsOK'
    BY <1>12, <1>t, KernelSteps
  <2> QED
    BY <1>12, <2>1 DEF Types, ServerLeave, CloseEnd, Ends
<1>13. ASSUME NEW t \in Threads, Destroy(t) PROVE Types'
  <2>1. LabelsOK'
    BY <1>13, <1>t, KernelSteps
  <2> QED
    BY <1>13, <2>1 DEF Types, Destroy
<1>14. ASSUME NEW t \in Threads, SetState(t) PROVE Types'
  <2>1. LabelsOK'
    BY <1>14, <1>t, KernelSteps
  <2> QED
    BY <1>14, <2>1 DEF Types, SetState
<1>15. ASSUME NEW t \in Threads, DrainCurrent(t) PROVE Types'
  <2>1. LabelsOK'
    BY <1>15, <1>t, KernelSteps
  <2>2. current \in Requests /\ rrefs' \in [Requests -> Int]
    BY <1>15 DEF Types, DrainCurrent, Takeable
  <2>3. /\ thread' \in [Requests -> Clients \cup {Nobody}] /\ event' \in [Requests -> BOOLEAN]
        /\ victim' \in [Threads -> Clients \cup {Nobody}]
    BY <1>15, <2>2 DEF Types, DrainCurrent, ClearThread
  <2> QED
    BY <1>15, <2>1, <2>2, <2>3 DEF Types, DrainCurrent
<1>16. ASSUME NEW t \in Threads, DrainPending(t) PROVE Types'
  <2>1. LabelsOK'
    BY <1>16, <1>t, KernelSteps
  <2>2. list' \in Seq(Requests) /\ (list # <<>> => Head(list) \in Requests)
    BY <1>16, HeadTailProperties, ListAppend, ListTake DEF Types, DrainPending
  <2> QED
    BY <1>16, <2>1, <2>2 DEF Types, DrainPending
<1>17. ASSUME NEW t \in Threads, DrainEnd(t) PROVE Types'
  <2>1. LabelsOK'
    BY <1>17, <1>t, KernelSteps
  <2> QED
    BY <1>17, <2>1 DEF Types, DrainEnd
<1>18. ASSUME NEW t \in Threads, LeaveCurrent(t) PROVE Types'
  <2>1. LabelsOK'
    BY <1>18, <1>t, KernelSteps
  <2>2. hand[t] \in Requests /\ CloseRequest(hand[t], {victim[t]})
    BY <1>18, Requested DEF LeaveCurrent, Busy
  <2>3. /\ rrefs' \in [Requests -> Int] /\ trefs' \in [Clients -> Int]
        /\ thread' \in [Requests -> Clients \cup {Nobody}] /\ event' \in [Requests -> BOOLEAN]
    BY <2>2, CloseTypes
  <2>4. /\ UNCHANGED <<sessionVars, list, current, terminating, prev>>
        /\ lock' \in Threads \cup {Nobody} /\ own' \in [Clients -> Requests \cup {NoRequest}]
        /\ hand' \in [Threads -> Requests \cup {NoRequest}]
        /\ victim' \in [Threads -> Clients \cup {Nobody}]
    BY <1>18 DEF Types, LeaveCurrent
  <2> QED
    BY <2>1, <2>3, <2>4 DEF Types
<1>19. ASSUME NEW t \in Threads, CancelPending(t) PROVE Types'
  <2>1. LabelsOK'
    BY <1>19, <1>t, KernelSteps
  <2>2. hand[t] \in Requests /\ CloseRequest(hand[t], {})
    BY <1>19, Requested DEF CancelPending, Busy
  <2>3. /\ rrefs' \in [Requests -> Int] /\ trefs' \in [Clients -> Int]
        /\ thread' \in [Requests -> Clients \cup {Nobody}] /\ event' \in [Requests -> BOOLEAN]
    BY <2>2, CloseTypes
  <2>4. /\ UNCHANGED <<sessionVars, list, current, terminating, prev>>
        /\ lock' \in Threads \cup {Nobody} /\ own' \in [Clients -> Requests \cup {NoRequest}]
        /\ hand' \in [Threads -> Requests \cup {NoRequest}]
        /\ victim' \in [Threads -> Clients \cup {Nobody}]
    BY <1>19 DEF Types, CancelPending
  <2> QED
    BY <2>1, <2>3, <2>4 DEF Types
<1>20. ASSUME NEW t \in Threads, CleanupTake(t) PROVE Types'
  <2>1. LabelsOK'
    BY <1>20, <1>t, KernelSteps
  <2>2. list' \in Seq(Requests) /\ (list # <<>> => Head(list) \in Requests)
    BY <1>20, HeadTailProperties, ListAppend, ListTake DEF Types, CleanupTake
  <2> QED
    BY <1>20, <2>1, <2>2 DEF Types, CleanupTake
<1>21. ASSUME NEW t \in Threads, CleanupAnswer(t) PROVE Types'
  <2>1. LabelsOK'
    BY <1>21, <1>t, KernelSteps
  <2>2. hand[t] \in Requests /\ CloseRequest(hand[t], {})
    BY <1>21, Requested DEF CleanupAnswer, Busy
  <2>3. /\ rrefs' \in [Requests -> Int] /\ trefs' \in [Clients -> Int]
        /\ thread' \in [Requests -> Clients \cup {Nobody}] /\ event' \in [Requests -> BOOLEAN]
    BY <2>2, CloseTypes
  <2>4. /\ UNCHANGED <<sessionVars, list, current, terminating, prev>>
        /\ lock' \in Threads \cup {Nobody} /\ own' \in [Clients -> Requests \cup {NoRequest}]
        /\ hand' \in [Threads -> Requests \cup {NoRequest}]
        /\ victim' \in [Threads -> Clients \cup {Nobody}]
    BY <1>21 DEF Types, CleanupAnswer
  <2> QED
    BY <2>1, <2>3, <2>4 DEF Types
<1>22. ASSUME NEW t \in Threads, CloseParent(t) PROVE Types'
  <2>1. LabelsOK'
    BY <1>22, <1>t, KernelSteps
  <2> QED
    BY <1>22, <2>1 DEF Types, CloseParent, Ends
<1> QED
  BY <1>f, <1>g, <1>h, <1>i, <1>j, <1>k, <1>s, <1>1, <1>2, <1>3, <1>4, <1>5, <1>6, <1>7, <1>8, <1>9, <1>10, <1>11, <1>12, <1>13, <1>14, <1>15, <1>16, <1>17, <1>18, <1>19, <1>20, <1>21, <1>22
     DEF Next, Guest, Kernel

-----------------------------------------------------------------------------
(* The requests and where they are.                                        *)

\* Where the other threads are, as far as the proofs tell it apart.
LEMMA Bystanders ==
    ASSUME Types, NEW t \in Threads, Steps(t), NEW u \in Threads \ {t}
    PROVE  /\ pc'[u] \in Busy <=> pc[u] \in Busy
           /\ pc'[u] \in Ending <=> pc[u] \in Ending
           /\ u \in Clients => (pc'[u] \in Calling <=> pc[u] \in Calling)
           /\ u \in Servers => (pc'[u] \in Serving <=> pc[u] \in Serving)
           /\ u \in Clients => (pc'[u] \in {"send", "waiting", "return"}
                                <=> pc[u] \in {"send", "waiting", "return"})
           /\ pc'[u] = "sleeping" => pc[u] = "sleeping"
           /\ pc'[u] = "waiting" => pc[u] = "waiting"
           /\ pc'[u] # pc[u] => pc[u] \in {"sleeping", "waiting"}
                                /\ pc'[u] \in {"receive", "leave", "return"}
BY SessionAssumption DEF Steps, Busy, Ending, Calling, Serving, Threads

\* Who has m_lock is alone with what it has in hand.
LEMMA LockAlone ==
    ASSUME Types, HandsLocked, NEW t \in Threads, lock \in {Nobody, t}
    PROVE  \A u \in Threads \ {t} :
              pc[u] \notin Busy /\ hand[u] = NoRequest /\ victim[u] = Nobody
BY SessionAssumption DEF Types, HandsLocked, Threads, Busy

\* A step of a thread that has nothing in hand, before or after.
LEMMA HandsKept ==
    ASSUME Types, HandsLocked, NEW t \in Threads, Steps(t), UNCHANGED <<lock, hand, victim>>,
           \/ pc'[t] = pc[t]
           \/ pc[t] \notin Busy \cup {"drain", "cleanup"} /\ pc'[t] \notin Busy
    PROVE  /\ HandsLocked'
           /\ \A u \in Threads : /\ hand[u] # NoRequest => pc'[u] = pc[u]
                                 /\ pc'[u] \in Busy => pc'[u] = pc[u]
           /\ \A q \in Requests : Held(q)' <=> Held(q)
<1>1. \A u \in Threads : /\ pc'[u] \in Busy <=> pc[u] \in Busy
                         /\ pc'[u] \in Busy => pc'[u] = pc[u]
  BY Bystanders DEF Busy
<1>2. HandsLocked'
  <2> SUFFICES ASSUME NEW u \in Threads
               PROVE  /\ hand[u] # NoRequest <=> pc'[u] \in Busy
                      /\ pc'[u] \in Busy => lock = u
                      /\ lock = u => pc'[u] \in Busy \cup {"drain", "cleanup"}
                      /\ victim[u] # Nobody => pc'[u] = "looked"
    BY DEF HandsLocked
  <2>1. /\ hand[u] # NoRequest <=> pc[u] \in Busy
        /\ pc[u] \in Busy => lock = u
        /\ lock = u => pc[u] \in Busy \cup {"drain", "cleanup"}
        /\ victim[u] # Nobody => pc[u] = "looked"
    BY DEF HandsLocked
  <2>2. pc[u] \in {"drain", "cleanup"} => pc'[u] = pc[u] \/ lock # u
    <3>1. CASE u = t
      BY <2>1, <3>1
    <3>2. CASE u # t
      BY <3>2, Bystanders
    <3> QED
      BY <3>1, <3>2
  <2> QED
    BY <1>1, <2>1, <2>2 DEF Busy
<1>3. \A u \in Threads : hand[u] # NoRequest => pc'[u] = pc[u]
  BY <1>1, <1>2 DEF HandsLocked
<1>4. \A q \in Requests : Held(q)' <=> Held(q)
  BY <1>3, SessionAssumption DEF Held
<1> QED
  BY <1>1, <1>2, <1>3, <1>4

\* A step that moves no request.
LEMMA QuietQueue ==
    ASSUME Types, QueueInv, NEW t \in Threads, Steps(t),
           UNCHANGED <<list, current, lock, rrefs, own, hand, victim>>,
           \/ pc'[t] = pc[t]
           \/ pc[t] \notin Busy \cup {"drain", "cleanup"} /\ pc'[t] \notin Busy,
           t \in Clients => (pc'[t] \in {"send", "waiting", "return"}
                             <=> pc[t] \in {"send", "waiting", "return"}),
           pc'[t] = "send" => pc[t] = "send"
    PROVE  QueueInv'
<1> USE DEF QueueInv
<1>1. /\ HandsLocked'
      /\ \A u \in Threads : /\ hand[u] # NoRequest => pc'[u] = pc[u]
                            /\ pc'[u] \in Busy => pc'[u] = pc[u]
      /\ \A q \in Requests : Held(q)' <=> Held(q)
  BY HandsKept
<1>2. \A u \in Clients : /\ pc'[u] \in {"send", "waiting", "return"}
                            <=> pc[u] \in {"send", "waiting", "return"}
                         /\ pc'[u] = "send" => pc[u] = "send"
  BY Bystanders DEF Threads
<1>3. CallsOwn'
  BY <1>2 DEF CallsOwn
<1>4. \A q : (Listed(q)' <=> Listed(q)) /\ (Owned(q)' <=> Owned(q))
  BY DEF Listed, Owned
<1>5. PlacesDistinct'
  <2>1. \A u \in Threads :
           /\ hand[u] # NoRequest => (hand[u] = current <=> pc'[u] \in {"receiving", "looked"})
           /\ pc'[u] = "received" => current = NoRequest
    BY <1>1 DEF PlacesDistinct, Busy
  <2> QED
    BY <1>4, <2>1 DEF PlacesDistinct
<1>6. PlacesCounted'
  BY <1>1, <1>4 DEF PlacesCounted, One
<1>7. SendsNew'
  <2> SUFFICES ASSUME NEW u \in Clients, pc'[u] = "send" PROVE ~InLine(own[u])'
    BY DEF SendsNew
  <2>1. pc[u] = "send" /\ own[u] \in Requests
    BY <1>2 DEF Threads, CallsOwn, Types
  <2> QED
    BY <1>1, <1>4, <2>1 DEF SendsNew, InLine
<1> QED
  BY <1>1, <1>3, <1>5, <1>6, <1>7

\* What a step of thread t does that has m_lock, or takes it.  What t works on is h
\* then; places are taken and left together with their references.
LockedMove(t, h) ==
    /\ Steps(t)
    /\ h \in Requests \cup {NoRequest}
    /\ lock \in {Nobody, t} /\ lock' \in {Nobody, t} /\ own' = own
    /\ hand' = [hand EXCEPT ![t] = h]
    /\ \A u \in Threads \ {t} : victim'[u] = victim[u]
    /\ victim'[t] # Nobody => pc'[t] = "looked"
    /\ h # NoRequest <=> pc'[t] \in Busy
    /\ pc'[t] \in Busy => lock' = t
    /\ lock' = t => pc'[t] \in Busy \cup {"drain", "cleanup"}
    /\ t \in Clients => pc[t] \notin {"send", "waiting", "return"}
                        /\ pc'[t] \notin {"send", "waiting", "return"}
    /\ pc'[t] # "send"
    /\ \A i, j \in DOMAIN list' : list'[i] = list'[j] => i = j
    /\ \A q \in Requests : Listed(q)' => current' # q /\ h # q
    /\ h # NoRequest => (h = current' <=> pc'[t] \in {"receiving", "looked"})
    /\ pc'[t] = "received" => current' = NoRequest
    /\ \A q \in Requests :
        /\ rrefs'[q] - rrefs[q]
           = One(Listed(q)') - One(Listed(q)) + One(current' = q) - One(current = q)
             + One(h = q /\ pc'[t] # "receiving") - One(hand[t] = q /\ pc[t] # "receiving")
        /\ Listed(q)' \/ current' = q \/ (h = q /\ pc'[t] # "receiving")
           => Listed(q) \/ current = q \/ (hand[t] = q /\ pc[t] # "receiving")

LEMMA LockedQueue ==
    ASSUME Types, Types', QueueInv, NEW t \in Threads,
           NEW h \in Requests \cup {NoRequest}, LockedMove(t, h)
    PROVE  QueueInv'
<1> USE DEF QueueInv, LockedMove
<1>1. \A u \in Threads \ {t} : /\ pc[u] \notin Busy /\ pc'[u] \notin Busy
                               /\ hand[u] = NoRequest /\ hand'[u] = NoRequest
                               /\ victim[u] = Nobody /\ victim'[u] = Nobody
  <2>1. \A u \in Threads \ {t} : pc[u] \notin Busy /\ hand[u] = NoRequest /\ victim[u] = Nobody
    BY LockAlone
  <2>2. \A u \in Threads \ {t} : pc'[u] \notin Busy
    BY <2>1, Bystanders
  <2> QED
    BY <2>1, <2>2
<1>2. hand'[t] = h
  BY DEF Types
<1>3. HandsLocked'
  <2> SUFFICES ASSUME NEW u \in Threads
               PROVE  /\ hand'[u] # NoRequest <=> pc'[u] \in Busy
                      /\ pc'[u] \in Busy => lock' = u
                      /\ lock' = u => pc'[u] \in Busy \cup {"drain", "cleanup"}
                      /\ victim'[u] # Nobody => pc'[u] = "looked"
    BY DEF HandsLocked
  <2>1. CASE u = t
    BY <1>2, <2>1
  <2>2. CASE u # t
    BY <1>1, <2>2, SessionAssumption DEF Threads
  <2> QED
    BY <2>1, <2>2
<1>4. CallsOwn'
  <2>1. \A u \in Clients : pc'[u] \in {"send", "waiting", "return"}
                           <=> pc[u] \in {"send", "waiting", "return"}
    BY Bystanders DEF Threads
  <2> QED
    BY <2>1 DEF CallsOwn
<1>5. \A q \in Requests : /\ Held(q) <=> hand[t] = q /\ pc[t] # "receiving"
                          /\ Held(q)' <=> h = q /\ pc'[t] # "receiving"
  BY <1>1, <1>2, SessionAssumption DEF Held
<1>6. PlacesDistinct'
  <2>1. \A q \in Requests : Listed(q)' => current' # q /\ \A u \in Threads : hand'[u] # q
    BY <1>1, <1>2, SessionAssumption
  <2>2. \A u \in Threads :
           /\ hand'[u] # NoRequest => (hand'[u] = current' <=> pc'[u] \in {"receiving", "looked"})
           /\ pc'[u] = "received" => current' = NoRequest
    BY <1>1, <1>2 DEF Busy
  <2> QED
    BY <2>1, <2>2 DEF PlacesDistinct
<1>7. PlacesCounted'
  <2> SUFFICES ASSUME NEW q \in Requests
               PROVE  rrefs'[q] = One(Owned(q)') + One(Listed(q)') + One(current' = q)
                                  + One(Held(q)')
    BY DEF PlacesCounted
  <2>1. /\ Owned(q)' <=> Owned(q)
        /\ Held(q) <=> hand[t] = q /\ pc[t] # "receiving"
        /\ Held(q)' <=> h = q /\ pc'[t] # "receiving"
    BY <1>5 DEF Owned
  <2>2. rrefs[q] = One(Owned(q)) + One(Listed(q)) + One(current = q) + One(Held(q))
    BY DEF PlacesCounted
  <2>3. rrefs'[q] \in Int /\ rrefs[q] \in Int
    BY DEF Types
  <2> QED
    BY <2>1, <2>2, <2>3 DEF One
<1>8. SendsNew'
  <2> SUFFICES ASSUME NEW u \in Clients, pc'[u] = "send" PROVE ~InLine(own[u])'
    BY DEF SendsNew
  <2>1. u # t /\ pc[u] = "send" /\ own[u] \in Requests
    <3>1. u # t
      OBVIOUS
    <3>2. pc[u] = "send"
      BY <3>1, Bystanders DEF Threads
    <3> QED
      BY <3>1, <3>2 DEF CallsOwn, Types
  <2> QED
    BY <1>5, <2>1 DEF SendsNew, InLine
<1> QED
  BY <1>3, <1>4, <1>6, <1>7, <1>8

\* The steps that are taken with m_lock.
LEMMA LockedSteps ==
    ASSUME Types, Types', QueueInv, NEW t \in Threads,
           \/ ReceiveRequest(t) /\ state = "Normal" /\ current = NoRequest /\ list # <<>>
           \/ SetCurrent(t) \/ ReceiveSucceeds(t) \/ ReceiveFails(t) \/ RefuseRequest(t)
           \/ SendReply(t) /\ current # NoRequest
           \/ ReplyToClient(t)
           \/ DrainCurrent(t) \/ DrainPending(t) \/ DrainEnd(t) \/ LeaveCurrent(t) \/ CancelPending(t)
           \/ CleanupTake(t) \/ CleanupAnswer(t)
    PROVE  QueueInv'
<1> USE DEF QueueInv, At
<1>a. /\ \A i, j \in DOMAIN list : list[i] = list[j] => i = j
      /\ \A q \in Requests : Listed(q) => current # q /\ hand[t] # q
      /\ hand[t] # NoRequest => (hand[t] = current <=> pc[t] \in {"receiving", "looked"})
      /\ pc[t] = "received" => current = NoRequest
      /\ hand[t] # NoRequest <=> pc[t] \in Busy
      /\ pc[t] \in Busy => lock = t /\ hand[t] \in Requests
      /\ victim[t] # Nobody => pc[t] = "looked"
      /\ \A q \in Requests : rrefs[q] \in Int /\ rrefs'[q] \in Int
  BY DEF PlacesDistinct, HandsLocked, Types
<1>1. ASSUME ReceiveRequest(t), state = "Normal" /\ current = NoRequest /\ list # <<>> PROVE QueueInv'
  <2>1. /\ Steps(t) /\ pc[t] = "receive" /\ pc'[t] = "received"
        /\ t \in Clients => pc[t] \notin {"send", "waiting", "return"}
                            /\ pc'[t] \notin {"send", "waiting", "return"}
    BY <1>1, KernelSteps, Sides DEF ReceiveRequest, Serving
  <2>2. /\ lock \in {Nobody, t} /\ lock' \in {Nobody, t}
        /\ pc'[t] \in Busy => lock' = t
        /\ lock' = t => pc'[t] \in Busy \cup {"drain", "cleanup"}
    BY <1>1, <1>a, <2>1, SessionAssumption DEF ReceiveRequest, queueVars, Busy, Threads
  <2>3. /\ own' = own /\ Head(list) \in Requests \cup {NoRequest}
        /\ hand' = [hand EXCEPT ![t] = Head(list)]
        /\ \A u \in Threads \ {t} : victim'[u] = victim[u]
        /\ victim'[t] # Nobody => pc'[t] = "looked"
        /\ Head(list) # NoRequest <=> pc'[t] \in Busy
    BY <1>1, <1>a, <2>1, ListTake, SessionAssumption DEF Types, ReceiveRequest, localVars, Busy
  <2>4. /\ \A i, j \in DOMAIN list' : list'[i] = list'[j] => i = j
        /\ \A q \in Requests : /\ Listed(q)' => current' # q /\ Head(list) # q
                               /\ Listed(q) <=> Listed(q)' \/ q = Head(list)
                               /\ q = Head(list) => ~Listed(q)' /\ current # q
    BY <1>1, <1>a, ListTake, SessionAssumption DEF ReceiveRequest, queueVars, sessionVars
  <2>5. /\ Head(list) # NoRequest => (Head(list) = current' <=> pc'[t] \in {"receiving", "looked"})
        /\ pc'[t] = "received" => current' = NoRequest
    BY <1>1, <1>a, <2>1, <2>2, ListTake DEF ReceiveRequest, queueVars, Busy
  <2>6. \A q \in Requests :
           /\ rrefs'[q] - rrefs[q]
              = One(Listed(q)') - One(Listed(q)) + One(current' = q) - One(current = q)
                + One(Head(list) = q /\ pc'[t] # "receiving") - One(hand[t] = q /\ pc[t] # "receiving")
           /\ Listed(q)' \/ current' = q \/ (Head(list) = q /\ pc'[t] # "receiving")
              => Listed(q) \/ current = q \/ (hand[t] = q /\ pc[t] # "receiving")
    BY <1>1, <1>a, <2>1, <2>3, <2>4, SessionAssumption
       DEF Types, ReceiveRequest, queueVars, requestVars, One, Busy
  <2>7. Head(list) \in Requests \cup {NoRequest} /\ LockedMove(t, Head(list))
    BY <2>1, <2>2, <2>3, <2>4, <2>5, <2>6 DEF LockedMove
  <2> QED
    BY <2>7, LockedQueue
<1>2. ASSUME SetCurrent(t) PROVE QueueInv'
  <2>1. /\ Steps(t) /\ pc[t] = "received" /\ pc'[t] = "receiving"
        /\ t \in Clients => pc[t] \notin {"send", "waiting", "return"}
                            /\ pc'[t] \notin {"send", "waiting", "return"}
    BY <1>2, KernelSteps, Sides DEF SetCurrent, Serving
  <2>2. /\ lock \in {Nobody, t} /\ lock' \in {Nobody, t}
        /\ pc'[t] \in Busy => lock' = t
        /\ lock' = t => pc'[t] \in Busy \cup {"drain", "cleanup"}
    BY <1>2, <1>a, <2>1, SessionAssumption DEF SetCurrent, queueVars, Busy, Threads
  <2>3. /\ own' = own /\ hand[t] \in Requests \cup {NoRequest}
        /\ hand' = [hand EXCEPT ![t] = hand[t]]
        /\ \A u \in Threads \ {t} : victim'[u] = victim[u]
        /\ victim'[t] # Nobody => pc'[t] = "looked"
        /\ hand[t] # NoRequest <=> pc'[t] \in Busy
    BY <1>2, <1>a, <2>1, SessionAssumption DEF Types, SetCurrent, localVars, Busy
  <2>4. /\ \A i, j \in DOMAIN list' : list'[i] = list'[j] => i = j
        /\ \A q \in Requests : /\ Listed(q)' => current' # q /\ hand[t] # q
                               /\ Listed(q)' <=> Listed(q)
    BY <1>2, <1>a, SessionAssumption DEF SetCurrent, queueVars, sessionVars, Listed
  <2>5. /\ hand[t] # NoRequest => (hand[t] = current' <=> pc'[t] \in {"receiving", "looked"})
        /\ pc'[t] = "received" => current' = NoRequest
    BY <1>2, <1>a, <2>1, <2>2 DEF SetCurrent, queueVars, Busy
  <2>6. \A q \in Requests :
           /\ rrefs'[q] - rrefs[q]
              = One(Listed(q)') - One(Listed(q)) + One(current' = q) - One(current = q)
                + One(hand[t] = q /\ pc'[t] # "receiving") - One(hand[t] = q /\ pc[t] # "receiving")
           /\ Listed(q)' \/ current' = q \/ (hand[t] = q /\ pc'[t] # "receiving")
              => Listed(q) \/ current = q \/ (hand[t] = q /\ pc[t] # "receiving")
    BY <1>2, <1>a, <2>1, <2>3, <2>4, SessionAssumption
       DEF Types, SetCurrent, queueVars, requestVars, One, Busy
  <2>7. hand[t] \in Requests \cup {NoRequest} /\ LockedMove(t, hand[t])
    BY <2>1, <2>2, <2>3, <2>4, <2>5, <2>6 DEF LockedMove
  <2> QED
    BY <2>7, LockedQueue
<1>3. ASSUME ReceiveSucceeds(t) PROVE QueueInv'
  <2>1. /\ Steps(t) /\ pc[t] = "receiving" /\ pc'[t] = "leave"
        /\ t \in Clients => pc[t] \notin {"send", "waiting", "return"}
                            /\ pc'[t] \notin {"send", "waiting", "return"}
    BY <1>3, KernelSteps, Sides DEF ReceiveSucceeds, Serving
  <2>2. /\ lock \in {Nobody, t} /\ lock' \in {Nobody, t}
        /\ pc'[t] \in Busy => lock' = t
        /\ lock' = t => pc'[t] \in Busy \cup {"drain", "cleanup"}
    BY <1>3, <1>a, <2>1, SessionAssumption DEF ReceiveSucceeds, queueVars, Busy, Threads
  <2>3. /\ own' = own /\ NoRequest \in Requests \cup {NoRequest}
        /\ hand' = [hand EXCEPT ![t] = NoRequest]
        /\ \A u \in Threads \ {t} : victim'[u] = victim[u]
        /\ victim'[t] # Nobody => pc'[t] = "looked"
        /\ NoRequest # NoRequest <=> pc'[t] \in Busy
    BY <1>3, <1>a, <2>1, SessionAssumption DEF Types, ReceiveSucceeds, localVars, Busy
  <2>4. /\ \A i, j \in DOMAIN list' : list'[i] = list'[j] => i = j
        /\ \A q \in Requests : /\ Listed(q)' => current' # q /\ NoRequest # q
                               /\ Listed(q)' <=> Listed(q)
    BY <1>3, <1>a, SessionAssumption DEF ReceiveSucceeds, queueVars, sessionVars, Listed
  <2>5. /\ NoRequest # NoRequest => (NoRequest = current' <=> pc'[t] \in {"receiving", "looked"})
        /\ pc'[t] = "received" => current' = NoRequest
    BY <1>3, <1>a, <2>1, <2>2 DEF ReceiveSucceeds, queueVars, Busy
  <2>6. \A q \in Requests :
           /\ rrefs'[q] - rrefs[q]
              = One(Listed(q)') - One(Listed(q)) + One(current' = q) - One(current = q)
                + One(NoRequest = q /\ pc'[t] # "receiving") - One(hand[t] = q /\ pc[t] # "receiving")
           /\ Listed(q)' \/ current' = q \/ (NoRequest = q /\ pc'[t] # "receiving")
              => Listed(q) \/ current = q \/ (hand[t] = q /\ pc[t] # "receiving")
    BY <1>3, <1>a, <2>1, <2>3, <2>4, SessionAssumption
       DEF Types, ReceiveSucceeds, queueVars, requestVars, One, Busy
  <2>7. NoRequest \in Requests \cup {NoRequest} /\ LockedMove(t, NoRequest)
    BY <2>1, <2>2, <2>3, <2>4, <2>5, <2>6 DEF LockedMove
  <2> QED
    BY <2>7, LockedQueue
<1>4. ASSUME ReceiveFails(t) PROVE QueueInv'
  <2>1. /\ Steps(t) /\ pc[t] = "receiving" /\ pc'[t] = "refuse"
        /\ t \in Clients => pc[t] \notin {"send", "waiting", "return"}
                            /\ pc'[t] \notin {"send", "waiting", "return"}
    BY <1>4, KernelSteps, Sides DEF ReceiveFails, Serving
  <2>2. /\ lock \in {Nobody, t} /\ lock' \in {Nobody, t}
        /\ pc'[t] \in Busy => lock' = t
        /\ lock' = t => pc'[t] \in Busy \cup {"drain", "cleanup"}
    BY <1>4, <1>a, <2>1, SessionAssumption DEF ReceiveFails, queueVars, Busy, Threads
  <2>3. /\ own' = own /\ hand[t] \in Requests \cup {NoRequest}
        /\ hand' = [hand EXCEPT ![t] = hand[t]]
        /\ \A u \in Threads \ {t} : victim'[u] = victim[u]
        /\ victim'[t] # Nobody => pc'[t] = "looked"
        /\ hand[t] # NoRequest <=> pc'[t] \in Busy
    BY <1>4, <1>a, <2>1, SessionAssumption DEF Types, ReceiveFails, localVars, Busy
  <2>4. /\ \A i, j \in DOMAIN list' : list'[i] = list'[j] => i = j
        /\ \A q \in Requests : /\ Listed(q)' => current' # q /\ hand[t] # q
                               /\ Listed(q)' <=> Listed(q)
    BY <1>4, <1>a, SessionAssumption DEF ReceiveFails, queueVars, sessionVars, Listed
  <2>5. /\ hand[t] # NoRequest => (hand[t] = current' <=> pc'[t] \in {"receiving", "looked"})
        /\ pc'[t] = "received" => current' = NoRequest
    BY <1>4, <1>a, <2>1, <2>2 DEF ReceiveFails, queueVars, Busy
  <2>6. \A q \in Requests :
           /\ rrefs'[q] - rrefs[q]
              = One(Listed(q)') - One(Listed(q)) + One(current' = q) - One(current = q)
                + One(hand[t] = q /\ pc'[t] # "receiving") - One(hand[t] = q /\ pc[t] # "receiving")
           /\ Listed(q)' \/ current' = q \/ (hand[t] = q /\ pc'[t] # "receiving")
              => Listed(q) \/ current = q \/ (hand[t] = q /\ pc[t] # "receiving")
    BY <1>4, <1>a, <2>1, <2>3, <2>4, SessionAssumption
       DEF Types, ReceiveFails, queueVars, requestVars, One, Busy
  <2>7. hand[t] \in Requests \cup {NoRequest} /\ LockedMove(t, hand[t])
    BY <2>1, <2>2, <2>3, <2>4, <2>5, <2>6 DEF LockedMove
  <2> QED
    BY <2>7, LockedQueue
<1>5. ASSUME RefuseRequest(t) PROVE QueueInv'
  <2>1. /\ Steps(t) /\ pc[t] = "refuse" /\ pc'[t] \in {"wait", "leave"}
        /\ t \in Clients => pc[t] \notin {"send", "waiting", "return"}
                            /\ pc'[t] \notin {"send", "waiting", "return"}
    BY <1>5, KernelSteps, Sides DEF RefuseRequest, Serving
  <2>2. /\ lock \in {Nobody, t} /\ lock' \in {Nobody, t}
        /\ pc'[t] \in Busy => lock' = t
        /\ lock' = t => pc'[t] \in Busy \cup {"drain", "cleanup"}
    BY <1>5, <1>a, <2>1, SessionAssumption DEF RefuseRequest, queueVars, Busy, Threads
  <2>3. /\ own' = own /\ NoRequest \in Requests \cup {NoRequest}
        /\ hand' = [hand EXCEPT ![t] = NoRequest]
        /\ \A u \in Threads \ {t} : victim'[u] = victim[u]
        /\ victim'[t] # Nobody => pc'[t] = "looked"
        /\ NoRequest # NoRequest <=> pc'[t] \in Busy
    BY <1>5, <1>a, <2>1, SessionAssumption DEF Types, RefuseRequest, localVars, Busy
  <2>4. /\ \A i, j \in DOMAIN list' : list'[i] = list'[j] => i = j
        /\ \A q \in Requests : /\ Listed(q)' => current' # q /\ NoRequest # q
                               /\ Listed(q)' <=> Listed(q)
    BY <1>5, <1>a, SessionAssumption DEF RefuseRequest, queueVars, sessionVars, Listed
  <2>5. /\ NoRequest # NoRequest => (NoRequest = current' <=> pc'[t] \in {"receiving", "looked"})
        /\ pc'[t] = "received" => current' = NoRequest
    BY <1>5, <1>a, <2>1, <2>2 DEF RefuseRequest, queueVars, Busy
  <2>6. \A q \in Requests :
           /\ rrefs'[q] - rrefs[q]
              = One(Listed(q)') - One(Listed(q)) + One(current' = q) - One(current = q)
                + One(NoRequest = q /\ pc'[t] # "receiving") - One(hand[t] = q /\ pc[t] # "receiving")
           /\ Listed(q)' \/ current' = q \/ (NoRequest = q /\ pc'[t] # "receiving")
              => Listed(q) \/ current = q \/ (hand[t] = q /\ pc[t] # "receiving")
    BY <1>5, <1>a, <2>1, <2>3, <2>4, SessionAssumption
       DEF Types, RefuseRequest, CloseRequest, queueVars, requestVars, One, Busy
  <2>7. NoRequest \in Requests \cup {NoRequest} /\ LockedMove(t, NoRequest)
    BY <2>1, <2>2, <2>3, <2>4, <2>5, <2>6 DEF LockedMove
  <2> QED
    BY <2>7, LockedQueue
<1>6. ASSUME SendReply(t), current # NoRequest PROVE QueueInv'
  <2>1. /\ Steps(t) /\ pc[t] = "reply" /\ pc'[t] = "replying"
        /\ t \in Clients => pc[t] \notin {"send", "waiting", "return"}
                            /\ pc'[t] \notin {"send", "waiting", "return"}
    BY <1>6, KernelSteps, Sides DEF SendReply, Serving
  <2>2. /\ lock \in {Nobody, t} /\ lock' \in {Nobody, t}
        /\ pc'[t] \in Busy => lock' = t
        /\ lock' = t => pc'[t] \in Busy \cup {"drain", "cleanup"}
    BY <1>6, <1>a, <2>1, SessionAssumption DEF SendReply, queueVars, Busy, Threads
  <2>3. /\ own' = own /\ current \in Requests \cup {NoRequest}
        /\ hand' = [hand EXCEPT ![t] = current]
        /\ \A u \in Threads \ {t} : victim'[u] = victim[u]
        /\ victim'[t] # Nobody => pc'[t] = "looked"
        /\ current # NoRequest <=> pc'[t] \in Busy
    BY <1>6, <1>a, <2>1, SessionAssumption DEF Types, SendReply, localVars, Busy
  <2>4. /\ \A i, j \in DOMAIN list' : list'[i] = list'[j] => i = j
        /\ \A q \in Requests : /\ Listed(q)' => current' # q /\ current # q
                               /\ Listed(q)' <=> Listed(q)
    BY <1>6, <1>a, SessionAssumption DEF SendReply, queueVars, sessionVars, Listed
  <2>5. /\ current # NoRequest => (current = current' <=> pc'[t] \in {"receiving", "looked"})
        /\ pc'[t] = "received" => current' = NoRequest
    BY <1>6, <1>a, <2>1, <2>2 DEF SendReply, queueVars, Busy
  <2>6. \A q \in Requests :
           /\ rrefs'[q] - rrefs[q]
              = One(Listed(q)') - One(Listed(q)) + One(current' = q) - One(current = q)
                + One(current = q /\ pc'[t] # "receiving") - One(hand[t] = q /\ pc[t] # "receiving")
           /\ Listed(q)' \/ current' = q \/ (current = q /\ pc'[t] # "receiving")
              => Listed(q) \/ current = q \/ (hand[t] = q /\ pc[t] # "receiving")
    BY <1>6, <1>a, <2>1, <2>3, <2>4, SessionAssumption
       DEF Types, SendReply, queueVars, requestVars, One, Busy
  <2>7. current \in Requests \cup {NoRequest} /\ LockedMove(t, current)
    BY <2>1, <2>2, <2>3, <2>4, <2>5, <2>6 DEF LockedMove
  <2> QED
    BY <2>7, LockedQueue
<1>7. ASSUME ReplyToClient(t) PROVE QueueInv'
  <2>1. /\ Steps(t) /\ pc[t] = "replying" /\ pc'[t] = "leave"
        /\ t \in Clients => pc[t] \notin {"send", "waiting", "return"}
                            /\ pc'[t] \notin {"send", "waiting", "return"}
    BY <1>7, KernelSteps, Sides DEF ReplyToClient, Serving
  <2>2. /\ lock \in {Nobody, t} /\ lock' \in {Nobody, t}
        /\ pc'[t] \in Busy => lock' = t
        /\ lock' = t => pc'[t] \in Busy \cup {"drain", "cleanup"}
    BY <1>7, <1>a, <2>1, SessionAssumption DEF ReplyToClient, queueVars, Busy, Threads
  <2>3. /\ own' = own /\ NoRequest \in Requests \cup {NoRequest}
        /\ hand' = [hand EXCEPT ![t] = NoRequest]
        /\ \A u \in Threads \ {t} : victim'[u] = victim[u]
        /\ victim'[t] # Nobody => pc'[t] = "looked"
        /\ NoRequest # NoRequest <=> pc'[t] \in Busy
    BY <1>7, <1>a, <2>1, SessionAssumption DEF Types, ReplyToClient, localVars, Busy
  <2>4. /\ \A i, j \in DOMAIN list' : list'[i] = list'[j] => i = j
        /\ \A q \in Requests : /\ Listed(q)' => current' # q /\ NoRequest # q
                               /\ Listed(q)' <=> Listed(q)
    BY <1>7, <1>a, SessionAssumption DEF ReplyToClient, queueVars, sessionVars, Listed
  <2>5. /\ NoRequest # NoRequest => (NoRequest = current' <=> pc'[t] \in {"receiving", "looked"})
        /\ pc'[t] = "received" => current' = NoRequest
    BY <1>7, <1>a, <2>1, <2>2 DEF ReplyToClient, queueVars, Busy
  <2>6. \A q \in Requests :
           /\ rrefs'[q] - rrefs[q]
              = One(Listed(q)') - One(Listed(q)) + One(current' = q) - One(current = q)
                + One(NoRequest = q /\ pc'[t] # "receiving") - One(hand[t] = q /\ pc[t] # "receiving")
           /\ Listed(q)' \/ current' = q \/ (NoRequest = q /\ pc'[t] # "receiving")
              => Listed(q) \/ current = q \/ (hand[t] = q /\ pc[t] # "receiving")
    BY <1>7, <1>a, <2>1, <2>3, <2>4, SessionAssumption
       DEF Types, ReplyToClient, CloseRequest, queueVars, requestVars, One, Busy
  <2>7. NoRequest \in Requests \cup {NoRequest} /\ LockedMove(t, NoRequest)
    BY <2>1, <2>2, <2>3, <2>4, <2>5, <2>6 DEF LockedMove
  <2> QED
    BY <2>7, LockedQueue
<1>8. ASSUME DrainCurrent(t) PROVE QueueInv'
  <2>1. /\ Steps(t) /\ pc[t] = "drain" /\ pc'[t] = "looked"
        /\ t \in Clients => pc[t] \notin {"send", "waiting", "return"}
                            /\ pc'[t] \notin {"send", "waiting", "return"}
    BY <1>8, KernelSteps, Sides DEF DrainCurrent, Serving
  <2>2. /\ lock \in {Nobody, t} /\ lock' \in {Nobody, t}
        /\ pc'[t] \in Busy => lock' = t
        /\ lock' = t => pc'[t] \in Busy \cup {"drain", "cleanup"}
    BY <1>8, <1>a, <2>1, SessionAssumption DEF DrainCurrent, queueVars, Busy, Threads
  <2>3. /\ own' = own /\ current \in Requests \cup {NoRequest}
        /\ hand' = [hand EXCEPT ![t] = current]
        /\ \A u \in Threads \ {t} : victim'[u] = victim[u]
        /\ victim'[t] # Nobody => pc'[t] = "looked"
        /\ current # NoRequest <=> pc'[t] \in Busy
    BY <1>8, <1>a, <2>1, SessionAssumption DEF Types, DrainCurrent, Takeable, localVars, Busy
  <2>4. /\ \A i, j \in DOMAIN list' : list'[i] = list'[j] => i = j
        /\ \A q \in Requests : /\ Listed(q)' => current' # q /\ current # q
                               /\ Listed(q)' <=> Listed(q)
    BY <1>8, <1>a, SessionAssumption DEF DrainCurrent, queueVars, sessionVars, Listed
  <2>5. /\ current # NoRequest => (current = current' <=> pc'[t] \in {"receiving", "looked"})
        /\ pc'[t] = "received" => current' = NoRequest
    BY <1>8, <1>a, <2>1, <2>2 DEF DrainCurrent, queueVars, Busy
  <2>6. \A q \in Requests :
           /\ rrefs'[q] - rrefs[q]
              = One(Listed(q)') - One(Listed(q)) + One(current' = q) - One(current = q)
                + One(current = q /\ pc'[t] # "receiving") - One(hand[t] = q /\ pc[t] # "receiving")
           /\ Listed(q)' \/ current' = q \/ (current = q /\ pc'[t] # "receiving")
              => Listed(q) \/ current = q \/ (hand[t] = q /\ pc[t] # "receiving")
    BY <1>8, <1>a, <2>1, <2>3, <2>4, SessionAssumption
       DEF Types, DrainCurrent, Takeable, queueVars, requestVars, One, Busy
  <2>7. current \in Requests \cup {NoRequest} /\ LockedMove(t, current)
    BY <2>1, <2>2, <2>3, <2>4, <2>5, <2>6 DEF LockedMove
  <2> QED
    BY <2>7, LockedQueue
<1>9. ASSUME DrainPending(t) PROVE QueueInv'
  <2>1. /\ Steps(t) /\ pc[t] = "drain" /\ pc'[t] = "popped"
        /\ t \in Clients => pc[t] \notin {"send", "waiting", "return"}
                            /\ pc'[t] \notin {"send", "waiting", "return"}
    BY <1>9, KernelSteps, Sides DEF DrainPending, Serving
  <2>2. /\ lock \in {Nobody, t} /\ lock' \in {Nobody, t}
        /\ pc'[t] \in Busy => lock' = t
        /\ lock' = t => pc'[t] \in Busy \cup {"drain", "cleanup"}
    BY <1>9, <1>a, <2>1, SessionAssumption DEF DrainPending, queueVars, Busy, Threads
  <2>3. /\ own' = own /\ Head(list) \in Requests \cup {NoRequest}
        /\ hand' = [hand EXCEPT ![t] = Head(list)]
        /\ \A u \in Threads \ {t} : victim'[u] = victim[u]
        /\ victim'[t] # Nobody => pc'[t] = "looked"
        /\ Head(list) # NoRequest <=> pc'[t] \in Busy
    BY <1>9, <1>a, <2>1, ListTake, SessionAssumption DEF Types, DrainPending, localVars, Busy
  <2>4. /\ \A i, j \in DOMAIN list' : list'[i] = list'[j] => i = j
        /\ \A q \in Requests : /\ Listed(q)' => current' # q /\ Head(list) # q
                               /\ Listed(q) <=> Listed(q)' \/ q = Head(list)
                               /\ q = Head(list) => ~Listed(q)' /\ current # q
    BY <1>9, <1>a, ListTake, SessionAssumption DEF DrainPending, queueVars, sessionVars
  <2>5. /\ Head(list) # NoRequest => (Head(list) = current' <=> pc'[t] \in {"receiving", "looked"})
        /\ pc'[t] = "received" => current' = NoRequest
    BY <1>9, <1>a, <2>1, <2>2, ListTake DEF DrainPending, queueVars, Busy
  <2>6. \A q \in Requests :
           /\ rrefs'[q] - rrefs[q]
              = One(Listed(q)') - One(Listed(q)) + One(current' = q) - One(current = q)
                + One(Head(list) = q /\ pc'[t] # "receiving") - One(hand[t] = q /\ pc[t] # "receiving")
           /\ Listed(q)' \/ current' = q \/ (Head(list) = q /\ pc'[t] # "receiving")
              => Listed(q) \/ current = q \/ (hand[t] = q /\ pc[t] # "receiving")
    BY <1>9, <1>a, <2>1, <2>3, <2>4, SessionAssumption
       DEF Types, DrainPending, queueVars, requestVars, One, Busy
  <2>7. Head(list) \in Requests \cup {NoRequest} /\ LockedMove(t, Head(list))
    BY <2>1, <2>2, <2>3, <2>4, <2>5, <2>6 DEF LockedMove
  <2> QED
    BY <2>7, LockedQueue
<1>10. ASSUME DrainEnd(t) PROVE QueueInv'
  <2>1. /\ Steps(t) /\ pc[t] = "drain" /\ pc'[t] = "closed"
        /\ t \in Clients => pc[t] \notin {"send", "waiting", "return"}
                            /\ pc'[t] \notin {"send", "waiting", "return"}
    BY <1>10, KernelSteps, Sides DEF DrainEnd, Serving
  <2>2. /\ lock \in {Nobody, t} /\ lock' \in {Nobody, t}
        /\ pc'[t] \in Busy => lock' = t
        /\ lock' = t => pc'[t] \in Busy \cup {"drain", "cleanup"}
    BY <1>10, <1>a, <2>1, SessionAssumption DEF DrainEnd, queueVars, Busy, Threads
  <2>3. /\ own' = own /\ NoRequest \in Requests \cup {NoRequest}
        /\ hand' = [hand EXCEPT ![t] = NoRequest]
        /\ \A u \in Threads \ {t} : victim'[u] = victim[u]
        /\ victim'[t] # Nobody => pc'[t] = "looked"
        /\ NoRequest # NoRequest <=> pc'[t] \in Busy
    BY <1>10, <1>a, <2>1, SessionAssumption DEF Types, DrainEnd, localVars, Busy
  <2>4. /\ \A i, j \in DOMAIN list' : list'[i] = list'[j] => i = j
        /\ \A q \in Requests : /\ Listed(q)' => current' # q /\ NoRequest # q
                               /\ Listed(q)' <=> Listed(q)
    BY <1>10, <1>a, SessionAssumption DEF DrainEnd, queueVars, sessionVars, Listed
  <2>5. /\ NoRequest # NoRequest => (NoRequest = current' <=> pc'[t] \in {"receiving", "looked"})
        /\ pc'[t] = "received" => current' = NoRequest
    BY <1>10, <1>a, <2>1, <2>2 DEF DrainEnd, queueVars, Busy
  <2>6. \A q \in Requests :
           /\ rrefs'[q] - rrefs[q]
              = One(Listed(q)') - One(Listed(q)) + One(current' = q) - One(current = q)
                + One(NoRequest = q /\ pc'[t] # "receiving") - One(hand[t] = q /\ pc[t] # "receiving")
           /\ Listed(q)' \/ current' = q \/ (NoRequest = q /\ pc'[t] # "receiving")
              => Listed(q) \/ current = q \/ (hand[t] = q /\ pc[t] # "receiving")
    BY <1>10, <1>a, <2>1, <2>3, <2>4, SessionAssumption
       DEF Types, DrainEnd, queueVars, requestVars, One, Busy
  <2>7. NoRequest \in Requests \cup {NoRequest} /\ LockedMove(t, NoRequest)
    BY <2>1, <2>2, <2>3, <2>4, <2>5, <2>6 DEF LockedMove
  <2> QED
    BY <2>7, LockedQueue
<1>11. ASSUME LeaveCurrent(t) PROVE QueueInv'
  <2>1. /\ Steps(t) /\ pc[t] = "looked" /\ pc'[t] = "drain"
        /\ t \in Clients => pc[t] \notin {"send", "waiting", "return"}
                            /\ pc'[t] \notin {"send", "waiting", "return"}
    BY <1>11, KernelSteps, Sides DEF LeaveCurrent, Serving
  <2>2. /\ lock \in {Nobody, t} /\ lock' \in {Nobody, t}
        /\ pc'[t] \in Busy => lock' = t
        /\ lock' = t => pc'[t] \in Busy \cup {"drain", "cleanup"}
    BY <1>11, <1>a, <2>1, SessionAssumption DEF LeaveCurrent, queueVars, Busy, Threads
  <2>3. /\ own' = own /\ NoRequest \in Requests \cup {NoRequest}
        /\ hand' = [hand EXCEPT ![t] = NoRequest]
        /\ \A u \in Threads \ {t} : victim'[u] = victim[u]
        /\ victim'[t] # Nobody => pc'[t] = "looked"
        /\ NoRequest # NoRequest <=> pc'[t] \in Busy
    BY <1>11, <1>a, <2>1, SessionAssumption DEF Types, LeaveCurrent, localVars, Busy
  <2>4. /\ \A i, j \in DOMAIN list' : list'[i] = list'[j] => i = j
        /\ \A q \in Requests : /\ Listed(q)' => current' # q /\ NoRequest # q
                               /\ Listed(q)' <=> Listed(q)
    BY <1>11, <1>a, SessionAssumption DEF LeaveCurrent, queueVars, sessionVars, Listed
  <2>5. /\ NoRequest # NoRequest => (NoRequest = current' <=> pc'[t] \in {"receiving", "looked"})
        /\ pc'[t] = "received" => current' = NoRequest
    BY <1>11, <1>a, <2>1, <2>2 DEF LeaveCurrent, queueVars, Busy
  <2>6. \A q \in Requests :
           /\ rrefs'[q] - rrefs[q]
              = One(Listed(q)') - One(Listed(q)) + One(current' = q) - One(current = q)
                + One(NoRequest = q /\ pc'[t] # "receiving") - One(hand[t] = q /\ pc[t] # "receiving")
           /\ Listed(q)' \/ current' = q \/ (NoRequest = q /\ pc'[t] # "receiving")
              => Listed(q) \/ current = q \/ (hand[t] = q /\ pc[t] # "receiving")
    BY <1>11, <1>a, <2>1, <2>3, <2>4, SessionAssumption
       DEF Types, LeaveCurrent, CloseRequest, queueVars, requestVars, One, Busy
  <2>7. NoRequest \in Requests \cup {NoRequest} /\ LockedMove(t, NoRequest)
    BY <2>1, <2>2, <2>3, <2>4, <2>5, <2>6 DEF LockedMove
  <2> QED
    BY <2>7, LockedQueue
<1>12. ASSUME CancelPending(t) PROVE QueueInv'
  <2>1. /\ Steps(t) /\ pc[t] = "popped" /\ pc'[t] = "drain"
        /\ t \in Clients => pc[t] \notin {"send", "waiting", "return"}
                            /\ pc'[t] \notin {"send", "waiting", "return"}
    BY <1>12, KernelSteps, Sides DEF CancelPending, Serving
  <2>2. /\ lock \in {Nobody, t} /\ lock' \in {Nobody, t}
        /\ pc'[t] \in Busy => lock' = t
        /\ lock' = t => pc'[t] \in Busy \cup {"drain", "cleanup"}
    BY <1>12, <1>a, <2>1, SessionAssumption DEF CancelPending, queueVars, Busy, Threads
  <2>3. /\ own' = own /\ NoRequest \in Requests \cup {NoRequest}
        /\ hand' = [hand EXCEPT ![t] = NoRequest]
        /\ \A u \in Threads \ {t} : victim'[u] = victim[u]
        /\ victim'[t] # Nobody => pc'[t] = "looked"
        /\ NoRequest # NoRequest <=> pc'[t] \in Busy
    BY <1>12, <1>a, <2>1, SessionAssumption DEF Types, CancelPending, localVars, Busy
  <2>4. /\ \A i, j \in DOMAIN list' : list'[i] = list'[j] => i = j
        /\ \A q \in Requests : /\ Listed(q)' => current' # q /\ NoRequest # q
                               /\ Listed(q)' <=> Listed(q)
    BY <1>12, <1>a, SessionAssumption DEF CancelPending, queueVars, sessionVars, Listed
  <2>5. /\ NoRequest # NoRequest => (NoRequest = current' <=> pc'[t] \in {"receiving", "looked"})
        /\ pc'[t] = "received" => current' = NoRequest
    BY <1>12, <1>a, <2>1, <2>2 DEF CancelPending, queueVars, Busy
  <2>6. \A q \in Requests :
           /\ rrefs'[q] - rrefs[q]
              = One(Listed(q)') - One(Listed(q)) + One(current' = q) - One(current = q)
                + One(NoRequest = q /\ pc'[t] # "receiving") - One(hand[t] = q /\ pc[t] # "receiving")
           /\ Listed(q)' \/ current' = q \/ (NoRequest = q /\ pc'[t] # "receiving")
              => Listed(q) \/ current = q \/ (hand[t] = q /\ pc[t] # "receiving")
    BY <1>12, <1>a, <2>1, <2>3, <2>4, SessionAssumption
       DEF Types, CancelPending, CloseRequest, queueVars, requestVars, One, Busy
  <2>7. NoRequest \in Requests \cup {NoRequest} /\ LockedMove(t, NoRequest)
    BY <2>1, <2>2, <2>3, <2>4, <2>5, <2>6 DEF LockedMove
  <2> QED
    BY <2>7, LockedQueue
<1>13. ASSUME CleanupTake(t), current # NoRequest PROVE QueueInv'
  <2>1. /\ Steps(t) /\ pc[t] = "cleanup" /\ pc'[t] = "cleaning"
        /\ t \in Clients => pc[t] \notin {"send", "waiting", "return"}
                            /\ pc'[t] \notin {"send", "waiting", "return"}
    BY <1>13, KernelSteps, Sides DEF CleanupTake, Serving
  <2>2. /\ lock \in {Nobody, t} /\ lock' \in {Nobody, t}
        /\ pc'[t] \in Busy => lock' = t
        /\ lock' = t => pc'[t] \in Busy \cup {"drain", "cleanup"}
    BY <1>13, <1>a, <2>1, SessionAssumption DEF CleanupTake, queueVars, Busy, Threads
  <2>3. /\ own' = own /\ current \in Requests \cup {NoRequest}
        /\ hand' = [hand EXCEPT ![t] = current]
        /\ \A u \in Threads \ {t} : victim'[u] = victim[u]
        /\ victim'[t] # Nobody => pc'[t] = "looked"
        /\ current # NoRequest <=> pc'[t] \in Busy
    BY <1>13, <1>a, <2>1, SessionAssumption DEF Types, CleanupTake, localVars, Busy
  <2>4. /\ \A i, j \in DOMAIN list' : list'[i] = list'[j] => i = j
        /\ \A q \in Requests : /\ Listed(q)' => current' # q /\ current # q
                               /\ Listed(q)' <=> Listed(q)
    BY <1>13, <1>a, SessionAssumption DEF CleanupTake, queueVars, sessionVars, Listed
  <2>5. /\ current # NoRequest => (current = current' <=> pc'[t] \in {"receiving", "looked"})
        /\ pc'[t] = "received" => current' = NoRequest
    BY <1>13, <1>a, <2>1, <2>2 DEF CleanupTake, queueVars, Busy
  <2>6. \A q \in Requests :
           /\ rrefs'[q] - rrefs[q]
              = One(Listed(q)') - One(Listed(q)) + One(current' = q) - One(current = q)
                + One(current = q /\ pc'[t] # "receiving") - One(hand[t] = q /\ pc[t] # "receiving")
           /\ Listed(q)' \/ current' = q \/ (current = q /\ pc'[t] # "receiving")
              => Listed(q) \/ current = q \/ (hand[t] = q /\ pc[t] # "receiving")
    BY <1>13, <1>a, <2>1, <2>3, <2>4, SessionAssumption
       DEF Types, CleanupTake, queueVars, requestVars, One, Busy
  <2>7. current \in Requests \cup {NoRequest} /\ LockedMove(t, current)
    BY <2>1, <2>2, <2>3, <2>4, <2>5, <2>6 DEF LockedMove
  <2> QED
    BY <2>7, LockedQueue
<1>14. ASSUME CleanupTake(t), current = NoRequest /\ list # <<>> PROVE QueueInv'
  <2>1. /\ Steps(t) /\ pc[t] = "cleanup" /\ pc'[t] = "cleaning"
        /\ t \in Clients => pc[t] \notin {"send", "waiting", "return"}
                            /\ pc'[t] \notin {"send", "waiting", "return"}
    BY <1>14, KernelSteps, Sides DEF CleanupTake, Serving
  <2>2. /\ lock \in {Nobody, t} /\ lock' \in {Nobody, t}
        /\ pc'[t] \in Busy => lock' = t
        /\ lock' = t => pc'[t] \in Busy \cup {"drain", "cleanup"}
    BY <1>14, <1>a, <2>1, SessionAssumption DEF CleanupTake, queueVars, Busy, Threads
  <2>3. /\ own' = own /\ Head(list) \in Requests \cup {NoRequest}
        /\ hand' = [hand EXCEPT ![t] = Head(list)]
        /\ \A u \in Threads \ {t} : victim'[u] = victim[u]
        /\ victim'[t] # Nobody => pc'[t] = "looked"
        /\ Head(list) # NoRequest <=> pc'[t] \in Busy
    BY <1>14, <1>a, <2>1, ListTake, SessionAssumption DEF Types, CleanupTake, localVars, Busy
  <2>4. /\ \A i, j \in DOMAIN list' : list'[i] = list'[j] => i = j
        /\ \A q \in Requests : /\ Listed(q)' => current' # q /\ Head(list) # q
                               /\ Listed(q) <=> Listed(q)' \/ q = Head(list)
                               /\ q = Head(list) => ~Listed(q)' /\ current # q
    BY <1>14, <1>a, ListTake, SessionAssumption DEF CleanupTake, queueVars, sessionVars
  <2>5. /\ Head(list) # NoRequest => (Head(list) = current' <=> pc'[t] \in {"receiving", "looked"})
        /\ pc'[t] = "received" => current' = NoRequest
    BY <1>14, <1>a, <2>1, <2>2, ListTake DEF CleanupTake, queueVars, Busy
  <2>6. \A q \in Requests :
           /\ rrefs'[q] - rrefs[q]
              = One(Listed(q)') - One(Listed(q)) + One(current' = q) - One(current = q)
                + One(Head(list) = q /\ pc'[t] # "receiving") - One(hand[t] = q /\ pc[t] # "receiving")
           /\ Listed(q)' \/ current' = q \/ (Head(list) = q /\ pc'[t] # "receiving")
              => Listed(q) \/ current = q \/ (hand[t] = q /\ pc[t] # "receiving")
    BY <1>14, <1>a, <2>1, <2>3, <2>4, SessionAssumption
       DEF Types, CleanupTake, queueVars, requestVars, One, Busy
  <2>7. Head(list) \in Requests \cup {NoRequest} /\ LockedMove(t, Head(list))
    BY <2>1, <2>2, <2>3, <2>4, <2>5, <2>6 DEF LockedMove
  <2> QED
    BY <2>7, LockedQueue
<1>15. ASSUME CleanupTake(t), current = NoRequest /\ list = <<>> PROVE QueueInv'
  <2>1. /\ Steps(t) /\ pc[t] = "cleanup" /\ pc'[t] = "closed"
        /\ t \in Clients => pc[t] \notin {"send", "waiting", "return"}
                            /\ pc'[t] \notin {"send", "waiting", "return"}
    BY <1>15, KernelSteps, Sides DEF CleanupTake, Serving
  <2>2. /\ lock \in {Nobody, t} /\ lock' \in {Nobody, t}
        /\ pc'[t] \in Busy => lock' = t
        /\ lock' = t => pc'[t] \in Busy \cup {"drain", "cleanup"}
    BY <1>15, <1>a, <2>1, SessionAssumption DEF CleanupTake, queueVars, Busy, Threads
  <2>3. /\ own' = own /\ NoRequest \in Requests \cup {NoRequest}
        /\ hand' = [hand EXCEPT ![t] = NoRequest]
        /\ \A u \in Threads \ {t} : victim'[u] = victim[u]
        /\ victim'[t] # Nobody => pc'[t] = "looked"
        /\ NoRequest # NoRequest <=> pc'[t] \in Busy
    BY <1>15, <1>a, <2>1, SessionAssumption DEF Types, CleanupTake, localVars, Busy
  <2>4. /\ \A i, j \in DOMAIN list' : list'[i] = list'[j] => i = j
        /\ \A q \in Requests : /\ Listed(q)' => current' # q /\ NoRequest # q
                               /\ Listed(q)' <=> Listed(q)
    BY <1>15, <1>a, SessionAssumption DEF CleanupTake, queueVars, sessionVars, Listed
  <2>5. /\ NoRequest # NoRequest => (NoRequest = current' <=> pc'[t] \in {"receiving", "looked"})
        /\ pc'[t] = "received" => current' = NoRequest
    BY <1>15, <1>a, <2>1, <2>2 DEF CleanupTake, queueVars, Busy
  <2>6. \A q \in Requests :
           /\ rrefs'[q] - rrefs[q]
              = One(Listed(q)') - One(Listed(q)) + One(current' = q) - One(current = q)
                + One(NoRequest = q /\ pc'[t] # "receiving") - One(hand[t] = q /\ pc[t] # "receiving")
           /\ Listed(q)' \/ current' = q \/ (NoRequest = q /\ pc'[t] # "receiving")
              => Listed(q) \/ current = q \/ (hand[t] = q /\ pc[t] # "receiving")
    BY <1>15, <1>a, <2>1, <2>3, <2>4, SessionAssumption
       DEF Types, CleanupTake, queueVars, requestVars, One, Busy
  <2>7. NoRequest \in Requests \cup {NoRequest} /\ LockedMove(t, NoRequest)
    BY <2>1, <2>2, <2>3, <2>4, <2>5, <2>6 DEF LockedMove
  <2> QED
    BY <2>7, LockedQueue
<1>16. ASSUME CleanupAnswer(t) PROVE QueueInv'
  <2>1. /\ Steps(t) /\ pc[t] = "cleaning" /\ pc'[t] = "cleanup"
        /\ t \in Clients => pc[t] \notin {"send", "waiting", "return"}
                            /\ pc'[t] \notin {"send", "waiting", "return"}
    BY <1>16, KernelSteps, Sides DEF CleanupAnswer, Serving
  <2>2. /\ lock \in {Nobody, t} /\ lock' \in {Nobody, t}
        /\ pc'[t] \in Busy => lock' = t
        /\ lock' = t => pc'[t] \in Busy \cup {"drain", "cleanup"}
    BY <1>16, <1>a, <2>1, SessionAssumption DEF CleanupAnswer, queueVars, Busy, Threads
  <2>3. /\ own' = own /\ NoRequest \in Requests \cup {NoRequest}
        /\ hand' = [hand EXCEPT ![t] = NoRequest]
        /\ \A u \in Threads \ {t} : victim'[u] = victim[u]
        /\ victim'[t] # Nobody => pc'[t] = "looked"
        /\ NoRequest # NoRequest <=> pc'[t] \in Busy
    BY <1>16, <1>a, <2>1, SessionAssumption DEF Types, CleanupAnswer, localVars, Busy
  <2>4. /\ \A i, j \in DOMAIN list' : list'[i] = list'[j] => i = j
        /\ \A q \in Requests : /\ Listed(q)' => current' # q /\ NoRequest # q
                               /\ Listed(q)' <=> Listed(q)
    BY <1>16, <1>a, SessionAssumption DEF CleanupAnswer, queueVars, sessionVars, Listed
  <2>5. /\ NoRequest # NoRequest => (NoRequest = current' <=> pc'[t] \in {"receiving", "looked"})
        /\ pc'[t] = "received" => current' = NoRequest
    BY <1>16, <1>a, <2>1, <2>2 DEF CleanupAnswer, queueVars, Busy
  <2>6. \A q \in Requests :
           /\ rrefs'[q] - rrefs[q]
              = One(Listed(q)') - One(Listed(q)) + One(current' = q) - One(current = q)
                + One(NoRequest = q /\ pc'[t] # "receiving") - One(hand[t] = q /\ pc[t] # "receiving")
           /\ Listed(q)' \/ current' = q \/ (NoRequest = q /\ pc'[t] # "receiving")
              => Listed(q) \/ current = q \/ (hand[t] = q /\ pc[t] # "receiving")
    BY <1>16, <1>a, <2>1, <2>3, <2>4, SessionAssumption
       DEF Types, CleanupAnswer, CloseRequest, queueVars, requestVars, One, Busy
  <2>7. NoRequest \in Requests \cup {NoRequest} /\ LockedMove(t, NoRequest)
    BY <2>1, <2>2, <2>3, <2>4, <2>5, <2>6 DEF LockedMove
  <2> QED
    BY <2>7, LockedQueue
<1> QED
  BY <1>1, <1>2, <1>3, <1>4, <1>5, <1>6, <1>7, <1>8, <1>9, <1>10, <1>11, <1>12, <1>13, <1>14, <1>15, <1>16 DEF CleanupTake

\* A new request.
LEMMA SendQueue ==
    ASSUME Types, Types', QueueInv, NEW t \in Clients, NEW async \in BOOLEAN,
           SendRequest(t, async)
    PROVE  QueueInv'
<1> USE DEF QueueInv
<1>1. PICK r \in Requests : /\ rrefs[r] = 0
                            /\ rrefs' = [rrefs EXCEPT ![r] = 1]
                            /\ own' = [own EXCEPT ![t] = r]
  BY DEF SendRequest
<1>2. /\ t \in Threads /\ pc[t] = "idle" /\ pc'[t] = "send" /\ Steps(t)
      /\ UNCHANGED <<list, current, lock, hand, victim>>
  BY GuestSteps DEF SendRequest, At, queueVars, Threads
<1>3. /\ HandsLocked'
      /\ \A u \in Threads : /\ hand[u] # NoRequest => pc'[u] = pc[u]
                            /\ pc'[u] \in Busy => pc'[u] = pc[u]
      /\ \A q \in Requests : Held(q)' <=> Held(q)
  BY <1>2, HandsKept DEF Busy
<1>4. ~Owned(r) /\ ~InLine(r)
  BY <1>1 DEF PlacesCounted, One, InLine
<1>5. /\ own'[t] = r /\ \A u \in Clients \ {t} : own'[u] = own[u] /\ own[u] # r
      /\ own[t] = NoRequest
  BY <1>1, <1>2, <1>4 DEF Types, CallsOwn, Owned
<1>6. \A u \in Clients \ {t} : /\ pc'[u] \in {"send", "waiting", "return"}
                                  <=> pc[u] \in {"send", "waiting", "return"}
                               /\ pc'[u] = "send" => pc[u] = "send"
  BY <1>2, Bystanders DEF Threads
<1>7. CallsOwn'
  BY <1>2, <1>5, <1>6, SessionAssumption DEF CallsOwn
<1>8. \A q : Listed(q)' <=> Listed(q)
  BY <1>2 DEF Listed
<1>9. PlacesDistinct'
  <2>1. \A u \in Threads :
           /\ hand[u] # NoRequest => (hand[u] = current <=> pc'[u] \in {"receiving", "looked"})
           /\ pc'[u] = "received" => current = NoRequest
    BY <1>3 DEF PlacesDistinct, Busy
  <2> QED
    BY <1>2, <1>8, <2>1 DEF PlacesDistinct
<1>10. PlacesCounted'
  <2> SUFFICES ASSUME NEW q \in Requests
               PROVE  rrefs'[q] = One(Owned(q)') + One(Listed(q)') + One(current' = q)
                                  + One(Held(q)')
    BY DEF PlacesCounted
  <2>1. Owned(q)' <=> Owned(q) \/ q = r
    BY <1>5, SessionAssumption DEF Owned
  <2>2. rrefs'[q] = IF q = r THEN 1 ELSE rrefs[q]
    BY <1>1 DEF Types
  <2>3. rrefs[q] = One(Owned(q)) + One(Listed(q)) + One(current = q) + One(Held(q))
    BY DEF PlacesCounted
  <2> QED
    BY <1>2, <1>3, <1>4, <1>8, <2>1, <2>2, <2>3 DEF One, InLine
<1>11. SendsNew'
  <2> SUFFICES ASSUME NEW u \in Clients, pc'[u] = "send" PROVE ~InLine(own[u])'
    BY DEF SendsNew
  <2>1. CASE u = t
    BY <1>2, <1>3, <1>4, <1>5, <1>8, <2>1 DEF InLine
  <2>2. CASE u # t
    <3>1. pc[u] = "send" /\ own[u] \in Requests /\ own'[u] = own[u]
      BY <1>5, <1>6, <2>2 DEF CallsOwn, Types
    <3> QED
      BY <1>2, <1>3, <1>8, <3>1 DEF SendsNew, InLine
  <2> QED
    BY <2>1, <2>2
<1> QED
  BY <1>3, <1>7, <1>9, <1>10, <1>11

\* A request that is sent.
LEMMA AppendQueue ==
    ASSUME Types, Types', QueueInv, NEW t \in Threads, OnRequest(t),
           state = "Normal" /\ t \notin terminating
    PROVE  QueueInv'
<1> USE DEF QueueInv
<1> DEFINE r == own[t]
<1>1. /\ t \in Clients /\ r \in Requests /\ pc[t] = "send" /\ pc'[t] \in {"return", "waiting"}
      /\ Steps(t)
  BY KernelSteps, Requested DEF OnRequest, At
<1>2. /\ list' = Append(list, r) /\ rrefs' = [rrefs EXCEPT ![r] = @ + 1]
      /\ UNCHANGED <<current, lock, hand, victim, own>>
  BY DEF OnRequest, localVars
<1>3. ~Listed(r) /\ current # r /\ ~Held(r)
  BY <1>1 DEF SendsNew, InLine
<1>4. /\ HandsLocked'
      /\ \A u \in Threads : /\ hand[u] # NoRequest => pc'[u] = pc[u]
                            /\ pc'[u] \in Busy => pc'[u] = pc[u]
      /\ \A q \in Requests : Held(q)' <=> Held(q)
  BY <1>1, <1>2, HandsKept DEF Busy
<1>5. \A u \in Clients : /\ pc'[u] \in {"send", "waiting", "return"}
                            <=> pc[u] \in {"send", "waiting", "return"}
                         /\ pc'[u] = "send" => pc[u] = "send" /\ u # t
  BY <1>1, Bystanders DEF Threads
<1>6. CallsOwn'
  BY <1>2, <1>5 DEF CallsOwn
<1> HIDE DEF r
<1>7. /\ \A i, j \in DOMAIN list' : list'[i] = list'[j] => i = j
      /\ \A q : Listed(q)' <=> Listed(q) \/ q = r
  BY <1>1, <1>2, <1>3, ListAppend DEF PlacesDistinct
<1>8. PlacesDistinct'
  <2>1. \A u \in Threads :
           /\ hand[u] # NoRequest => (hand[u] = current <=> pc'[u] \in {"receiving", "looked"})
           /\ pc'[u] = "received" => current = NoRequest
    BY <1>4 DEF PlacesDistinct, Busy
  <2>2. \A u \in Threads : hand[u] # r
    <3> SUFFICES ASSUME NEW u \in Threads, hand[u] = r PROVE FALSE
      OBVIOUS
    <3>1. pc[u] = "receiving"
      BY <1>3 DEF Held
    <3> QED
      BY <1>1, <1>3, <3>1, SessionAssumption DEF PlacesDistinct
  <2> QED
    BY <1>2, <1>3, <1>7, <2>1, <2>2 DEF PlacesDistinct
<1>9. PlacesCounted'
  <2> SUFFICES ASSUME NEW q \in Requests
               PROVE  rrefs'[q] = One(Owned(q)') + One(Listed(q)') + One(current' = q)
                                  + One(Held(q)')
    BY DEF PlacesCounted
  <2>1. Owned(q)' <=> Owned(q)
    BY <1>2 DEF Owned
  <2>2. rrefs'[q] = (IF q = r THEN rrefs[q] + 1 ELSE rrefs[q]) /\ rrefs[q] \in Int
    BY <1>1, <1>2 DEF Types
  <2>3. rrefs[q] = One(Owned(q)) + One(Listed(q)) + One(current = q) + One(Held(q))
    BY DEF PlacesCounted
  <2> QED
    BY <1>2, <1>3, <1>4, <1>7, <2>1, <2>2, <2>3 DEF One
<1>10. SendsNew'
  <2> SUFFICES ASSUME NEW u \in Clients, pc'[u] = "send" PROVE ~InLine(own[u])'
    BY DEF SendsNew
  <2>1. pc[u] = "send" /\ own[u] \in Requests /\ own'[u] = own[u] /\ own[u] # r
    BY <1>1, <1>2, <1>5, SessionAssumption DEF CallsOwn, Types, r
  <2> QED
    BY <1>2, <1>4, <1>7, <2>1 DEF SendsNew, InLine
<1> QED
  BY <1>4, <1>6, <1>8, <1>9, <1>10

\* A call that is over gives up its request.
LEMMA ReturnQueue ==
    ASSUME Types, Types', QueueInv, NEW t \in Threads, CallReturn(t)
    PROVE  QueueInv'
<1> USE DEF QueueInv
<1> DEFINE r == own[t]
<1>1. /\ t \in Clients /\ r \in Requests /\ pc[t] = "return" /\ pc'[t] = "leave" /\ Steps(t)
  BY KernelSteps, Requested DEF CallReturn, At
<1>2. /\ own' = [own EXCEPT ![t] = NoRequest] /\ rrefs' = [rrefs EXCEPT ![r] = @ - 1]
      /\ UNCHANGED <<list, current, lock, hand, victim>>
  BY DEF CallReturn, queueVars, CloseRequest
<1>3. /\ HandsLocked'
      /\ \A u \in Threads : /\ hand[u] # NoRequest => pc'[u] = pc[u]
                            /\ pc'[u] \in Busy => pc'[u] = pc[u]
      /\ \A q \in Requests : Held(q)' <=> Held(q)
  BY <1>1, <1>2, HandsKept DEF Busy
<1>4. \A u \in Clients \ {t} : /\ pc'[u] \in {"send", "waiting", "return"}
                                  <=> pc[u] \in {"send", "waiting", "return"}
                               /\ pc'[u] = "send" => pc[u] = "send"
                               /\ own'[u] = own[u] /\ own[u] # r
  <2>1. \A u \in Clients \ {t} : own'[u] = own[u] /\ own[u] # r
    BY <1>1, <1>2, SessionAssumption DEF CallsOwn, Types
  <2> QED
    BY <1>1, <2>1, Bystanders DEF Threads
<1>5. own'[t] = NoRequest
  BY <1>1, <1>2 DEF Types
<1>6. CallsOwn'
  BY <1>1, <1>4, <1>5, SessionAssumption DEF CallsOwn
<1>7. \A q : Listed(q)' <=> Listed(q)
  BY <1>2 DEF Listed
<1>8. PlacesDistinct'
  <2>1. \A u \in Threads :
           /\ hand[u] # NoRequest => (hand[u] = current <=> pc'[u] \in {"receiving", "looked"})
           /\ pc'[u] = "received" => current = NoRequest
    BY <1>3 DEF PlacesDistinct, Busy
  <2> QED
    BY <1>2, <1>7, <2>1 DEF PlacesDistinct
<1>9. PlacesCounted'
  <2> SUFFICES ASSUME NEW q \in Requests
               PROVE  rrefs'[q] = One(Owned(q)') + One(Listed(q)') + One(current' = q)
                                  + One(Held(q)')
    BY DEF PlacesCounted
  <2>1. (Owned(q)' <=> Owned(q) /\ q # r) /\ Owned(r)
    BY <1>1, <1>4, <1>5, SessionAssumption DEF Owned
  <2>2. rrefs'[q] = (IF q = r THEN rrefs[q] - 1 ELSE rrefs[q]) /\ rrefs[q] \in Int
    BY <1>1, <1>2 DEF Types
  <2>3. rrefs[q] = One(Owned(q)) + One(Listed(q)) + One(current = q) + One(Held(q))
    BY DEF PlacesCounted
  <2> QED
    BY <1>2, <1>3, <1>7, <2>1, <2>2, <2>3 DEF One
<1>10. SendsNew'
  <2> SUFFICES ASSUME NEW u \in Clients, pc'[u] = "send" PROVE ~InLine(own[u])'
    BY DEF SendsNew
  <2>1. pc[u] = "send" /\ own[u] \in Requests /\ own'[u] = own[u]
    BY <1>1, <1>4, SessionAssumption DEF CallsOwn, Types
  <2> QED
    BY <1>2, <1>3, <1>7, <2>1 DEF SendsNew, InLine
<1> QED
  BY <1>3, <1>6, <1>8, <1>9, <1>10

\* The steps that move no request.
LEMMA QuietSteps ==
    ASSUME Types, Types', QueueInv, NEW t \in Threads,
           \/ t \in Clients /\ (SendFails(t) \/ RequestTerminate(t))
           \/ \E e \in {"client", "server"} : CloseHandle(t, e)
           \/ t \in Servers /\ \E what \in {"wait", "reply"} : ServerCall(t, what)
           \/ t \in Servers /\ WaitTimeout(t)
           \/ OnRequest(t) /\ (state # "Normal" \/ t \in terminating)
           \/ CallLeave(t) \/ Wait(t)
           \/ ReceiveRequest(t) /\ (state # "Normal" \/ current # NoRequest \/ list = <<>>)
           \/ SendReply(t) /\ current = NoRequest
           \/ ServerLeave(t) \/ Destroy(t) \/ SetState(t) \/ CloseParent(t)
    PROVE  QueueInv'
<1> USE DEF At, sessionVars, queueVars, requestVars, localVars, QueueInv
<1>g. CASE t \in Clients /\ SendFails(t)
  <2>1. /\ UNCHANGED <<list, current, lock, rrefs, own, hand, victim>>
        /\ Steps(t) /\ pc[t] = "idle" /\ pc'[t] = "leave"
    BY <1>g, GuestSteps DEF SendFails
  <2> QED
    BY <2>1, QuietQueue DEF Busy
<1>h. CASE t \in Clients /\ RequestTerminate(t)
  <2>1. /\ UNCHANGED <<list, current, lock, rrefs, own, hand, victim>>
        /\ Steps(t)
        /\ \/ pc'[t] = pc[t]
           \/ pc[t] = "waiting" /\ pc'[t] = "return"
           \/ pc[t] = "idle" /\ pc'[t] = "dead"
    BY <1>h, GuestSteps DEF RequestTerminate
  <2>2. /\ \/ pc'[t] = pc[t]
           \/ pc[t] \notin Busy \cup {"drain", "cleanup"} /\ pc'[t] \notin Busy
        /\ t \in Clients => (pc'[t] \in {"send", "waiting", "return"}
                             <=> pc[t] \in {"send", "waiting", "return"})
        /\ pc'[t] = "send" => pc[t] = "send"
    BY <2>1 DEF Busy
  <2> QED
    BY <2>1, <2>2, QuietQueue
<1>i. ASSUME NEW e \in {"client", "server"}, CloseHandle(t, e) PROVE QueueInv'
  <2>1. /\ UNCHANGED <<list, current, lock, rrefs, own, hand, victim>>
        /\ Steps(t) /\ pc[t] = "idle" /\ pc'[t] \in {"destroy", "idle"}
    BY <1>i, GuestSteps DEF CloseHandle
  <2> QED
    BY <2>1, QuietQueue DEF Busy
<1>j. ASSUME t \in Servers, NEW what \in {"wait", "reply"}, ServerCall(t, what) PROVE QueueInv'
  <2>1. /\ UNCHANGED <<list, current, lock, rrefs, own, hand, victim>>
        /\ Steps(t) /\ pc[t] = "idle" /\ pc'[t] \in {"wait", "reply"} /\ t \notin Clients
    BY <1>j, GuestSteps, Sides DEF ServerCall
  <2> QED
    BY <2>1, QuietQueue DEF Busy
<1>k. CASE t \in Servers /\ WaitTimeout(t)
  <2>1. /\ UNCHANGED <<list, current, lock, rrefs, own, hand, victim>>
        /\ Steps(t) /\ pc[t] = "sleeping" /\ pc'[t] = "leave" /\ t \notin Clients
    BY <1>k, GuestSteps, Sides DEF WaitTimeout
  <2> QED
    BY <2>1, QuietQueue DEF Busy
<1>1. CASE OnRequest(t) /\ (state # "Normal" \/ t \in terminating)
  <2>1. /\ UNCHANGED <<list, current, lock, rrefs, own, hand, victim>>
        /\ Steps(t) /\ pc[t] = "send" /\ pc'[t] \in {"return", "waiting"}
    BY <1>1, KernelSteps DEF OnRequest
  <2> QED
    BY <2>1, QuietQueue DEF Busy
<1>2. CASE CallLeave(t)
  <2>1. /\ UNCHANGED <<list, current, lock, rrefs, own, hand, victim>>
        /\ Steps(t) /\ pc[t] = "leave" /\ pc'[t] \in {"destroy", "idle", "dead"}
    BY <1>2, KernelSteps DEF CallLeave, Home
  <2> QED
    BY <2>1, QuietQueue DEF Busy
<1>3. CASE Wait(t)
  <2>1. /\ UNCHANGED <<list, current, lock, rrefs, own, hand, victim>>
        /\ Steps(t) /\ pc[t] = "wait" /\ pc'[t] \in {"receive", "sleeping"} /\ t \notin Clients
    BY <1>3, KernelSteps, Sides DEF Wait
  <2> QED
    BY <2>1, QuietQueue DEF Busy
<1>4. CASE ReceiveRequest(t) /\ (state # "Normal" \/ current # NoRequest \/ list = <<>>)
  <2>1. /\ UNCHANGED <<list, current, lock, rrefs, own, hand, victim>>
        /\ Steps(t) /\ pc[t] = "receive" /\ pc'[t] \in {"leave", "wait"} /\ t \notin Clients
    BY <1>4, KernelSteps, Sides DEF ReceiveRequest
  <2> QED
    BY <2>1, QuietQueue DEF Busy
<1>5. CASE SendReply(t) /\ current = NoRequest
  <2>1. /\ UNCHANGED <<list, current, lock, rrefs, own, hand, victim>>
        /\ Steps(t) /\ pc[t] = "reply" /\ pc'[t] = "leave" /\ t \notin Clients
    BY <1>5, KernelSteps, Sides DEF SendReply
  <2> QED
    BY <2>1, QuietQueue DEF Busy
<1>6. CASE ServerLeave(t)
  <2>1. /\ UNCHANGED <<list, current, lock, rrefs, own, hand, victim>>
        /\ Steps(t) /\ pc[t] = "leave" /\ pc'[t] \in {"destroy", "idle"} /\ t \notin Clients
    BY <1>6, KernelSteps, Sides DEF ServerLeave
  <2> QED
    BY <2>1, QuietQueue DEF Busy
<1>7. CASE Destroy(t)
  <2>1. /\ UNCHANGED <<list, current, lock, rrefs, own, hand, victim>>
        /\ Steps(t) /\ pc[t] = "destroy" /\ pc'[t] \in {"close", "cleanup", "closed"}
    BY <1>7, KernelSteps DEF Destroy
  <2> QED
    BY <2>1, QuietQueue DEF Busy
<1>8. CASE SetState(t)
  <2>1. /\ UNCHANGED <<list, current, lock, rrefs, own, hand, victim>>
        /\ Steps(t) /\ pc[t] = "close" /\ pc'[t] \in {"cleanup", "drain"}
    BY <1>8, KernelSteps DEF SetState
  <2> QED
    BY <2>1, QuietQueue DEF Busy
<1>9. CASE CloseParent(t)
  <2>1. /\ UNCHANGED <<list, current, lock, rrefs, own, hand, victim>>
        /\ Steps(t) /\ pc[t] = "closed" /\ pc'[t] \in {"idle", "dead"}
    BY <1>9, KernelSteps DEF CloseParent, Home
  <2> QED
    BY <2>1, QuietQueue DEF Busy
<1> QED
  BY <1>g, <1>h, <1>i, <1>j, <1>k, <1>1, <1>2, <1>3, <1>4, <1>5, <1>6, <1>7, <1>8, <1>9

LEMMA QueueKept ==
    ASSUME Types, Types', QueueInv, Next
    PROVE  QueueInv'
<1>1. ASSUME NEW t \in Clients, NEW async \in BOOLEAN, SendRequest(t, async) PROVE QueueInv'
  BY <1>1, SendQueue
<1>2. ASSUME NEW t \in Clients, SendFails(t) \/ RequestTerminate(t) \/ CloseHandle(t, "client")
      PROVE  QueueInv'
  BY <1>2, QuietSteps DEF Threads
<1>3. ASSUME NEW s \in Servers, NEW what \in {"wait", "reply"}, ServerCall(s, what)
      PROVE  QueueInv'
  BY <1>3, QuietSteps DEF Threads
<1>4. ASSUME NEW s \in Servers, WaitTimeout(s) \/ CloseHandle(s, "server") PROVE QueueInv'
  BY <1>4, QuietSteps DEF Threads
<1>5. ASSUME NEW t \in Threads, OnRequest(t) PROVE QueueInv'
  BY <1>5, AppendQueue, QuietSteps
<1>6. ASSUME NEW t \in Threads, CallReturn(t) PROVE QueueInv'
  BY <1>6, ReturnQueue
<1>7. ASSUME NEW t \in Threads, ReceiveRequest(t) PROVE QueueInv'
  BY <1>7, LockedSteps, QuietSteps
<1>8. ASSUME NEW t \in Threads, SendReply(t) PROVE QueueInv'
  BY <1>8, LockedSteps, QuietSteps
<1>9. ASSUME NEW t \in Threads,
             \/ CallLeave(t) \/ Wait(t) \/ ServerLeave(t) \/ Destroy(t) \/ SetState(t)
             \/ CloseParent(t)
      PROVE  QueueInv'
  BY <1>9, QuietSteps
<1>10. ASSUME NEW t \in Threads,
             \/ SetCurrent(t) \/ ReceiveSucceeds(t) \/ ReceiveFails(t) \/ RefuseRequest(t)
             \/ ReplyToClient(t) \/ DrainCurrent(t) \/ DrainPending(t) \/ DrainEnd(t)
             \/ LeaveCurrent(t) \/ CancelPending(t) \/ CleanupTake(t) \/ CleanupAnswer(t)
       PROVE  QueueInv'
  BY <1>10, LockedSteps
<1> QED
  BY <1>1, <1>2, <1>3, <1>4, <1>5, <1>6, <1>7, <1>8, <1>9, <1>10 DEF Next, Guest, Kernel

-----------------------------------------------------------------------------
(* The ends of the session.                                                *)

\* A set that one element joins, or leaves, or neither.
LEMMA OneMore ==
    ASSUME NEW S, IsFiniteSet(S), NEW T, NEW x, T \ {x} = S \ {x}
    PROVE  /\ IsFiniteSet(T)
           /\ Cardinality(S) \in Nat /\ Cardinality(T) \in Nat
           /\ Cardinality(T) = Cardinality(S) + One(x \in T) - One(x \in S)
<1>1. Cardinality(S) \in Nat
  BY FS_CardinalityType
<1>2. CASE x \in S <=> x \in T
  <2>1. T = S
    BY <1>2
  <2> QED
    BY <1>1, <1>2, <2>1 DEF One
<1>3. CASE x \in S /\ x \notin T
  <2>1. T = S \ {x}
    BY <1>3
  <2> QED
    BY <1>1, <1>3, <2>1, FS_RemoveElement, FS_CardinalityType DEF One
<1>4. CASE x \notin S /\ x \in T
  <2>1. T = S \cup {x}
    BY <1>4
  <2> QED
    BY <1>1, <1>4, <2>1, FS_AddElement, FS_CardinalityType DEF One
<1> QED
  BY <1>2, <1>3, <1>4

\* A step takes its own thread into a call, or out of one, or to the end of its side
\* of the session.
LEMMA Classes ==
    ASSUME Types, NEW t \in Threads, Steps(t)
    PROVE  /\ Cardinality(InCall) \in Nat /\ Cardinality(InService) \in Nat
           /\ Cardinality(InCall)' = Cardinality(InCall) + One(t \in InCall') - One(t \in InCall)
           /\ Cardinality(InService)' = Cardinality(InService) + One(t \in InService')
                                        - One(t \in InService)
           /\ \A u \in Threads \ {t} : pc'[u] \in Ending <=> pc[u] \in Ending
<1>1. \A u \in Threads \ {t} : /\ u \in Clients => (pc'[u] \in Calling <=> pc[u] \in Calling)
                               /\ u \in Servers => (pc'[u] \in Serving <=> pc[u] \in Serving)
                               /\ pc'[u] \in Ending <=> pc[u] \in Ending
  BY Bystanders
<1>2. InCall' \ {t} = InCall \ {t} /\ InService' \ {t} = InService \ {t}
  BY <1>1 DEF InCall, InService, Threads
<1>3. IsFiniteSet(InCall) /\ IsFiniteSet(InService)
  BY SessionAssumption, FS_Subset DEF InCall, InService
<1>4. /\ Cardinality(InCall) \in Nat
      /\ Cardinality(InCall') = Cardinality(InCall) + One(t \in InCall') - One(t \in InCall)
  BY <1>2, <1>3, OneMore
<1>5. /\ Cardinality(InService) \in Nat
      /\ Cardinality(InService') = Cardinality(InService) + One(t \in InService')
                                   - One(t \in InService)
  BY <1>2, <1>3, OneMore
<1> QED
  BY <1>1, <1>4, <1>5

\* A step of a thread that stays in its call, or outside, or on its way to the end.
LEMMA EndsSame ==
    ASSUME Types, EndsInv, NEW t \in Threads, Steps(t), UNCHANGED <<state, handle, refs>>,
           t \in Clients => /\ pc'[t] \in Calling <=> pc[t] \in Calling
                            /\ pc'[t] \in {"drain", "looked", "popped"} =>
                                  \/ state # "Normal"
                                  \/ pc[t] \in {"drain", "looked", "popped"},
           t \in Servers => /\ pc'[t] \in Serving <=> pc[t] \in Serving
                            /\ pc[t] \in {"destroy", "close"} =>
                                  pc'[t] \in {"destroy", "close"} \/ state # "Normal",
           pc'[t] \in Ending <=> pc[t] \in Ending
    PROVE  EndsInv'
<1>1. Cardinality(InCall)' = Cardinality(InCall) /\ Cardinality(InService)' = Cardinality(InService)
  <2>1. (t \in InCall' <=> t \in InCall) /\ (t \in InService' <=> t \in InService)
    BY DEF InCall, InService
  <2> QED
    BY <2>1, Classes DEF One
<1>2. \A u \in Threads : pc'[u] \in Ending <=> pc[u] \in Ending
  BY Classes
<1>3. (ClientEnding' <=> ClientEnding) /\ (ServerEnding' <=> ServerEnding)
  BY <1>2 DEF ClientEnding, ServerEnding, Threads
<1>4. EndsCounted'
  BY <1>1, <1>2, <1>3 DEF EndsInv, EndsCounted, Threads
<1>5. state = "Normal" => \A u \in Servers : pc[u] \in {"destroy", "close"} => pc'[u] \in {"destroy", "close"}
  BY Bystanders DEF Threads
<1>6. state = "Normal" => \A u \in Clients : pc'[u] \in {"drain", "looked", "popped"}
                                             => pc[u] \in {"drain", "looked", "popped"}
  BY Bystanders DEF Threads
<1>7. StateTells'
  <2>1. state' = "Normal" => ServerOpen'
    BY <1>5 DEF EndsInv, StateTells, ServerOpen
  <2> QED
    BY <1>6, <2>1 DEF EndsInv, StateTells
<1> QED
  BY <1>4, <1>7 DEF EndsInv

\* Who uses an end, or destroys it, when thread t is about to change that.
LEMMA EndUsers ==
    ASSUME Types, EndsInv, NEW t \in Threads
    PROVE  /\ t \in Clients =>
                /\ (pc[t] \in Calling \/ handle["client"]) => refs["client"] > 0 /\ ~ClientEnding
                /\ pc[t] \in Calling => refs["client"] > 1 \/ ~handle["client"]
           /\ t \in Servers =>
                /\ (pc[t] \in Serving \/ handle["server"]) => refs["server"] > 0 /\ ~ServerEnding
                /\ pc[t] \in Serving => refs["server"] > 1 \/ ~handle["server"]
           /\ refs["client"] \in Nat /\ refs["server"] \in Nat /\ refs["parent"] \in Nat
<1>1. /\ Cardinality(InCall) \in Nat /\ Cardinality(InService) \in Nat
      /\ t \in InCall => Cardinality(InCall) > 0
      /\ t \in InService => Cardinality(InService) > 0
  <2>1. IsFiniteSet(InCall) /\ IsFiniteSet(InService)
    BY SessionAssumption, FS_Subset DEF InCall, InService
  <2> QED
    BY <2>1, FS_CardinalityType, FS_EmptySet
<1>2. /\ t \in Clients /\ pc[t] \in Calling => t \in InCall
      /\ t \in Servers /\ pc[t] \in Serving => t \in InService
  BY DEF InCall, InService
<1>3. handle["client"] \in BOOLEAN /\ handle["server"] \in BOOLEAN
  BY DEF Types
<1> QED
  BY <1>1, <1>2, <1>3 DEF EndsInv, EndsCounted, One

\* The end that is destroyed, in one place at a time.
LEMMA EndingsMove ==
    ASSUME Types, EndsInv, NEW t \in Threads, Steps(t)
    PROVE  /\ t \in Clients =>
                /\ ServerEnding' <=> ServerEnding
                /\ ~ClientEnding => (ClientEnding' <=> pc'[t] \in Ending)
                /\ (pc[t] \in Ending \/ (ClientEnding => pc'[t] \notin Ending)) =>
                      \A a, b \in Clients : pc'[a] \in Ending /\ pc'[b] \in Ending => a = b
                /\ pc[t] \in Ending => (ClientEnding' <=> pc'[t] \in Ending)
                /\ \A a, b \in Servers : pc'[a] \in Ending /\ pc'[b] \in Ending => a = b
           /\ t \in Servers =>
                /\ ClientEnding' <=> ClientEnding
                /\ ~ServerEnding => (ServerEnding' <=> pc'[t] \in Ending)
                /\ (pc[t] \in Ending \/ (ServerEnding => pc'[t] \notin Ending)) =>
                      \A a, b \in Servers : pc'[a] \in Ending /\ pc'[b] \in Ending => a = b
                /\ pc[t] \in Ending => (ServerEnding' <=> pc'[t] \in Ending)
                /\ \A a, b \in Clients : pc'[a] \in Ending /\ pc'[b] \in Ending => a = b
<1>1. \A u \in Threads \ {t} : pc'[u] \in Ending <=> pc[u] \in Ending
  BY Classes
<1>2. t \in Clients <=> t \notin Servers
  BY Sides
<1>3. /\ \A a, b \in Clients : pc[a] \in Ending /\ pc[b] \in Ending => a = b
      /\ \A a, b \in Servers : pc[a] \in Ending /\ pc[b] \in Ending => a = b
  BY DEF EndsInv, EndsCounted
<1>4. Clients \subseteq Threads /\ Servers \subseteq Threads
  BY DEF Threads
<1>5. /\ t \in Clients => (ServerEnding' <=> ServerEnding)
      /\ t \in Servers => (ClientEnding' <=> ClientEnding)
  BY <1>1, <1>2, <1>4 DEF ServerEnding, ClientEnding
<1>6. /\ t \in Clients /\ ~ClientEnding => (ClientEnding' <=> pc'[t] \in Ending)
      /\ t \in Servers /\ ~ServerEnding => (ServerEnding' <=> pc'[t] \in Ending)
  BY <1>1, <1>4 DEF ServerEnding, ClientEnding
<1>7. /\ t \in Clients /\ pc[t] \in Ending => (ClientEnding' <=> pc'[t] \in Ending)
      /\ t \in Servers /\ pc[t] \in Ending => (ServerEnding' <=> pc'[t] \in Ending)
  BY <1>1, <1>3, <1>4 DEF ServerEnding, ClientEnding
<1>8. /\ t \in Clients => \A a, b \in Servers : pc'[a] \in Ending /\ pc'[b] \in Ending => a = b
      /\ t \in Servers => \A a, b \in Clients : pc'[a] \in Ending /\ pc'[b] \in Ending => a = b
  BY <1>1, <1>2, <1>3, <1>4
<1>9. /\ t \in Clients /\ (pc[t] \in Ending \/ (ClientEnding => pc'[t] \notin Ending)) =>
            \A a, b \in Clients : pc'[a] \in Ending /\ pc'[b] \in Ending => a = b
      /\ t \in Servers /\ (pc[t] \in Ending \/ (ServerEnding => pc'[t] \notin Ending)) =>
            \A a, b \in Servers : pc'[a] \in Ending /\ pc'[b] \in Ending => a = b
  BY <1>1, <1>3, <1>4 DEF ClientEnding, ServerEnding
<1> QED
  BY <1>5, <1>6, <1>7, <1>8, <1>9

LEMMA StateKept ==
    ASSUME Types, EndsInv, NEW t \in Threads, Steps(t), state' = state,
           \/ refs'["server"] > 0
           \/ t \in Servers /\ pc'[t] = "destroy"
           \/ refs'["server"] = refs["server"] /\ ~(t \in Servers /\ pc[t] \in {"destroy", "close"})
           \/ state # "Normal",
           t \in Clients => pc'[t] \notin {"drain", "looked", "popped"},
           state = "ServerClosed" => refs'["server"] = 0
    PROVE  StateTells'
<1>1. \A u \in Servers \ {t} : pc[u] \in {"destroy", "close"} => pc'[u] \in {"destroy", "close"}
  BY Bystanders DEF Threads
<1>2. \A u \in Clients : pc'[u] \in {"drain", "looked", "popped"}
                         => pc[u] \in {"drain", "looked", "popped"}
  BY Bystanders DEF Threads
<1>3. state' = "Normal" => ServerOpen'
  <2> SUFFICES ASSUME state = "Normal", refs'["server"] = refs["server"],
                      ~(refs["server"] > 0), ~(t \in Servers /\ pc[t] \in {"destroy", "close"})
               PROVE  ServerOpen'
    BY DEF ServerOpen
  <2>1. PICK s \in Servers : pc[s] \in {"destroy", "close"}
    BY DEF EndsInv, StateTells, ServerOpen
  <2> QED
    BY <1>1, <2>1 DEF ServerOpen
<1> QED
  BY <1>2, <1>3 DEF EndsInv, StateTells

\* Each step that uses an end, or gives it up.
LEMMA EndsMoved ==
    ASSUME Types, Types', HandsLocked, EndsInv, NEW t \in Threads,
           \/ t \in Clients /\ (SendFails(t) \/ \E async \in BOOLEAN : SendRequest(t, async))
           \/ \E e \in {"client", "server"} : CloseHandle(t, e)
           \/ t \in Servers /\ \E what \in {"wait", "reply"} : ServerCall(t, what)
           \/ CallLeave(t) \/ ServerLeave(t) \/ CloseParent(t)
    PROVE  EndsInv'
<1> USE DEF At
<1>a. /\ t \in Clients <=> t \notin Servers
      /\ t \in InCall <=> t \in Clients /\ pc[t] \in Calling
      /\ t \in InCall' <=> t \in Clients /\ pc'[t] \in Calling
      /\ t \in InService <=> t \in Servers /\ pc[t] \in Serving
      /\ t \in InService' <=> t \in Servers /\ pc'[t] \in Serving
  BY Sides DEF InCall, InService
<1>b. /\ refs \in [{"client", "server", "parent"} -> Int]
      /\ refs["client"] \in Int /\ refs["server"] \in Int /\ refs["parent"] \in Int
  BY DEF Types, Ends
<1>c. handle \in [{"client", "server"} -> BOOLEAN]
  BY DEF Types
<1>d. /\ refs["client"] = One(handle["client"]) + Cardinality(InCall)
      /\ refs["server"] = One(handle["server"]) + Cardinality(InService)
      /\ refs["parent"] = One(refs["client"] > 0 \/ ClientEnding)
                          + One(refs["server"] > 0 \/ ServerEnding) + Cardinality(InCall)
      /\ ClientEnding => refs["client"] = 0
      /\ ServerEnding => refs["server"] = 0
  BY DEF EndsInv, EndsCounted
<1>1. ASSUME t \in Clients, SendFails(t) \/ \E async \in BOOLEAN : SendRequest(t, async)
      PROVE  EndsInv'
  <2>1. Steps(t) /\ pc[t] = "idle" /\ pc'[t] \in {"send", "leave"}
    BY <1>1, <1>a, GuestSteps DEF SendRequest, SendFails
  <2>2. /\ handle' = handle /\ handle["client"]
        /\ refs'["client"] = refs["client"] + 1 /\ refs'["parent"] = refs["parent"] + 1
        /\ refs'["server"] = refs["server"]
    BY <1>1, <1>b, <1>c DEF SendRequest, SendFails, Ends
  <2>3. /\ Cardinality(InCall)' = Cardinality(InCall) + 1
        /\ Cardinality(InService)' = Cardinality(InService)
    BY <1>1, <1>a, <2>1, Classes DEF One, Calling, Serving
  <2>4. refs["client"] > 0 /\ ~ClientEnding
    BY <1>1, <1>a, <1>d, <2>1, <2>2, EndUsers DEF Calling, Serving, Ending, ClientEnding, ServerEnding
  <2>5. EndsCounted'
    <3>1. /\ ~ClientEnding' /\ (ServerEnding' <=> ServerEnding)
          /\ \A a, b \in Clients : pc'[a] \in Ending /\ pc'[b] \in Ending => a = b
          /\ \A a, b \in Servers : pc'[a] \in Ending /\ pc'[b] \in Ending => a = b
      BY <1>1, <1>a, <2>1, <2>4, EndingsMove DEF Ending
    <3>2. refs'["client"] = One(handle'["client"]) + Cardinality(InCall)'
      BY <1>1, <1>a, <1>b, <1>d, <2>1, <2>2, <2>3, Classes DEF One
    <3>3. refs'["server"] = One(handle'["server"]) + Cardinality(InService)'
      BY <1>1, <1>a, <1>b, <1>d, <2>1, <2>2, <2>3, Classes DEF One
    <3>4. ClientEnding' => refs'["client"] = 0
      <4>1. ClientEnding' => refs["client"] = 0
        BY <1>d, <3>1
      <4> QED
        BY <2>2, <3>1, <4>1
    <3>5. ServerEnding' => refs'["server"] = 0
      <4>1. ServerEnding' => refs["server"] = 0
        BY <1>d, <3>1
      <4> QED
        BY <2>2, <3>1, <4>1
    <3>6. /\ refs'["client"] > 0 \/ ClientEnding' <=> refs["client"] > 0 \/ ClientEnding
          /\ refs'["server"] > 0 \/ ServerEnding' <=> refs["server"] > 0 \/ ServerEnding
      <4>1. refs["client"] \in Nat /\ refs["server"] \in Nat
        BY EndUsers
      <4>2. refs'["client"] > 0 \/ ClientEnding' <=> refs["client"] > 0 \/ ClientEnding
        BY <1>a, <2>2, <2>4, <3>1, <4>1
      <4>3. refs'["server"] > 0 \/ ServerEnding' <=> refs["server"] > 0 \/ ServerEnding
        BY <1>a, <2>2, <2>4, <3>1, <4>1
      <4> QED
        BY <4>2, <4>3
    <3>7. refs'["parent"] = One(refs'["client"] > 0 \/ ClientEnding')
                            + One(refs'["server"] > 0 \/ ServerEnding') + Cardinality(InCall)'
      BY <1>b, <1>d, <2>1, <2>2, <2>3, <3>6, Classes DEF One
    <3> QED
      BY <3>1, <3>2, <3>3, <3>4, <3>5, <3>7 DEF EndsCounted
  <2>6. StateTells'
    <3>1. /\ state = "ServerClosed" => refs["server"] = 0
          /\ state' = state
      BY <1>1 DEF EndsInv, StateTells, SendRequest, SendFails, sessionVars
    <3> QED
      BY <1>1, <1>a, <1>b, <2>1, <2>2, <2>4, <3>1, StateKept
  <2> QED
    BY <2>5, <2>6 DEF EndsInv
<1>2. ASSUME CloseHandle(t, "client") PROVE EndsInv'
  <2>1. Steps(t) /\ t \in Clients /\ pc[t] = "idle" /\ pc'[t] = IF refs["client"] = 1 THEN "destroy" ELSE "idle"
    BY <1>2, <1>a, GuestSteps DEF CloseHandle
  <2>2. /\ handle["client"] /\ ~handle'["client"] /\ (handle'["server"] <=> handle["server"])
        /\ refs'["client"] = refs["client"] - 1 /\ refs'["parent"] = refs["parent"]
        /\ refs'["server"] = refs["server"]
    BY <1>2, <1>b, <1>c DEF CloseHandle, Ends, CloseEnd
  <2>3. /\ Cardinality(InCall)' = Cardinality(InCall)
        /\ Cardinality(InService)' = Cardinality(InService)
    BY <1>2, <1>a, <2>1, Classes DEF One, Calling, Serving
  <2>4. refs["client"] > 0 /\ ~ClientEnding
    BY <1>2, <1>a, <1>d, <2>1, <2>2, EndUsers DEF Calling, Serving, Ending, ClientEnding, ServerEnding
  <2>5. EndsCounted'
    <3>1. /\ ClientEnding' <=> refs["client"] = 1
          /\ ServerEnding' <=> ServerEnding
          /\ \A a, b \in Clients : pc'[a] \in Ending /\ pc'[b] \in Ending => a = b
          /\ \A a, b \in Servers : pc'[a] \in Ending /\ pc'[b] \in Ending => a = b
      BY <1>2, <1>a, <2>1, <2>4, EndingsMove DEF Ending
    <3>2. refs'["client"] = One(handle'["client"]) + Cardinality(InCall)'
      BY <1>2, <1>a, <1>b, <1>d, <2>1, <2>2, <2>3, Classes DEF One
    <3>3. refs'["server"] = One(handle'["server"]) + Cardinality(InService)'
      BY <1>2, <1>a, <1>b, <1>d, <2>1, <2>2, <2>3, Classes DEF One
    <3>4. ClientEnding' => refs'["client"] = 0
      <4>1. ClientEnding' => refs["client"] = 1
        BY <1>d, <3>1
      <4> QED
        BY <2>2, <3>1, <4>1
    <3>5. ServerEnding' => refs'["server"] = 0
      <4>1. ServerEnding' => refs["server"] = 0
        BY <1>d, <3>1
      <4> QED
        BY <2>2, <3>1, <4>1
    <3>6. /\ refs'["client"] > 0 \/ ClientEnding' <=> refs["client"] > 0 \/ ClientEnding
          /\ refs'["server"] > 0 \/ ServerEnding' <=> refs["server"] > 0 \/ ServerEnding
      <4>1. refs["client"] \in Nat /\ refs["server"] \in Nat
        BY EndUsers
      <4>2. refs'["client"] > 0 \/ ClientEnding' <=> refs["client"] > 0 \/ ClientEnding
        BY <1>a, <2>2, <2>4, <3>1, <4>1
      <4>3. refs'["server"] > 0 \/ ServerEnding' <=> refs["server"] > 0 \/ ServerEnding
        BY <1>a, <2>2, <2>4, <3>1, <4>1
      <4> QED
        BY <4>2, <4>3
    <3>7. refs'["parent"] = One(refs'["client"] > 0 \/ ClientEnding')
                            + One(refs'["server"] > 0 \/ ServerEnding') + Cardinality(InCall)'
      BY <1>b, <1>d, <2>1, <2>2, <2>3, <3>6, Classes DEF One
    <3> QED
      BY <3>1, <3>2, <3>3, <3>4, <3>5, <3>7 DEF EndsCounted
  <2>6. StateTells'
    <3>1. /\ state = "ServerClosed" => refs["server"] = 0
          /\ state' = state
      BY <1>2 DEF EndsInv, StateTells, CloseHandle, sessionVars
    <3> QED
      BY <1>2, <1>a, <1>b, <2>1, <2>2, <2>4, <3>1, StateKept
  <2> QED
    BY <2>5, <2>6 DEF EndsInv
<1>3. ASSUME CloseHandle(t, "server") PROVE EndsInv'
  <2>1. Steps(t) /\ t \in Servers /\ pc[t] = "idle" /\ pc'[t] = IF refs["server"] = 1 THEN "destroy" ELSE "idle"
    BY <1>3, <1>a, GuestSteps DEF CloseHandle
  <2>2. /\ handle["server"] /\ ~handle'["server"] /\ (handle'["client"] <=> handle["client"])
        /\ refs'["server"] = refs["server"] - 1 /\ refs'["parent"] = refs["parent"]
        /\ refs'["client"] = refs["client"]
    BY <1>3, <1>b, <1>c DEF CloseHandle, Ends, CloseEnd
  <2>3. /\ Cardinality(InCall)' = Cardinality(InCall)
        /\ Cardinality(InService)' = Cardinality(InService)
    BY <1>3, <1>a, <2>1, Classes DEF One, Calling, Serving
  <2>4. refs["server"] > 0 /\ ~ServerEnding
    BY <1>3, <1>a, <1>d, <2>1, <2>2, EndUsers DEF Calling, Serving, Ending, ClientEnding, ServerEnding
  <2>5. EndsCounted'
    <3>1. /\ ServerEnding' <=> refs["server"] = 1
          /\ ClientEnding' <=> ClientEnding
          /\ \A a, b \in Clients : pc'[a] \in Ending /\ pc'[b] \in Ending => a = b
          /\ \A a, b \in Servers : pc'[a] \in Ending /\ pc'[b] \in Ending => a = b
      BY <1>3, <1>a, <2>1, <2>4, EndingsMove DEF Ending
    <3>2. refs'["client"] = One(handle'["client"]) + Cardinality(InCall)'
      BY <1>3, <1>a, <1>b, <1>d, <2>1, <2>2, <2>3, Classes DEF One
    <3>3. refs'["server"] = One(handle'["server"]) + Cardinality(InService)'
      BY <1>3, <1>a, <1>b, <1>d, <2>1, <2>2, <2>3, Classes DEF One
    <3>4. ClientEnding' => refs'["client"] = 0
      <4>1. ClientEnding' => refs["client"] = 0
        BY <1>d, <3>1
      <4> QED
        BY <2>2, <3>1, <4>1
    <3>5. ServerEnding' => refs'["server"] = 0
      <4>1. ServerEnding' => refs["server"] = 1
        BY <1>d, <3>1
      <4> QED
        BY <2>2, <3>1, <4>1
    <3>6. /\ refs'["client"] > 0 \/ ClientEnding' <=> refs["client"] > 0 \/ ClientEnding
          /\ refs'["server"] > 0 \/ ServerEnding' <=> refs["server"] > 0 \/ ServerEnding
      <4>1. refs["client"] \in Nat /\ refs["server"] \in Nat
        BY EndUsers
      <4>2. refs'["client"] > 0 \/ ClientEnding' <=> refs["client"] > 0 \/ ClientEnding
        BY <1>a, <2>2, <2>4, <3>1, <4>1
      <4>3. refs'["server"] > 0 \/ ServerEnding' <=> refs["server"] > 0 \/ ServerEnding
        BY <1>a, <2>2, <2>4, <3>1, <4>1
      <4> QED
        BY <4>2, <4>3
    <3>7. refs'["parent"] = One(refs'["client"] > 0 \/ ClientEnding')
                            + One(refs'["server"] > 0 \/ ServerEnding') + Cardinality(InCall)'
      BY <1>b, <1>d, <2>1, <2>2, <2>3, <3>6, Classes DEF One
    <3> QED
      BY <3>1, <3>2, <3>3, <3>4, <3>5, <3>7 DEF EndsCounted
  <2>6. StateTells'
    <3>1. /\ state = "ServerClosed" => refs["server"] = 0
          /\ state' = state
      BY <1>3 DEF EndsInv, StateTells, CloseHandle, sessionVars
    <3> QED
      BY <1>3, <1>a, <1>b, <2>1, <2>2, <2>4, <3>1, StateKept
  <2> QED
    BY <2>5, <2>6 DEF EndsInv
<1>4. ASSUME t \in Servers, NEW what \in {"wait", "reply"}, ServerCall(t, what) PROVE EndsInv'
  <2>1. Steps(t) /\ pc[t] = "idle" /\ pc'[t] \in {"wait", "reply"}
    BY <1>4, <1>a, GuestSteps DEF ServerCall
  <2>2. /\ handle' = handle /\ handle["server"]
        /\ refs'["server"] = refs["server"] + 1 /\ refs'["parent"] = refs["parent"]
        /\ refs'["client"] = refs["client"]
    BY <1>4, <1>b, <1>c DEF ServerCall, Ends
  <2>3. /\ Cardinality(InCall)' = Cardinality(InCall)
        /\ Cardinality(InService)' = Cardinality(InService) + 1
    BY <1>4, <1>a, <2>1, Classes DEF One, Calling, Serving
  <2>4. refs["server"] > 0 /\ ~ServerEnding
    BY <1>4, <1>a, <1>d, <2>1, <2>2, EndUsers DEF Calling, Serving, Ending, ClientEnding, ServerEnding
  <2>5. EndsCounted'
    <3>1. /\ ~ServerEnding' /\ (ClientEnding' <=> ClientEnding)
          /\ \A a, b \in Clients : pc'[a] \in Ending /\ pc'[b] \in Ending => a = b
          /\ \A a, b \in Servers : pc'[a] \in Ending /\ pc'[b] \in Ending => a = b
      BY <1>4, <1>a, <2>1, <2>4, EndingsMove DEF Ending
    <3>2. refs'["client"] = One(handle'["client"]) + Cardinality(InCall)'
      BY <1>4, <1>a, <1>b, <1>d, <2>1, <2>2, <2>3, Classes DEF One
    <3>3. refs'["server"] = One(handle'["server"]) + Cardinality(InService)'
      BY <1>4, <1>a, <1>b, <1>d, <2>1, <2>2, <2>3, Classes DEF One
    <3>4. ClientEnding' => refs'["client"] = 0
      <4>1. ClientEnding' => refs["client"] = 0
        BY <1>d, <3>1
      <4> QED
        BY <2>2, <3>1, <4>1
    <3>5. ServerEnding' => refs'["server"] = 0
      <4>1. ServerEnding' => refs["server"] = 0
        BY <1>d, <3>1
      <4> QED
        BY <2>2, <3>1, <4>1
    <3>6. /\ refs'["client"] > 0 \/ ClientEnding' <=> refs["client"] > 0 \/ ClientEnding
          /\ refs'["server"] > 0 \/ ServerEnding' <=> refs["server"] > 0 \/ ServerEnding
      <4>1. refs["client"] \in Nat /\ refs["server"] \in Nat
        BY EndUsers
      <4>2. refs'["client"] > 0 \/ ClientEnding' <=> refs["client"] > 0 \/ ClientEnding
        BY <1>a, <2>2, <2>4, <3>1, <4>1
      <4>3. refs'["server"] > 0 \/ ServerEnding' <=> refs["server"] > 0 \/ ServerEnding
        BY <1>a, <2>2, <2>4, <3>1, <4>1
      <4> QED
        BY <4>2, <4>3
    <3>7. refs'["parent"] = One(refs'["client"] > 0 \/ ClientEnding')
                            + One(refs'["server"] > 0 \/ ServerEnding') + Cardinality(InCall)'
      BY <1>b, <1>d, <2>1, <2>2, <2>3, <3>6, Classes DEF One
    <3> QED
      BY <3>1, <3>2, <3>3, <3>4, <3>5, <3>7 DEF EndsCounted
  <2>6. StateTells'
    <3>1. /\ state = "ServerClosed" => refs["server"] = 0
          /\ state' = state
      BY <1>4 DEF EndsInv, StateTells, ServerCall, sessionVars
    <3> QED
      BY <1>4, <1>a, <1>b, <2>1, <2>2, <2>4, <3>1, StateKept
  <2> QED
    BY <2>5, <2>6 DEF EndsInv
<1>5. ASSUME CallLeave(t) PROVE EndsInv'
  <2>1. Steps(t) /\ t \in Clients /\ pc[t] = "leave" /\ (refs["client"] = 1 => pc'[t] = "destroy")
        /\ (refs["client"] # 1 => pc'[t] \in {"idle", "dead"})
    BY <1>5, <1>a, KernelSteps DEF CallLeave, Home
  <2>2. /\ handle' = handle
        /\ refs'["client"] = refs["client"] - 1 /\ refs'["parent"] = refs["parent"] - 1
        /\ refs'["server"] = refs["server"]
    BY <1>5, <1>b, <1>c DEF CallLeave, Ends, CloseEnd
  <2>3. /\ Cardinality(InCall)' = Cardinality(InCall) - 1
        /\ Cardinality(InService)' = Cardinality(InService)
    BY <1>5, <1>a, <2>1, Classes DEF One, Calling, Serving
  <2>4. refs["client"] > 0 /\ ~ClientEnding
    BY <1>5, <1>a, <1>d, <2>1, <2>2, EndUsers DEF Calling, Serving, Ending, ClientEnding, ServerEnding
  <2>5. EndsCounted'
    <3>1. /\ ClientEnding' <=> refs["client"] = 1
          /\ ServerEnding' <=> ServerEnding
          /\ \A a, b \in Clients : pc'[a] \in Ending /\ pc'[b] \in Ending => a = b
          /\ \A a, b \in Servers : pc'[a] \in Ending /\ pc'[b] \in Ending => a = b
      BY <1>5, <1>a, <2>1, <2>4, EndingsMove DEF Ending
    <3>2. refs'["client"] = One(handle'["client"]) + Cardinality(InCall)'
      BY <1>5, <1>a, <1>b, <1>d, <2>1, <2>2, <2>3, Classes DEF One
    <3>3. refs'["server"] = One(handle'["server"]) + Cardinality(InService)'
      BY <1>5, <1>a, <1>b, <1>d, <2>1, <2>2, <2>3, Classes DEF One
    <3>4. ClientEnding' => refs'["client"] = 0
      <4>1. ClientEnding' => refs["client"] = 1
        BY <1>d, <3>1
      <4> QED
        BY <2>2, <3>1, <4>1
    <3>5. ServerEnding' => refs'["server"] = 0
      <4>1. ServerEnding' => refs["server"] = 0
        BY <1>d, <3>1
      <4> QED
        BY <2>2, <3>1, <4>1
    <3>6. /\ refs'["client"] > 0 \/ ClientEnding' <=> refs["client"] > 0 \/ ClientEnding
          /\ refs'["server"] > 0 \/ ServerEnding' <=> refs["server"] > 0 \/ ServerEnding
      <4>1. refs["client"] \in Nat /\ refs["server"] \in Nat
        BY EndUsers
      <4>2. refs'["client"] > 0 \/ ClientEnding' <=> refs["client"] > 0 \/ ClientEnding
        BY <1>a, <2>2, <2>4, <3>1, <4>1
      <4>3. refs'["server"] > 0 \/ ServerEnding' <=> refs["server"] > 0 \/ ServerEnding
        BY <1>a, <2>2, <2>4, <3>1, <4>1
      <4> QED
        BY <4>2, <4>3
    <3>7. refs'["parent"] = One(refs'["client"] > 0 \/ ClientEnding')
                            + One(refs'["server"] > 0 \/ ServerEnding') + Cardinality(InCall)'
      BY <1>b, <1>d, <2>1, <2>2, <2>3, <3>6, Classes DEF One
    <3> QED
      BY <3>1, <3>2, <3>3, <3>4, <3>5, <3>7 DEF EndsCounted
  <2>6. StateTells'
    <3>1. /\ state = "ServerClosed" => refs["server"] = 0
          /\ state' = state
      BY <1>5 DEF EndsInv, StateTells, CallLeave, sessionVars
    <3> QED
      BY <1>5, <1>a, <1>b, <2>1, <2>2, <2>4, <3>1, StateKept
  <2> QED
    BY <2>5, <2>6 DEF EndsInv
<1>6. ASSUME ServerLeave(t) PROVE EndsInv'
  <2>1. Steps(t) /\ t \in Servers /\ pc[t] = "leave" /\ pc'[t] = IF refs["server"] = 1 THEN "destroy" ELSE "idle"
    BY <1>6, <1>a, KernelSteps DEF ServerLeave
  <2>2. /\ handle' = handle
        /\ refs'["server"] = refs["server"] - 1 /\ refs'["parent"] = refs["parent"]
        /\ refs'["client"] = refs["client"]
    BY <1>6, <1>b, <1>c DEF ServerLeave, Ends, CloseEnd
  <2>3. /\ Cardinality(InCall)' = Cardinality(InCall)
        /\ Cardinality(InService)' = Cardinality(InService) - 1
    BY <1>6, <1>a, <2>1, Classes DEF One, Calling, Serving
  <2>4. refs["server"] > 0 /\ ~ServerEnding
    BY <1>6, <1>a, <1>d, <2>1, <2>2, EndUsers DEF Calling, Serving, Ending, ClientEnding, ServerEnding
  <2>5. EndsCounted'
    <3>1. /\ ServerEnding' <=> refs["server"] = 1
          /\ ClientEnding' <=> ClientEnding
          /\ \A a, b \in Clients : pc'[a] \in Ending /\ pc'[b] \in Ending => a = b
          /\ \A a, b \in Servers : pc'[a] \in Ending /\ pc'[b] \in Ending => a = b
      BY <1>6, <1>a, <2>1, <2>4, EndingsMove DEF Ending
    <3>2. refs'["client"] = One(handle'["client"]) + Cardinality(InCall)'
      BY <1>6, <1>a, <1>b, <1>d, <2>1, <2>2, <2>3, Classes DEF One
    <3>3. refs'["server"] = One(handle'["server"]) + Cardinality(InService)'
      BY <1>6, <1>a, <1>b, <1>d, <2>1, <2>2, <2>3, Classes DEF One
    <3>4. ClientEnding' => refs'["client"] = 0
      <4>1. ClientEnding' => refs["client"] = 0
        BY <1>d, <3>1
      <4> QED
        BY <2>2, <3>1, <4>1
    <3>5. ServerEnding' => refs'["server"] = 0
      <4>1. ServerEnding' => refs["server"] = 1
        BY <1>d, <3>1
      <4> QED
        BY <2>2, <3>1, <4>1
    <3>6. /\ refs'["client"] > 0 \/ ClientEnding' <=> refs["client"] > 0 \/ ClientEnding
          /\ refs'["server"] > 0 \/ ServerEnding' <=> refs["server"] > 0 \/ ServerEnding
      <4>1. refs["client"] \in Nat /\ refs["server"] \in Nat
        BY EndUsers
      <4>2. refs'["client"] > 0 \/ ClientEnding' <=> refs["client"] > 0 \/ ClientEnding
        BY <1>a, <2>2, <2>4, <3>1, <4>1
      <4>3. refs'["server"] > 0 \/ ServerEnding' <=> refs["server"] > 0 \/ ServerEnding
        BY <1>a, <2>2, <2>4, <3>1, <4>1
      <4> QED
        BY <4>2, <4>3
    <3>7. refs'["parent"] = One(refs'["client"] > 0 \/ ClientEnding')
                            + One(refs'["server"] > 0 \/ ServerEnding') + Cardinality(InCall)'
      BY <1>b, <1>d, <2>1, <2>2, <2>3, <3>6, Classes DEF One
    <3> QED
      BY <3>1, <3>2, <3>3, <3>4, <3>5, <3>7 DEF EndsCounted
  <2>6. StateTells'
    <3>1. /\ state = "ServerClosed" => refs["server"] = 0
          /\ state' = state
      BY <1>6 DEF EndsInv, StateTells, ServerLeave, sessionVars
    <3> QED
      BY <1>6, <1>a, <1>b, <2>1, <2>2, <2>4, <3>1, StateKept
  <2> QED
    BY <2>5, <2>6 DEF EndsInv
<1>7. ASSUME CloseParent(t) PROVE EndsInv'
  <2>1. Steps(t) /\ pc[t] = "closed" /\ pc'[t] \in {"idle", "dead"}
    BY <1>7, KernelSteps DEF CloseParent, Home
  <2>2. /\ handle' = handle /\ state' = state
        /\ refs'["client"] = refs["client"] /\ refs'["parent"] = refs["parent"] - 1
        /\ refs'["server"] = refs["server"]
    BY <1>7, <1>b DEF CloseParent, Ends
  <2>3. /\ Cardinality(InCall)' = Cardinality(InCall)
        /\ Cardinality(InService)' = Cardinality(InService)
    BY <1>a, <2>1, Classes DEF One, Calling, Serving
  <2>4. /\ t \in Clients => ClientEnding
        /\ t \in Servers => ServerEnding
    BY <2>1 DEF Ending, ClientEnding, ServerEnding
  <2>5. EndsCounted'
    <3>1. /\ t \in Clients => ~ClientEnding' /\ (ServerEnding' <=> ServerEnding)
          /\ t \in Servers => ~ServerEnding' /\ (ClientEnding' <=> ClientEnding)
          /\ \A a, b \in Clients : pc'[a] \in Ending /\ pc'[b] \in Ending => a = b
          /\ \A a, b \in Servers : pc'[a] \in Ending /\ pc'[b] \in Ending => a = b
      BY <1>a, <2>1, EndingsMove DEF Ending, Threads
    <3>2. /\ refs'["client"] = One(handle'["client"]) + Cardinality(InCall)'
          /\ refs'["server"] = One(handle'["server"]) + Cardinality(InService)'
      BY <1>d, <2>2, <2>3
    <3>3. refs'["parent"] = One(refs'["client"] > 0 \/ ClientEnding')
                            + One(refs'["server"] > 0 \/ ServerEnding') + Cardinality(InCall)'
      <4>1. t \in Clients \/ t \in Servers
        BY DEF Threads
      <4>2. CASE t \in Clients
        <5>1. /\ ClientEnding /\ ~ClientEnding' /\ refs["client"] = 0 /\ refs'["client"] = 0
              /\ refs'["server"] > 0 \/ ServerEnding' <=> refs["server"] > 0 \/ ServerEnding
          BY <1>d, <2>2, <2>4, <3>1, <4>2
        <5>2. /\ One(refs["client"] > 0 \/ ClientEnding) = 1
              /\ One(refs'["client"] > 0 \/ ClientEnding') = 0
              /\ One(refs'["server"] > 0 \/ ServerEnding') = One(refs["server"] > 0 \/ ServerEnding)
              /\ One(refs["server"] > 0 \/ ServerEnding) \in Int
          BY <5>1 DEF One
        <5>3. Cardinality(InCall) \in Int
          BY <2>1, Classes
        <5> QED
          BY <1>b, <1>d, <2>2, <2>3, <5>2, <5>3
      <4>3. CASE t \in Servers
        <5>1. /\ ServerEnding /\ ~ServerEnding' /\ refs["server"] = 0 /\ refs'["server"] = 0
              /\ refs'["client"] > 0 \/ ClientEnding' <=> refs["client"] > 0 \/ ClientEnding
          BY <1>d, <2>2, <2>4, <3>1, <4>3
        <5>2. /\ One(refs["server"] > 0 \/ ServerEnding) = 1
              /\ One(refs'["server"] > 0 \/ ServerEnding') = 0
              /\ One(refs'["client"] > 0 \/ ClientEnding') = One(refs["client"] > 0 \/ ClientEnding)
              /\ One(refs["client"] > 0 \/ ClientEnding) \in Int
          BY <5>1 DEF One
        <5>3. Cardinality(InCall) \in Int
          BY <2>1, Classes
        <5> QED
          BY <1>b, <1>d, <2>2, <2>3, <5>2, <5>3
      <4> QED
        BY <4>1, <4>2, <4>3
    <3> QED
      BY <1>a, <1>d, <2>2, <3>1, <3>2, <3>3 DEF EndsCounted, Threads
  <2>6. StateTells'
    BY <1>a, <2>1, <2>2, StateKept DEF EndsInv, StateTells
  <2> QED
    BY <2>5, <2>6 DEF EndsInv
<1> QED
  BY <1>1, <1>2, <1>3, <1>4, <1>5, <1>6, <1>7

\* The state is set.
LEMMA EndsSet ==
    ASSUME Types, Types', HandsLocked, EndsInv, NEW t \in Threads, SetState(t)
    PROVE  EndsInv'
<1>1. Steps(t) /\ pc[t] = "close" /\ pc'[t] = IF t \in Servers THEN "cleanup" ELSE "drain"
  BY KernelSteps DEF SetState, At
<1>2. /\ UNCHANGED <<handle, refs>> /\ state' # "Normal"
      /\ state' = "ServerClosed" => t \in Servers
  BY DEF SetState
<1>3. /\ Cardinality(InCall)' = Cardinality(InCall)
      /\ Cardinality(InService)' = Cardinality(InService)
  <2>1. (t \in InCall' <=> t \in InCall) /\ (t \in InService' <=> t \in InService)
    BY <1>1 DEF InCall, InService, Calling, Serving
  <2> QED
    BY <1>1, <2>1, Classes DEF One
<1>4. \A u \in Threads : pc'[u] \in Ending <=> pc[u] \in Ending
  BY <1>1, Classes DEF Ending
<1>5. EndsCounted'
  <2>1. (ClientEnding' <=> ClientEnding) /\ (ServerEnding' <=> ServerEnding)
    BY <1>4 DEF ClientEnding, ServerEnding, Threads
  <2> QED
    BY <1>2, <1>3, <1>4, <2>1 DEF EndsInv, EndsCounted, Threads
<1>6. StateTells'
  BY <1>1, <1>2 DEF EndsInv, EndsCounted, StateTells, ServerEnding, Ending
<1> QED
  BY <1>5, <1>6 DEF EndsInv

LEMMA EndsKept ==
    ASSUME Types, Types', HandsLocked, EndsInv, Next
    PROVE  EndsInv'
<1> USE DEF sessionVars
<1>t. \A t \in Threads : t \in Clients <=> t \notin Servers
  BY Sides
<1>s. Clients \subseteq Threads /\ Servers \subseteq Threads
  BY DEF Threads
<1>g. ASSUME NEW t \in Clients, SendFails(t) \/ \E async \in BOOLEAN : SendRequest(t, async)
      PROVE  EndsInv'
  BY <1>g, <1>s, EndsMoved
<1>h. ASSUME NEW t \in Clients, RequestTerminate(t) PROVE EndsInv'
  <2>1. Steps(t) /\ UNCHANGED <<state, handle, refs>>
    BY <1>h, GuestSteps DEF RequestTerminate
  <2>2. /\ pc'[t] \in Calling <=> pc[t] \in Calling
        /\ pc'[t] \in Ending <=> pc[t] \in Ending
        /\ pc'[t] \in {"drain", "looked", "popped"} => pc[t] \in {"drain", "looked", "popped"}
    BY <1>h, GuestSteps DEF Calling, Ending
  <2> QED
    BY <1>h, <1>s, <1>t, <2>1, <2>2, EndsSame
<1>i. ASSUME NEW t \in Threads, NEW e \in {"client", "server"}, CloseHandle(t, e) PROVE EndsInv'
  BY <1>i, EndsMoved
<1>j. ASSUME NEW s \in Servers, NEW what \in {"wait", "reply"}, ServerCall(s, what) PROVE EndsInv'
  BY <1>j, <1>s, EndsMoved
<1>k. ASSUME NEW s \in Servers, WaitTimeout(s) PROVE EndsInv'
  <2>1. /\ Steps(s) /\ UNCHANGED <<state, handle, refs>>
        /\ pc[s] = "sleeping" /\ pc'[s] = "leave"
    BY <1>k, GuestSteps DEF WaitTimeout, At
  <2> QED
    BY <1>k, <1>s, <1>t, <2>1, EndsSame DEF Serving, Ending
<1>1. ASSUME NEW t \in Threads, CallLeave(t) \/ ServerLeave(t) \/ CloseParent(t) PROVE EndsInv'
  BY <1>1, EndsMoved
<1>2. ASSUME NEW t \in Threads, SetState(t) PROVE EndsInv'
  BY <1>2, EndsSet
<1>3. ASSUME NEW t \in Threads, OnRequest(t) PROVE EndsInv'
  <2>1. /\ Steps(t) /\ UNCHANGED <<state, handle, refs>> /\ t \in Clients
        /\ pc[t] = "send" /\ pc'[t] \in {"return", "waiting"}
    BY <1>3, KernelSteps DEF OnRequest, At
  <2> QED
    BY <1>t, <2>1, EndsSame DEF Calling, Ending
<1>4. ASSUME NEW t \in Threads, CallReturn(t) PROVE EndsInv'
  <2>1. /\ Steps(t) /\ UNCHANGED <<state, handle, refs>> /\ t \in Clients
        /\ pc[t] = "return" /\ pc'[t] = "leave"
    BY <1>4, KernelSteps DEF CallReturn, At
  <2> QED
    BY <1>t, <2>1, EndsSame DEF Calling, Ending
<1>5. ASSUME NEW t \in Threads, Wait(t) PROVE EndsInv'
  <2>1. /\ Steps(t) /\ UNCHANGED <<state, handle, refs>> /\ t \in Servers
        /\ pc[t] = "wait" /\ pc'[t] \in {"receive", "sleeping"}
    BY <1>5, KernelSteps DEF Wait, At
  <2> QED
    BY <1>t, <2>1, EndsSame DEF Serving, Ending
<1>6. ASSUME NEW t \in Threads, ReceiveRequest(t) PROVE EndsInv'
  <2>1. /\ Steps(t) /\ UNCHANGED <<state, handle, refs>> /\ t \in Servers
        /\ pc[t] = "receive" /\ pc'[t] \in {"leave", "wait", "received"}
    BY <1>6, KernelSteps DEF ReceiveRequest, At
  <2> QED
    BY <1>t, <2>1, EndsSame DEF Serving, Ending
<1>7. ASSUME NEW t \in Threads, SetCurrent(t) PROVE EndsInv'
  <2>1. /\ Steps(t) /\ UNCHANGED <<state, handle, refs>> /\ t \in Servers
        /\ pc[t] = "received" /\ pc'[t] = "receiving"
    BY <1>7, KernelSteps DEF SetCurrent, At
  <2> QED
    BY <1>t, <2>1, EndsSame DEF Serving, Ending
<1>8. ASSUME NEW t \in Threads, ReceiveSucceeds(t) PROVE EndsInv'
  <2>1. /\ Steps(t) /\ UNCHANGED <<state, handle, refs>> /\ t \in Servers
        /\ pc[t] = "receiving" /\ pc'[t] = "leave"
    BY <1>8, KernelSteps DEF ReceiveSucceeds, At
  <2> QED
    BY <1>t, <2>1, EndsSame DEF Serving, Ending
<1>9. ASSUME NEW t \in Threads, ReceiveFails(t) PROVE EndsInv'
  <2>1. /\ Steps(t) /\ UNCHANGED <<state, handle, refs>> /\ t \in Servers
        /\ pc[t] = "receiving" /\ pc'[t] = "refuse"
    BY <1>9, KernelSteps DEF ReceiveFails, At
  <2> QED
    BY <1>t, <2>1, EndsSame DEF Serving, Ending
<1>10. ASSUME NEW t \in Threads, RefuseRequest(t) PROVE EndsInv'
  <2>1. /\ Steps(t) /\ UNCHANGED <<state, handle, refs>> /\ t \in Servers
        /\ pc[t] = "refuse" /\ pc'[t] \in {"wait", "leave"}
    BY <1>10, KernelSteps DEF RefuseRequest, At
  <2> QED
    BY <1>t, <2>1, EndsSame DEF Serving, Ending
<1>11. ASSUME NEW t \in Threads, SendReply(t) PROVE EndsInv'
  <2>1. /\ Steps(t) /\ UNCHANGED <<state, handle, refs>> /\ t \in Servers
        /\ pc[t] = "reply" /\ pc'[t] \in {"leave", "replying"}
    BY <1>11, KernelSteps DEF SendReply, At
  <2> QED
    BY <1>t, <2>1, EndsSame DEF Serving, Ending
<1>12. ASSUME NEW t \in Threads, ReplyToClient(t) PROVE EndsInv'
  <2>1. /\ Steps(t) /\ UNCHANGED <<state, handle, refs>> /\ t \in Servers
        /\ pc[t] = "replying" /\ pc'[t] = "leave"
    BY <1>12, KernelSteps DEF ReplyToClient, At
  <2> QED
    BY <1>t, <2>1, EndsSame DEF Serving, Ending
<1>13. ASSUME NEW t \in Threads, Destroy(t) PROVE EndsInv'
  <2>1. /\ Steps(t) /\ UNCHANGED <<state, handle, refs>> /\ pc[t] = "destroy"
        /\ pc'[t] = IF state = "Normal" THEN "close"
                    ELSE IF t \in Servers THEN "cleanup" ELSE "closed"
    BY <1>13, KernelSteps DEF Destroy, At
  <2> QED
    BY <1>t, <2>1, EndsSame DEF Calling, Serving, Ending
<1>14. ASSUME NEW t \in Threads, DrainCurrent(t) PROVE EndsInv'
  <2>1. /\ Steps(t) /\ UNCHANGED <<state, handle, refs>> /\ t \in Clients
        /\ pc[t] = "drain" /\ pc'[t] = "looked"
    BY <1>14, KernelSteps DEF DrainCurrent, At
  <2> QED
    BY <1>t, <2>1, EndsSame DEF Calling, Ending
<1>15. ASSUME NEW t \in Threads, DrainPending(t) PROVE EndsInv'
  <2>1. /\ Steps(t) /\ UNCHANGED <<state, handle, refs>> /\ t \in Clients
        /\ pc[t] = "drain" /\ pc'[t] = "popped"
    BY <1>15, KernelSteps DEF DrainPending, At
  <2> QED
    BY <1>t, <2>1, EndsSame DEF Calling, Ending
<1>16. ASSUME NEW t \in Threads, DrainEnd(t) PROVE EndsInv'
  <2>1. /\ Steps(t) /\ UNCHANGED <<state, handle, refs>> /\ t \in Clients
        /\ pc[t] = "drain" /\ pc'[t] = "closed"
    BY <1>16, KernelSteps DEF DrainEnd, At
  <2> QED
    BY <1>t, <2>1, EndsSame DEF Calling, Ending
<1>17. ASSUME NEW t \in Threads, LeaveCurrent(t) PROVE EndsInv'
  <2>1. /\ Steps(t) /\ UNCHANGED <<state, handle, refs>> /\ t \in Clients
        /\ pc[t] = "looked" /\ pc'[t] = "drain"
    BY <1>17, KernelSteps DEF LeaveCurrent, At
  <2> QED
    BY <1>t, <2>1, EndsSame DEF Calling, Ending
<1>18. ASSUME NEW t \in Threads, CancelPending(t) PROVE EndsInv'
  <2>1. /\ Steps(t) /\ UNCHANGED <<state, handle, refs>> /\ t \in Clients
        /\ pc[t] = "popped" /\ pc'[t] = "drain"
    BY <1>18, KernelSteps DEF CancelPending, At
  <2> QED
    BY <1>t, <2>1, EndsSame DEF Calling, Ending
<1>19. ASSUME NEW t \in Threads, CleanupTake(t) PROVE EndsInv'
  <2>1. /\ Steps(t) /\ UNCHANGED <<state, handle, refs>> /\ t \in Servers
        /\ pc[t] = "cleanup" /\ pc'[t] \in {"cleaning", "closed"}
    BY <1>19, KernelSteps DEF CleanupTake, At
  <2> QED
    BY <1>t, <2>1, EndsSame DEF Serving, Ending
<1>20. ASSUME NEW t \in Threads, CleanupAnswer(t) PROVE EndsInv'
  <2>1. /\ Steps(t) /\ UNCHANGED <<state, handle, refs>> /\ t \in Servers
        /\ pc[t] = "cleaning" /\ pc'[t] = "cleanup"
    BY <1>20, KernelSteps DEF CleanupAnswer, At
  <2> QED
    BY <1>t, <2>1, EndsSame DEF Serving, Ending
<1> QED
  BY <1>g, <1>h, <1>i, <1>j, <1>k, <1>s, <1>1, <1>2, <1>3, <1>4, <1>5, <1>6, <1>7, <1>8, <1>9, <1>10, <1>11, <1>12, <1>13, <1>14, <1>15, <1>16, <1>17, <1>18, <1>19, <1>20
     DEF Next, Guest, Kernel

-----------------------------------------------------------------------------
(* The client threads.                                                     *)

R == {"received", "receiving", "refuse"}
Receiving(u) == \E s \in Servers : Receiver(s, u)
Taken(u) == \E k \in Threads : victim[k] = u

\* Nothing refers to a request without references.
LEMMA Unreferenced ==
    ASSUME Types, QueueInv, NEW r \in Requests
    PROVE  /\ rrefs[r] \in Nat
           /\ rrefs[r] = 0 => ~Owned(r) /\ ~InLine(r) /\ \A k \in Threads : hand[k] # r
<1>1. rrefs[r] = One(Owned(r)) + One(Listed(r)) + One(current = r) + One(Held(r))
  BY DEF QueueInv, PlacesCounted
<1>2. rrefs[r] \in Nat
  BY <1>1 DEF One
<1>3. ASSUME rrefs[r] = 0 PROVE ~Owned(r) /\ ~InLine(r) /\ \A k \in Threads : hand[k] # r
  <2>1. ~Owned(r) /\ ~Listed(r) /\ current # r /\ ~Held(r)
    BY <1>1, <1>3 DEF One
  <2>2. ASSUME NEW k \in Threads, hand[k] = r PROVE FALSE
    <3>1. pc[k] = "receiving"
      BY <2>1, <2>2 DEF Held
    <3> QED
      BY <2>1, <2>2, <3>1, SessionAssumption DEF QueueInv, PlacesDistinct
  <2> QED
    BY <2>1, <2>2 DEF InLine
<1> QED
  BY <1>2, <1>3

\* The same of a request that a step leaves without references.
LEMMA Freed ==
    ASSUME Types', QueueInv', NEW r \in Requests, rrefs'[r] = 0
    PROVE  ~Owned(r)' /\ ~Listed(r)' /\ \A k \in Threads : hand'[k] # r
<1>1. rrefs'[r] = One(Owned(r)') + One(Listed(r)') + One(current' = r) + One(Held(r)')
  BY DEF QueueInv, PlacesCounted
<1>2. ~Owned(r)' /\ ~Listed(r)' /\ current' # r /\ ~Held(r)'
  BY <1>1 DEF One
<1>3. ASSUME NEW k \in Threads, hand'[k] = r PROVE FALSE
  <2>1. pc'[k] = "receiving"
    BY <1>2, <1>3 DEF Held
  <2> QED
    BY <1>2, <1>3, <2>1, SessionAssumption DEF QueueInv, PlacesDistinct
<1> QED
  BY <1>2, <1>3

\* A step of a thread that receives no request, neither before nor after.
LEMMA ReceiversStay ==
    ASSUME Types, HandsLocked, NEW t \in Threads, Steps(t),
           \/ hand' = hand
           \/ /\ pc[t] \notin R /\ pc'[t] \notin R
              /\ \A u \in Threads \ {t} : hand'[u] = hand[u],
           pc'[t] \in R <=> pc[t] \in R
    PROVE  \A s \in Servers : /\ pc'[s] \in R <=> pc[s] \in R
                              /\ pc[s] \in R => hand'[s] = hand[s]
BY Bystanders DEF R, Threads, Busy

LEMMA ReceivingSame ==
    ASSUME \A s \in Servers : /\ pc'[s] \in R <=> pc[s] \in R
                              /\ pc[s] \in R => hand'[s] = hand[s] /\ thread'[hand[s]] = thread[hand[s]]
    PROVE  \A u : Receiving(u)' <=> Receiving(u)
BY DEF Receiving, Receiver, R

\* Who has m_lock is alone to receive, and to take a thread out of its request.
LEMMA ReceivingAlone ==
    ASSUME Types, Types', HandsLocked, HandsLocked', NEW t \in Threads,
           lock \in {Nobody, t}, lock' \in {Nobody, t}
    PROVE  /\ \A u : /\ Receiving(u) <=> t \in Servers /\ pc[t] \in R /\ thread[hand[t]] = u
                     /\ Receiving(u)' <=> t \in Servers /\ pc'[t] \in R /\ thread'[hand'[t]] = u
           /\ \A u \in Clients : /\ Taken(u) <=> victim[t] = u
                                 /\ Taken(u)' <=> victim'[t] = u
<1>1. \A k \in Threads : /\ pc[k] \in Busy => k = t
                         /\ pc'[k] \in Busy => k = t
                         /\ victim[k] # Nobody => k = t
                         /\ victim'[k] # Nobody => k = t
  BY SessionAssumption DEF HandsLocked, Busy, Threads
<1>2. \A u : /\ Receiving(u) <=> t \in Servers /\ pc[t] \in R /\ thread[hand[t]] = u
             /\ Receiving(u)' <=> t \in Servers /\ pc'[t] \in R /\ thread'[hand'[t]] = u
  BY <1>1 DEF Receiving, Receiver, R, Busy, Threads
<1>3. \A u \in Clients : (Taken(u) <=> victim[t] = u) /\ (Taken(u)' <=> victim'[t] = u)
  BY <1>1, SessionAssumption DEF Taken
<1> QED
  BY <1>2, <1>3

\* A step that keeps the requests' threads.
LEMMA ThreadsSame ==
    ASSUME Types, Types', QueueInv, ThreadsInv,
           UNCHANGED <<thread, event, own>>, terminating \subseteq terminating',
           \A q \in Requests : /\ rrefs'[q] = 0 => rrefs[q] = 0
                               /\ Listed(q)' => Listed(q) \/ thread[q] \in Clients,
           \A s \in Servers : pc'[s] \in R => thread[hand'[s]] \in Clients,
           \A u \in Clients : trefs'[u] = trefs[u] + One(Receiving(u)') - One(Receiving(u))
                                          + One(Taken(u)') - One(Taken(u))
    PROVE  ThreadsInv'
<1> USE DEF ThreadsInv
<1>1. ThreadsCounted'
  <2> SUFFICES ASSUME NEW u \in Clients
               PROVE  trefs'[u] = Cardinality(RequestsOf(u))' + One(Receiving(u)') + One(Taken(u)')
    BY DEF ThreadsCounted, Receiving, Taken
  <2>1. RequestsOf(u)' = RequestsOf(u)
    BY DEF RequestsOf
  <2>2. IsFiniteSet(RequestsOf(u))
    BY SessionAssumption, FS_Subset DEF RequestsOf
  <2>3. Cardinality(RequestsOf(u)) \in Nat
    BY <2>2, FS_CardinalityType
  <2>4. trefs[u] = Cardinality(RequestsOf(u)) + One(Receiving(u)) + One(Taken(u))
    BY DEF ThreadsCounted, Receiving, Taken
  <2> QED
    BY <2>1, <2>3, <2>4 DEF One
<1>2. RequestsOwned'
  BY DEF RequestsOwned, R
<1> QED
  BY <1>1, <1>2

\* A request that loses its thread.
LEMMA RequestsOfLost ==
    ASSUME Types, NEW r \in Requests, NEW u \in Clients,
           thread' = [thread EXCEPT ![r] = Nobody]
    PROVE  /\ Cardinality(RequestsOf(u)) \in Nat
           /\ Cardinality(RequestsOf(u))' = Cardinality(RequestsOf(u)) - One(thread[r] = u)
<1>1. /\ RequestsOf(u)' \ {r} = RequestsOf(u) \ {r}
      /\ r \notin RequestsOf(u)'
      /\ r \in RequestsOf(u) <=> thread[r] = u
  BY SessionAssumption DEF RequestsOf, Types
<1>2. IsFiniteSet(RequestsOf(u))
  BY SessionAssumption, FS_Subset DEF RequestsOf
<1>3. /\ Cardinality(RequestsOf(u)) \in Nat
      /\ Cardinality(RequestsOf(u)') = Cardinality(RequestsOf(u)) + One(r \in RequestsOf(u)')
                                       - One(r \in RequestsOf(u))
  BY <1>1, <1>2, OneMore
<1> QED
  BY <1>1, <1>3 DEF One

\* A request that is closed, by a thread that also closes the threads in also.
LEMMA CloseThreads ==
    ASSUME Types, NEW r \in Requests, NEW also, CloseRequest(r, also), NEW u \in Clients
    PROVE  /\ Cardinality(RequestsOf(u)) \in Nat
           /\ trefs'[u] - Cardinality(RequestsOf(u))'
              = trefs[u] - Cardinality(RequestsOf(u)) - One(u \in also)
<1>1. IsFiniteSet(RequestsOf(u))
  BY SessionAssumption, FS_Subset DEF RequestsOf
<1>2. Cardinality(RequestsOf(u)) \in Nat /\ trefs[u] \in Int
  BY <1>1, FS_CardinalityType DEF Types
<1>3. CASE rrefs[r] = 1
  <2>1. thread' = [thread EXCEPT ![r] = Nobody]
    BY <1>3 DEF CloseRequest
  <2>2. trefs'[u] = trefs[u] - (One(thread[r] = u) + One(u \in also))
    BY <1>3 DEF CloseRequest, One
  <2>3. Cardinality(RequestsOf(u))' = Cardinality(RequestsOf(u)) - One(thread[r] = u)
    BY <2>1, RequestsOfLost
  <2> QED
    BY <1>2, <2>2, <2>3 DEF One
<1>4. CASE rrefs[r] # 1
  <2>1. RequestsOf(u)' = RequestsOf(u)
    BY <1>4 DEF CloseRequest, RequestsOf
  <2>2. trefs'[u] = trefs[u] - (0 + One(u \in also))
    BY <1>4 DEF CloseRequest, One
  <2> QED
    BY <1>2, <2>1, <2>2 DEF One
<1> QED
  BY <1>2, <1>3, <1>4

\* A step that closes a request.
LEMMA ThreadsClosed ==
    ASSUME Types, Types', QueueInv, QueueInv', ThreadsInv, NEW r \in Requests, NEW also,
           CloseRequest(r, also), UNCHANGED <<own, terminating>>,
           \A q \in Requests : Listed(q)' => Listed(q),
           \A s \in Servers : pc'[s] \in R => pc[s] \in R /\ hand'[s] = hand[s],
           \A u \in Clients : One(u \in also) = One(Receiving(u)) - One(Receiving(u)')
                                                + One(Taken(u)) - One(Taken(u)')
    PROVE  ThreadsInv'
<1> USE DEF ThreadsInv
<1>1. ThreadsCounted'
  <2> SUFFICES ASSUME NEW u \in Clients
               PROVE  trefs'[u] = Cardinality(RequestsOf(u))' + One(Receiving(u)') + One(Taken(u)')
    BY DEF ThreadsCounted, Receiving, Taken
  <2>1. trefs[u] = Cardinality(RequestsOf(u)) + One(Receiving(u)) + One(Taken(u))
    BY DEF ThreadsCounted, Receiving, Taken
  <2>2. /\ Cardinality(RequestsOf(u)) \in Nat
        /\ trefs'[u] - Cardinality(RequestsOf(u))'
           = trefs[u] - Cardinality(RequestsOf(u)) - One(u \in also)
    BY CloseThreads
  <2>3. Cardinality(RequestsOf(u)') \in Nat
    <3>1. IsFiniteSet(RequestsOf(u)')
      BY SessionAssumption, FS_Subset DEF RequestsOf
    <3> QED
      BY <3>1, FS_CardinalityType
  <2>4. trefs'[u] \in Int /\ trefs[u] \in Int
    BY DEF Types
  <2> QED
    BY <2>1, <2>2, <2>3, <2>4 DEF One
<1>2. /\ \A q \in Requests : q # r \/ rrefs[r] # 1 =>
            thread'[q] = thread[q] /\ event'[q] = event[q] /\ (rrefs'[q] = 0 => rrefs[q] = 0)
      /\ rrefs[r] = 1 => thread'[r] = Nobody /\ rrefs'[r] = 0
      /\ rrefs[r] \in Int
  <2>1. /\ rrefs[r] \in Int /\ rrefs'[r] = rrefs[r] - 1
        /\ \A q \in Requests \ {r} : rrefs'[q] = rrefs[q]
    BY DEF CloseRequest, Types
  <2>2. CASE rrefs[r] = 1
    BY <2>1, <2>2 DEF CloseRequest, Types
  <2>3. CASE rrefs[r] # 1
    <3>1. thread' = thread /\ event' = event
      BY <2>3 DEF CloseRequest
    <3> QED
      BY <2>1, <2>3, <3>1
  <2> QED
    BY <2>2, <2>3
<1>3. rrefs[r] = 1 => ~Owned(r)' /\ ~Listed(r)' /\ \A k \in Threads : hand'[k] # r
  BY <1>2, Freed
<1>4. RequestsOwned'
  <2>1. \A q \in Requests :
           /\ rrefs'[q] = 0 => thread'[q] = Nobody
           /\ Listed(q)' => thread'[q] \in Clients
           /\ thread'[q] # Nobody /\ ~event'[q] =>
                 own'[thread'[q]] = q \/ thread'[q] \in terminating'
    BY <1>2, <1>3 DEF RequestsOwned
  <2>2. \A u \in Clients : own'[u] # NoRequest => thread'[own'[u]] = u
    BY <1>2, <1>3 DEF RequestsOwned, Owned, Types
  <2>3. \A s \in Servers : pc'[s] \in R => thread'[hand'[s]] \in Clients
    <3> SUFFICES ASSUME NEW s \in Servers, pc'[s] \in R PROVE thread'[hand'[s]] \in Clients
      OBVIOUS
    <3>1. /\ thread[hand[s]] \in Clients /\ hand'[s] = hand[s] /\ hand[s] \in Requests
          /\ rrefs[r] = 1 => hand[s] # r
      BY <1>3 DEF RequestsOwned, R, Types, QueueInv, HandsLocked, Busy, Threads
    <3> QED
      BY <1>2, <3>1
  <2> QED
    BY <2>1, <2>2, <2>3 DEF RequestsOwned, R
<1> QED
  BY <1>1, <1>4

\* A step that neither gives nor takes a client thread.
LEMMA ThreadsQuiet ==
    ASSUME Types, Types', QueueInv, ThreadsInv, NEW t \in Threads, Steps(t),
           UNCHANGED <<thread, event, own, trefs, victim>>, terminating \subseteq terminating',
           \A q \in Requests : /\ rrefs'[q] = rrefs[q] \/ rrefs'[q] = rrefs[q] + 1
                               /\ Listed(q)' => Listed(q) \/ thread[q] \in Clients,
           \/ hand' = hand
           \/ /\ pc[t] \notin R /\ pc'[t] \notin R
              /\ \A u \in Threads \ {t} : hand'[u] = hand[u],
           pc'[t] \in R <=> pc[t] \in R
    PROVE  ThreadsInv'
<1>1. \A s \in Servers : /\ pc'[s] \in R <=> pc[s] \in R
                         /\ pc[s] \in R => hand'[s] = hand[s]
  BY ReceiversStay DEF QueueInv
<1>2. \A u : Receiving(u)' <=> Receiving(u)
  BY <1>1, ReceivingSame
<1>3. \A u : Taken(u)' <=> Taken(u)
  BY DEF Taken
<1>4. \A q \in Requests : rrefs'[q] = 0 => rrefs[q] = 0
  BY Unreferenced
<1>5. \A s \in Servers : pc'[s] \in R => thread[hand'[s]] \in Clients
  BY <1>1 DEF ThreadsInv, RequestsOwned, R
<1>6. \A u \in Clients : trefs'[u] = trefs[u] + One(Receiving(u)') - One(Receiving(u))
                                     + One(Taken(u)') - One(Taken(u))
  <2> SUFFICES ASSUME NEW u \in Clients
               PROVE  trefs'[u] = trefs[u] + One(Receiving(u)') - One(Receiving(u))
                                  + One(Taken(u)') - One(Taken(u))
    OBVIOUS
  <2>1. One(Receiving(u)') = One(Receiving(u)) /\ One(Taken(u)') = One(Taken(u))
    BY <1>2, <1>3 DEF One
  <2>2. One(Receiving(u)) \in Int /\ One(Taken(u)) \in Int
    BY DEF One
  <2>3. trefs'[u] = trefs[u] /\ trefs[u] \in Int
    BY DEF Types
  <2> QED
    BY <2>1, <2>2, <2>3
<1> QED
  BY <1>4, <1>5, <1>6, ThreadsSame

LEMMA QuietThreads ==
    ASSUME Types, Types', QueueInv, QueueInv', ThreadsInv, NEW t \in Threads,
           \/ t \in Clients /\ (SendFails(t) \/ RequestTerminate(t))
           \/ \E e \in {"client", "server"} : CloseHandle(t, e)
           \/ t \in Servers /\ \E what \in {"wait", "reply"} : ServerCall(t, what)
           \/ t \in Servers /\ WaitTimeout(t)
           \/ OnRequest(t) \/ CallLeave(t) \/ Wait(t)
           \/ ReceiveRequest(t) /\ (state # "Normal" \/ current # NoRequest \/ list = <<>>)
           \/ SetCurrent(t) \/ ReceiveFails(t) \/ SendReply(t)
           \/ ServerLeave(t) \/ Destroy(t) \/ SetState(t)
           \/ DrainPending(t) \/ DrainEnd(t) \/ CleanupTake(t) \/ CloseParent(t)
    PROVE  ThreadsInv'
<1> USE DEF At, sessionVars, queueVars, requestVars, localVars, R
<1>a. HandsLocked
  BY DEF QueueInv
<1>g. CASE t \in Clients /\ SendFails(t)
  <2>1. /\ UNCHANGED <<list, rrefs, thread, event, own, trefs, victim, terminating, hand>>
        /\ Steps(t) /\ pc[t] = "idle" /\ pc'[t] = "leave"
    BY <1>g, <1>a, GuestSteps DEF SendFails
  <2> QED
    BY <2>1, ThreadsQuiet DEF Listed
<1>h. CASE t \in Clients /\ RequestTerminate(t)
  <2>1. /\ UNCHANGED <<list, rrefs, thread, event, own, trefs, victim, hand>>
        /\ terminating \subseteq terminating' /\ Steps(t)
        /\ \/ pc'[t] = pc[t]
           \/ pc[t] = "waiting" /\ pc'[t] = "return"
           \/ pc[t] = "idle" /\ pc'[t] = "dead"
    BY <1>h, GuestSteps DEF RequestTerminate
  <2>2. pc'[t] \in R <=> pc[t] \in R
    BY <2>1
  <2> QED
    BY <2>1, <2>2, ThreadsQuiet DEF Listed
<1>1. CASE OnRequest(t)
  <2>1. /\ UNCHANGED <<thread, event, own, trefs, victim, hand, terminating>>
        /\ Steps(t) /\ pc[t] = "send" /\ pc'[t] \in {"return", "waiting"}
    BY <1>1, <1>a, KernelSteps DEF OnRequest
  <2>2. t \in Clients /\ own[t] \in Requests /\ thread[own[t]] = t
    BY <1>a, <2>1, Requested, SessionAssumption DEF QueueInv, ThreadsInv, RequestsOwned
  <2>3. \/ UNCHANGED <<list, rrefs>>
        \/ list' = Append(list, own[t]) /\ rrefs' = [rrefs EXCEPT ![own[t]] = @ + 1]
    BY <1>1 DEF OnRequest
  <2>4. \A q \in Requests : Listed(q)' => Listed(q) \/ thread[q] \in Clients
    <3>1. CASE UNCHANGED <<list, rrefs>>
      BY <3>1 DEF Listed
    <3>2. CASE list' = Append(list, own[t])
      BY <2>2, <3>2, ListAppend
    <3> QED
      BY <2>3, <3>1, <3>2
  <2>5. \A q \in Requests : rrefs'[q] = rrefs[q] \/ rrefs'[q] = rrefs[q] + 1
    BY <2>2, <2>3 DEF Types
  <2> QED
    BY <2>1, <2>4, <2>5, ThreadsQuiet
<1>i. ASSUME NEW e \in {"client", "server"}, CloseHandle(t, e) PROVE ThreadsInv'
  <2>1. /\ UNCHANGED <<list, rrefs, thread, event, own, trefs, victim, terminating, hand>>
        /\ Steps(t) /\ pc[t] = "idle" /\ pc'[t] \in {"destroy", "idle"}
    BY <1>i, <1>a, GuestSteps DEF CloseHandle
  <2> QED
    BY <2>1, ThreadsQuiet DEF Listed
<1>j. ASSUME t \in Servers, NEW what \in {"wait", "reply"}, ServerCall(t, what) PROVE ThreadsInv'
  <2>1. /\ UNCHANGED <<list, rrefs, thread, event, own, trefs, victim, terminating, hand>>
        /\ Steps(t) /\ pc[t] = "idle" /\ pc'[t] \in {"wait", "reply"}
    BY <1>j, <1>a, GuestSteps DEF ServerCall
  <2> QED
    BY <2>1, ThreadsQuiet DEF Listed
<1>k. CASE t \in Servers /\ WaitTimeout(t)
  <2>1. /\ UNCHANGED <<list, rrefs, thread, event, own, trefs, victim, terminating, hand>>
        /\ Steps(t) /\ pc[t] = "sleeping" /\ pc'[t] = "leave"
    BY <1>k, <1>a, GuestSteps DEF WaitTimeout
  <2> QED
    BY <2>1, ThreadsQuiet DEF Listed
<1>2. CASE CallLeave(t)
  <2>1. /\ UNCHANGED <<list, rrefs, thread, event, own, trefs, victim, terminating, hand>>
        /\ Steps(t) /\ pc[t] = "leave" /\ pc'[t] \in {"destroy", "idle", "dead"}
    BY <1>2, <1>a, KernelSteps DEF CallLeave, Home
  <2> QED
    BY <2>1, ThreadsQuiet DEF Listed
<1>3. CASE Wait(t)
  <2>1. /\ UNCHANGED <<list, rrefs, thread, event, own, trefs, victim, terminating, hand>>
        /\ Steps(t) /\ pc[t] = "wait" /\ pc'[t] \in {"receive", "sleeping"}
    BY <1>3, <1>a, KernelSteps DEF Wait
  <2> QED
    BY <2>1, ThreadsQuiet DEF Listed
<1>4. CASE ReceiveRequest(t) /\ (state # "Normal" \/ current # NoRequest \/ list = <<>>)
  <2>1. /\ UNCHANGED <<list, rrefs, thread, event, own, trefs, victim, terminating, hand>>
        /\ Steps(t) /\ pc[t] = "receive" /\ pc'[t] \in {"leave", "wait"}
    BY <1>4, <1>a, KernelSteps DEF ReceiveRequest
  <2> QED
    BY <2>1, ThreadsQuiet DEF Listed
<1>5. CASE SetCurrent(t)
  <2>1. /\ UNCHANGED <<list, rrefs, thread, event, own, trefs, victim, terminating, hand>>
        /\ Steps(t) /\ pc[t] = "received" /\ pc'[t] = "receiving"
    BY <1>5, <1>a, KernelSteps DEF SetCurrent
  <2> QED
    BY <2>1, ThreadsQuiet DEF Listed
<1>6. CASE ReceiveFails(t)
  <2>1. /\ UNCHANGED <<list, rrefs, thread, event, own, trefs, victim, terminating, hand>>
        /\ Steps(t) /\ pc[t] = "receiving" /\ pc'[t] = "refuse"
    BY <1>6, <1>a, KernelSteps DEF ReceiveFails
  <2> QED
    BY <2>1, ThreadsQuiet DEF Listed
<1>7. CASE SendReply(t)
  <2>1. /\ UNCHANGED <<list, rrefs, thread, event, own, trefs, victim, terminating>>
        /\ Steps(t) /\ pc[t] = "reply" /\ pc'[t] \in {"leave", "replying"}
    BY <1>7, <1>a, KernelSteps DEF SendReply
  <2>2. \A u \in Threads \ {t} : hand'[u] = hand[u]
    BY <1>7 DEF SendReply, Types
  <2> QED
    BY <2>1, <2>2, ThreadsQuiet DEF Listed
<1>8. CASE ServerLeave(t)
  <2>1. /\ UNCHANGED <<list, rrefs, thread, event, own, trefs, victim, terminating, hand>>
        /\ Steps(t) /\ pc[t] = "leave" /\ pc'[t] \in {"destroy", "idle"}
    BY <1>8, <1>a, KernelSteps DEF ServerLeave
  <2> QED
    BY <2>1, ThreadsQuiet DEF Listed
<1>9. CASE Destroy(t)
  <2>1. /\ UNCHANGED <<list, rrefs, thread, event, own, trefs, victim, terminating, hand>>
        /\ Steps(t) /\ pc[t] = "destroy" /\ pc'[t] \in {"close", "cleanup", "closed"}
    BY <1>9, <1>a, KernelSteps DEF Destroy
  <2> QED
    BY <2>1, ThreadsQuiet DEF Listed
<1>10. CASE SetState(t)
  <2>1. /\ UNCHANGED <<list, rrefs, thread, event, own, trefs, victim, terminating, hand>>
        /\ Steps(t) /\ pc[t] = "close" /\ pc'[t] \in {"cleanup", "drain"}
    BY <1>10, <1>a, KernelSteps DEF SetState
  <2> QED
    BY <2>1, ThreadsQuiet DEF Listed
<1>11. CASE DrainPending(t)
  <2>1. /\ UNCHANGED <<rrefs, thread, event, own, trefs, victim, terminating>>
        /\ Steps(t) /\ pc[t] = "drain" /\ pc'[t] = "popped"
    BY <1>11, <1>a, KernelSteps DEF DrainPending
  <2>2. \A u \in Threads \ {t} : hand'[u] = hand[u]
    BY <1>11 DEF DrainPending, Types
  <2>3. list' = list \/ (list # <<>> /\ list' = Tail(list))
    BY <1>11 DEF DrainPending
  <2>4. \A q \in Requests : Listed(q)' => Listed(q)
    BY <2>3, ListTake DEF Listed
  <2> QED
    BY <2>1, <2>2, <2>4, ThreadsQuiet
<1>12. CASE DrainEnd(t)
  <2>1. /\ UNCHANGED <<list, rrefs, thread, event, own, trefs, victim, terminating, hand>>
        /\ Steps(t) /\ pc[t] = "drain" /\ pc'[t] = "closed"
    BY <1>12, <1>a, KernelSteps DEF DrainEnd
  <2> QED
    BY <2>1, ThreadsQuiet DEF Listed
<1>13. CASE CleanupTake(t)
  <2>1. /\ UNCHANGED <<rrefs, thread, event, own, trefs, victim, terminating>>
        /\ Steps(t) /\ pc[t] = "cleanup" /\ pc'[t] \in {"cleaning", "closed"}
    BY <1>13, <1>a, KernelSteps DEF CleanupTake
  <2>2. \A u \in Threads \ {t} : hand'[u] = hand[u]
    BY <1>13 DEF CleanupTake, Types
  <2>3. list' = list \/ (list # <<>> /\ list' = Tail(list))
    BY <1>13 DEF CleanupTake
  <2>4. \A q \in Requests : Listed(q)' => Listed(q)
    BY <2>3, ListTake DEF Listed
  <2> QED
    BY <2>1, <2>2, <2>4, ThreadsQuiet
<1>14. CASE CloseParent(t)
  <2>1. /\ UNCHANGED <<list, rrefs, thread, event, own, trefs, victim, terminating, hand>>
        /\ Steps(t) /\ pc[t] = "closed" /\ pc'[t] \in {"idle", "dead"}
    BY <1>14, <1>a, KernelSteps DEF CloseParent, Home
  <2> QED
    BY <2>1, ThreadsQuiet DEF Listed
<1> QED
  BY <1>g, <1>h, <1>i, <1>j, <1>k, <1>2, <1>3, <1>4, <1>5, <1>6, <1>7, <1>8, <1>9, <1>10, <1>11, <1>12, <1>13, <1>14, <1>1

\* The steps that close a request, and the threads they open.
LEMMA ClosingThreads ==
    ASSUME Types, Types', QueueInv, QueueInv', ThreadsInv, NEW t \in Threads,
           \/ RefuseRequest(t) \/ ReplyToClient(t) \/ LeaveCurrent(t) \/ CancelPending(t)
           \/ CleanupAnswer(t)
    PROVE  ThreadsInv'
<1> USE DEF At, queueVars, R
<1>a. HandsLocked /\ HandsLocked' /\ CallsOwn
  BY DEF QueueInv
<1>1. CASE RefuseRequest(t)
  <2>1. /\ Steps(t) /\ pc[t] = "refuse" /\ pc'[t] \in {"wait", "leave"} /\ t \in Servers
        /\ UNCHANGED <<list, own, terminating>>
        /\ CloseRequest(hand[t], {thread[hand[t]]})
    BY <1>1, <1>a, KernelSteps DEF RefuseRequest
  <2>2. /\ hand[t] \in Requests /\ lock = t /\ lock' \in {Nobody, t}
        /\ victim'[t] = Nobody /\ (pc[t] # "looked" => victim[t] = Nobody)
    BY <1>1, <1>a, <2>1, Requested DEF HandsLocked, Busy, RefuseRequest
  <2>3. \A s \in Servers : pc'[s] \in R => pc[s] \in R /\ hand'[s] = hand[s]
    <3>1. \A s \in Servers : pc'[s] \notin R
      BY <1>a, <2>1, <2>2, Bystanders, LockAlone DEF Busy, Threads
    <3> QED
      BY <3>1
  <2>4. \A u \in Clients : One(u \in {thread[hand[t]]}) = One(Receiving(u)) - One(Receiving(u)')
                                                + One(Taken(u)) - One(Taken(u)')
    <3> SUFFICES ASSUME NEW u \in Clients
                 PROVE  One(u \in {thread[hand[t]]}) = One(Receiving(u)) - One(Receiving(u)')
                                              + One(Taken(u)) - One(Taken(u)')
      OBVIOUS
    <3>1. /\ Receiving(u) <=> t \in Servers /\ pc[t] \in R /\ thread[hand[t]] = u
          /\ Receiving(u)' <=> t \in Servers /\ pc'[t] \in R /\ thread'[hand'[t]] = u
          /\ Taken(u) <=> victim[t] = u
          /\ Taken(u)' <=> victim'[t] = u
      BY <1>a, <2>2, ReceivingAlone
    <3> QED
      BY <2>1, <2>2, <3>1, Sides, SessionAssumption DEF One
  <2> QED
    BY <2>1, <2>2, <2>3, <2>4, ThreadsClosed DEF Listed
<1>2. CASE ReplyToClient(t)
  <2>1. /\ Steps(t) /\ pc[t] = "replying" /\ pc'[t] = "leave" /\ t \in Servers
        /\ UNCHANGED <<list, own, terminating>>
        /\ CloseRequest(hand[t], {})
    BY <1>2, <1>a, KernelSteps DEF ReplyToClient
  <2>2. /\ hand[t] \in Requests /\ lock = t /\ lock' \in {Nobody, t}
        /\ victim'[t] = Nobody /\ (pc[t] # "looked" => victim[t] = Nobody)
    BY <1>2, <1>a, <2>1, Requested DEF HandsLocked, Busy, ReplyToClient
  <2>3. \A s \in Servers : pc'[s] \in R => pc[s] \in R /\ hand'[s] = hand[s]
    <3>1. \A s \in Servers : pc'[s] \notin R
      BY <1>a, <2>1, <2>2, Bystanders, LockAlone DEF Busy, Threads
    <3> QED
      BY <3>1
  <2>4. \A u \in Clients : One(u \in {}) = One(Receiving(u)) - One(Receiving(u)')
                                                + One(Taken(u)) - One(Taken(u)')
    <3> SUFFICES ASSUME NEW u \in Clients
                 PROVE  One(u \in {}) = One(Receiving(u)) - One(Receiving(u)')
                                              + One(Taken(u)) - One(Taken(u)')
      OBVIOUS
    <3>1. /\ Receiving(u) <=> t \in Servers /\ pc[t] \in R /\ thread[hand[t]] = u
          /\ Receiving(u)' <=> t \in Servers /\ pc'[t] \in R /\ thread'[hand'[t]] = u
          /\ Taken(u) <=> victim[t] = u
          /\ Taken(u)' <=> victim'[t] = u
      BY <1>a, <2>2, ReceivingAlone
    <3> QED
      BY <2>1, <2>2, <3>1, Sides, SessionAssumption DEF One
  <2> QED
    BY <2>1, <2>2, <2>3, <2>4, ThreadsClosed DEF Listed
<1>3. CASE LeaveCurrent(t)
  <2>1. /\ Steps(t) /\ pc[t] = "looked" /\ pc'[t] = "drain" /\ t \in Clients
        /\ UNCHANGED <<list, own, terminating>>
        /\ CloseRequest(hand[t], {victim[t]})
    BY <1>3, <1>a, KernelSteps DEF LeaveCurrent
  <2>2. /\ hand[t] \in Requests /\ lock = t /\ lock' \in {Nobody, t}
        /\ victim'[t] = Nobody /\ (pc[t] # "looked" => victim[t] = Nobody)
    BY <1>3, <1>a, <2>1, Requested DEF HandsLocked, Busy, LeaveCurrent
  <2>3. \A s \in Servers : pc'[s] \in R => pc[s] \in R /\ hand'[s] = hand[s]
    <3>1. \A s \in Servers : pc'[s] \notin R
      BY <1>a, <2>1, <2>2, Bystanders, LockAlone DEF Busy, Threads
    <3> QED
      BY <3>1
  <2>4. \A u \in Clients : One(u \in {victim[t]}) = One(Receiving(u)) - One(Receiving(u)')
                                                + One(Taken(u)) - One(Taken(u)')
    <3> SUFFICES ASSUME NEW u \in Clients
                 PROVE  One(u \in {victim[t]}) = One(Receiving(u)) - One(Receiving(u)')
                                              + One(Taken(u)) - One(Taken(u)')
      OBVIOUS
    <3>1. /\ Receiving(u) <=> t \in Servers /\ pc[t] \in R /\ thread[hand[t]] = u
          /\ Receiving(u)' <=> t \in Servers /\ pc'[t] \in R /\ thread'[hand'[t]] = u
          /\ Taken(u) <=> victim[t] = u
          /\ Taken(u)' <=> victim'[t] = u
      BY <1>a, <2>2, ReceivingAlone
    <3> QED
      BY <2>1, <2>2, <3>1, Sides, SessionAssumption DEF One
  <2> QED
    BY <2>1, <2>2, <2>3, <2>4, ThreadsClosed DEF Listed
<1>4. CASE CancelPending(t)
  <2>1. /\ Steps(t) /\ pc[t] = "popped" /\ pc'[t] = "drain" /\ t \in Clients
        /\ UNCHANGED <<list, own, terminating>>
        /\ CloseRequest(hand[t], {})
    BY <1>4, <1>a, KernelSteps DEF CancelPending
  <2>2. /\ hand[t] \in Requests /\ lock = t /\ lock' \in {Nobody, t}
        /\ victim'[t] = Nobody /\ (pc[t] # "looked" => victim[t] = Nobody)
    BY <1>4, <1>a, <2>1, Requested DEF HandsLocked, Busy, CancelPending
  <2>3. \A s \in Servers : pc'[s] \in R => pc[s] \in R /\ hand'[s] = hand[s]
    <3>1. \A s \in Servers : pc'[s] \notin R
      BY <1>a, <2>1, <2>2, Bystanders, LockAlone DEF Busy, Threads
    <3> QED
      BY <3>1
  <2>4. \A u \in Clients : One(u \in {}) = One(Receiving(u)) - One(Receiving(u)')
                                                + One(Taken(u)) - One(Taken(u)')
    <3> SUFFICES ASSUME NEW u \in Clients
                 PROVE  One(u \in {}) = One(Receiving(u)) - One(Receiving(u)')
                                              + One(Taken(u)) - One(Taken(u)')
      OBVIOUS
    <3>1. /\ Receiving(u) <=> t \in Servers /\ pc[t] \in R /\ thread[hand[t]] = u
          /\ Receiving(u)' <=> t \in Servers /\ pc'[t] \in R /\ thread'[hand'[t]] = u
          /\ Taken(u) <=> victim[t] = u
          /\ Taken(u)' <=> victim'[t] = u
      BY <1>a, <2>2, ReceivingAlone
    <3> QED
      BY <2>1, <2>2, <3>1, Sides, SessionAssumption DEF One
  <2> QED
    BY <2>1, <2>2, <2>3, <2>4, ThreadsClosed DEF Listed
<1>5. CASE CleanupAnswer(t)
  <2>1. /\ Steps(t) /\ pc[t] = "cleaning" /\ pc'[t] = "cleanup" /\ t \in Servers
        /\ UNCHANGED <<list, own, terminating>>
        /\ CloseRequest(hand[t], {})
    BY <1>5, <1>a, KernelSteps DEF CleanupAnswer
  <2>2. /\ hand[t] \in Requests /\ lock = t /\ lock' \in {Nobody, t}
        /\ victim'[t] = Nobody /\ (pc[t] # "looked" => victim[t] = Nobody)
    BY <1>5, <1>a, <2>1, Requested DEF HandsLocked, Busy, CleanupAnswer
  <2>3. \A s \in Servers : pc'[s] \in R => pc[s] \in R /\ hand'[s] = hand[s]
    <3>1. \A s \in Servers : pc'[s] \notin R
      BY <1>a, <2>1, <2>2, Bystanders, LockAlone DEF Busy, Threads
    <3> QED
      BY <3>1
  <2>4. \A u \in Clients : One(u \in {}) = One(Receiving(u)) - One(Receiving(u)')
                                                + One(Taken(u)) - One(Taken(u)')
    <3> SUFFICES ASSUME NEW u \in Clients
                 PROVE  One(u \in {}) = One(Receiving(u)) - One(Receiving(u)')
                                              + One(Taken(u)) - One(Taken(u)')
      OBVIOUS
    <3>1. /\ Receiving(u) <=> t \in Servers /\ pc[t] \in R /\ thread[hand[t]] = u
          /\ Receiving(u)' <=> t \in Servers /\ pc'[t] \in R /\ thread'[hand'[t]] = u
          /\ Taken(u) <=> victim[t] = u
          /\ Taken(u)' <=> victim'[t] = u
      BY <1>a, <2>2, ReceivingAlone
    <3> QED
      BY <2>1, <2>2, <3>1, Sides, SessionAssumption DEF One
  <2> QED
    BY <2>1, <2>2, <2>3, <2>4, ThreadsClosed DEF Listed
<1> QED
  BY <1>1, <1>2, <1>3, <1>4, <1>5

\* A request is received: its thread is open meanwhile.
LEMMA ReceivingThreads ==
    ASSUME Types, Types', QueueInv, QueueInv', ThreadsInv, NEW t \in Threads,
           \/ ReceiveRequest(t) /\ state = "Normal" /\ current = NoRequest /\ list # <<>>
           \/ ReceiveSucceeds(t)
    PROVE  ThreadsInv'
<1> USE DEF At, queueVars, requestVars, localVars, R
<1>a. HandsLocked /\ HandsLocked' /\ CallsOwn
  BY DEF QueueInv
<1>1. CASE ReceiveRequest(t) /\ state = "Normal" /\ current = NoRequest /\ list # <<>>
  <2>1. /\ Steps(t) /\ pc[t] = "receive" /\ pc'[t] = "received" /\ t \in Servers
        /\ UNCHANGED <<rrefs, thread, event, own, terminating, victim>>
        /\ lock = Nobody /\ lock' = t
    BY <1>1, <1>a, KernelSteps DEF ReceiveRequest
  <2>2. /\ list # <<>> /\ list' = Tail(list) /\ hand' = [hand EXCEPT ![t] = Head(list)]
        /\ trefs' = [trefs EXCEPT ![thread[Head(list)]] = @ + 1]
    BY <1>1 DEF ReceiveRequest
  <2>3. /\ Head(list) \in Requests /\ Listed(Head(list))
        /\ \A q : Listed(q)' => Listed(q)
    BY <2>2, ListTake
  <2>4. thread[Head(list)] \in Clients
    BY <2>3 DEF ThreadsInv, RequestsOwned
  <2>5. hand'[t] = Head(list)
    BY <2>2 DEF Types
  <2>6. \A s \in Servers : pc'[s] \in R => s = t
    BY <1>a, <2>1, Bystanders, LockAlone DEF Busy, Threads
  <2>7. \A u \in Clients : trefs'[u] = trefs[u] + One(Receiving(u)') - One(Receiving(u))
                                       + One(Taken(u)') - One(Taken(u))
    <3> SUFFICES ASSUME NEW u \in Clients
                 PROVE  trefs'[u] = trefs[u] + One(Receiving(u)') - One(Receiving(u))
                                    + One(Taken(u)') - One(Taken(u))
      OBVIOUS
    <3>1. /\ Receiving(u) <=> t \in Servers /\ pc[t] \in R /\ thread[hand[t]] = u
          /\ Receiving(u)' <=> t \in Servers /\ pc'[t] \in R /\ thread'[hand'[t]] = u
          /\ Taken(u)' <=> Taken(u)
      BY <1>a, <2>1, ReceivingAlone DEF Taken
    <3>2. One(Receiving(u)) = 0 /\ One(Taken(u)') = One(Taken(u)) /\ One(Taken(u)) \in Int
      BY <2>1, <3>1 DEF One
    <3>3. One(Receiving(u)') = IF u = thread[Head(list)] THEN 1 ELSE 0
      BY <2>1, <2>5, <3>1 DEF One
    <3>4. trefs'[u] = (IF u = thread[Head(list)] THEN trefs[u] + 1 ELSE trefs[u]) /\ trefs[u] \in Int
      BY <2>2, <2>4 DEF Types
    <3> QED
      BY <3>2, <3>3, <3>4
  <2> QED
    BY <2>1, <2>3, <2>4, <2>5, <2>6, <2>7, ThreadsSame
<1>2. CASE ReceiveSucceeds(t)
  <2>1. /\ Steps(t) /\ pc[t] = "receiving" /\ pc'[t] = "leave" /\ t \in Servers
        /\ UNCHANGED <<list, rrefs, thread, event, own, terminating, victim>>
        /\ trefs' = [trefs EXCEPT ![thread[hand[t]]] = @ - 1]
    BY <1>2, <1>a, KernelSteps DEF ReceiveSucceeds
  <2>2. lock = t /\ lock' = Nobody
    BY <1>2, <1>a, <2>1 DEF ReceiveSucceeds, HandsLocked, Busy
  <2>3. thread[hand[t]] \in Clients
    BY <2>1 DEF ThreadsInv, RequestsOwned
  <2>4. \A s \in Servers : pc'[s] \notin R
    BY <1>a, <2>1, <2>2, Bystanders, LockAlone DEF Busy, Threads
  <2>5. \A u \in Clients : trefs'[u] = trefs[u] + One(Receiving(u)') - One(Receiving(u))
                                       + One(Taken(u)') - One(Taken(u))
    <3> SUFFICES ASSUME NEW u \in Clients
                 PROVE  trefs'[u] = trefs[u] + One(Receiving(u)') - One(Receiving(u))
                                    + One(Taken(u)') - One(Taken(u))
      OBVIOUS
    <3>1. /\ Receiving(u) <=> t \in Servers /\ pc[t] \in R /\ thread[hand[t]] = u
          /\ Receiving(u)' <=> t \in Servers /\ pc'[t] \in R /\ thread'[hand'[t]] = u
          /\ Taken(u)' <=> Taken(u)
      BY <1>a, <2>2, ReceivingAlone, <2>1 DEF Taken
    <3>2. One(Receiving(u)') = 0 /\ One(Taken(u)') = One(Taken(u)) /\ One(Taken(u)) \in Int
      BY <2>1, <3>1 DEF One
    <3>3. One(Receiving(u)) = IF u = thread[hand[t]] THEN 1 ELSE 0
      BY <2>1, <3>1 DEF One
    <3>4. trefs'[u] = (IF u = thread[hand[t]] THEN trefs[u] - 1 ELSE trefs[u]) /\ trefs[u] \in Int
      BY <2>1, <2>3 DEF Types
    <3> QED
      BY <3>2, <3>3, <3>4
  <2> QED
    BY <2>1, <2>4, <2>5, ThreadsSame DEF Listed
<1> QED
  BY <1>1, <1>2

\* A thread that gets a request.
LEMMA SendThreads ==
    ASSUME Types, Types', QueueInv, QueueInv', ThreadsInv, NEW t \in Clients,
           NEW async \in BOOLEAN, SendRequest(t, async)
    PROVE  ThreadsInv'
<1> USE DEF ThreadsInv, R
<1>1. PICK r \in Requests : /\ rrefs[r] = 0
                            /\ rrefs' = [rrefs EXCEPT ![r] = 1]
                            /\ thread' = [thread EXCEPT ![r] = t]
                            /\ event' = [event EXCEPT ![r] = async]
                            /\ own' = [own EXCEPT ![t] = r]
  BY DEF SendRequest
<1>2. /\ t \in Threads /\ pc[t] = "idle" /\ pc'[t] = "send" /\ Steps(t)
      /\ UNCHANGED <<list, current, lock, hand, victim, terminating>>
      /\ trefs' = [trefs EXCEPT ![t] = @ + 1]
  BY GuestSteps DEF SendRequest, At, queueVars, Threads
<1>3. ~Owned(r) /\ ~Listed(r) /\ (\A k \in Threads : hand[k] # r) /\ thread[r] = Nobody
  BY <1>1, Unreferenced DEF InLine, RequestsOwned
<1>4. \A s \in Servers : /\ pc'[s] \in R <=> pc[s] \in R
                         /\ pc[s] \in R => hand'[s] = hand[s] /\ thread'[hand[s]] = thread[hand[s]]
  <2>1. \A s \in Servers : (pc'[s] \in R <=> pc[s] \in R) /\ (pc[s] \in R => hand'[s] = hand[s])
    BY <1>2, ReceiversStay DEF QueueInv
  <2>2. \A q : q # r => thread'[q] = thread[q]
    BY <1>1 DEF Types
  <2> QED
    BY <1>3, <2>1, <2>2 DEF Threads
<1>5. \A u : (Receiving(u)' <=> Receiving(u)) /\ (Taken(u)' <=> Taken(u))
  BY <1>2, <1>4, ReceivingSame DEF Taken
<1>6. ThreadsCounted'
  <2> SUFFICES ASSUME NEW u \in Clients
               PROVE  trefs'[u] = Cardinality(RequestsOf(u))' + One(Receiving(u)') + One(Taken(u)')
    BY DEF ThreadsCounted, Receiving, Taken
  <2>1. trefs[u] = Cardinality(RequestsOf(u)) + One(Receiving(u)) + One(Taken(u))
    BY DEF ThreadsCounted, Receiving, Taken
  <2>2. /\ RequestsOf(u)' \ {r} = RequestsOf(u) \ {r}
        /\ r \in RequestsOf(u)' <=> u = t
        /\ r \notin RequestsOf(u)
    BY <1>1, <1>3, SessionAssumption DEF RequestsOf, Types
  <2>3. IsFiniteSet(RequestsOf(u))
    BY SessionAssumption, FS_Subset DEF RequestsOf
  <2>4. /\ Cardinality(RequestsOf(u)) \in Nat
        /\ Cardinality(RequestsOf(u)') = Cardinality(RequestsOf(u)) + One(r \in RequestsOf(u)')
                                         - One(r \in RequestsOf(u))
    BY <2>2, <2>3, OneMore
  <2>5. trefs'[u] = (IF u = t THEN trefs[u] + 1 ELSE trefs[u]) /\ trefs[u] \in Int
    BY <1>2 DEF Types
  <2>6. One(Receiving(u)') = One(Receiving(u)) /\ One(Taken(u)') = One(Taken(u))
    BY <1>5 DEF One
  <2> QED
    BY <2>1, <2>2, <2>4, <2>5, <2>6 DEF One
<1>7. \A q \in Requests : /\ Listed(q)' <=> Listed(q)
                          /\ q # r => /\ thread'[q] = thread[q] /\ event'[q] = event[q]
                                      /\ rrefs'[q] = rrefs[q]
  BY <1>1, <1>2 DEF Listed, Types
<1>8. thread'[r] = t /\ rrefs'[r] = 1 /\ own'[t] = r
  BY <1>1 DEF Types
<1>9. \A u \in Clients \ {t} : own'[u] = own[u] /\ own[u] # r
  BY <1>1, <1>3 DEF Types, Owned
<1>10. RequestsOwned'
  <2>1. own[t] = NoRequest
    BY <1>2 DEF QueueInv, CallsOwn
  <2>2. \A q \in Requests :
           /\ rrefs'[q] = 0 => thread'[q] = Nobody
           /\ Listed(q)' => thread'[q] \in Clients
           /\ thread'[q] # Nobody /\ ~event'[q] =>
                 own'[thread'[q]] = q \/ thread'[q] \in terminating'
    <3> SUFFICES ASSUME NEW q \in Requests
                 PROVE  /\ rrefs'[q] = 0 => thread'[q] = Nobody
                        /\ Listed(q)' => thread'[q] \in Clients
                        /\ thread'[q] # Nobody /\ ~event'[q] =>
                              own'[thread'[q]] = q \/ thread'[q] \in terminating'
      OBVIOUS
    <3>1. CASE q = r
      BY <1>7, <1>8, <3>1
    <3>2. CASE q # r
      <4>1. /\ rrefs[q] = 0 => thread[q] = Nobody
            /\ Listed(q) => thread[q] \in Clients
            /\ thread[q] # Nobody /\ ~event[q] =>
                  own[thread[q]] = q \/ thread[q] \in terminating
            /\ thread[q] \in Clients \cup {Nobody}
        BY DEF RequestsOwned, Types
      <4> QED
        BY <1>2, <1>7, <1>9, <2>1, <3>2, <4>1, SessionAssumption
    <3> QED
      BY <3>1, <3>2
  <2>3. \A u \in Clients : own'[u] # NoRequest => thread'[own'[u]] = u
    <3> SUFFICES ASSUME NEW u \in Clients, own'[u] # NoRequest PROVE thread'[own'[u]] = u
      OBVIOUS
    <3>1. CASE u = t
      BY <1>8, <3>1
    <3>2. CASE u # t
      BY <1>7, <1>9, <3>2 DEF RequestsOwned, Types
    <3> QED
      BY <3>1, <3>2
  <2>4. \A s \in Servers : pc'[s] \in R => thread'[hand'[s]] \in Clients
    BY <1>4 DEF RequestsOwned
  <2> QED
    BY <2>2, <2>3, <2>4 DEF RequestsOwned
<1> QED
  BY <1>6, <1>10

\* A call that is over: who waits no more but is not terminated has been answered, and
\* nobody else refers to its request.
LEMMA ReturnThreads ==
    ASSUME Types, Types', QueueInv, QueueInv', ThreadsInv, CallsInLine, NEW t \in Threads,
           CallReturn(t)
    PROVE  ThreadsInv'
<1> USE DEF ThreadsInv, R
<1>0. PICK r \in Requests : r = own[t]
  BY Requested DEF CallReturn, At, QueueInv
<1>1. /\ t \in Clients /\ pc[t] = "return" /\ pc'[t] = "leave" /\ Steps(t)
  BY KernelSteps DEF CallReturn, At, QueueInv
<1>2. /\ CloseRequest(r, {}) /\ own' = [own EXCEPT ![t] = NoRequest]
      /\ UNCHANGED <<list, current, lock, hand, victim, terminating>>
  BY <1>0 DEF CallReturn, queueVars
<1>3. /\ rrefs' = [rrefs EXCEPT ![r] = @ - 1] /\ rrefs[r] \in Int
      /\ rrefs[r] = 1 => /\ thread' = [thread EXCEPT ![r] = Nobody]
                         /\ event' = [event EXCEPT ![r] = FALSE]
      /\ rrefs[r] # 1 => thread' = thread /\ event' = event
  BY <1>1, <1>2 DEF CloseRequest, Types
<1>4. rrefs[r] = 1 => thread'[r] = Nobody /\ ~Listed(r)' /\ \A k \in Threads : hand[k] # r
  <2> SUFFICES ASSUME rrefs[r] = 1
               PROVE  thread'[r] = Nobody /\ ~Listed(r)' /\ \A k \in Threads : hand[k] # r
    OBVIOUS
  <2>1. rrefs'[r] = 0 /\ thread'[r] = Nobody
    BY <1>1, <1>3 DEF Types
  <2>2. ~Listed(r)' /\ \A k \in Threads : hand'[k] # r
    BY <1>1, <2>1, Freed
  <2>3. hand' = hand
    BY <1>2
  <2> QED
    BY <2>1, <2>2, <2>3
<1>5. \A q \in Requests : q # r =>
         thread'[q] = thread[q] /\ event'[q] = event[q] /\ rrefs'[q] = rrefs[q]
  BY <1>3 DEF Types
<1>6. \A s \in Servers : /\ pc'[s] \in R <=> pc[s] \in R
                         /\ pc[s] \in R => /\ hand'[s] = hand[s] /\ hand[s] \in Requests
                                           /\ thread'[hand[s]] = thread[hand[s]]
  <2>1. \A s \in Servers : (pc'[s] \in R <=> pc[s] \in R) /\ (pc[s] \in R => hand'[s] = hand[s])
    BY <1>1, <1>2, ReceiversStay DEF QueueInv
  <2>2. \A s \in Servers : pc[s] \in R => hand[s] \in Requests
    BY Requested DEF Busy, QueueInv, Threads
  <2>3. \A s \in Servers : pc[s] \in R => thread'[hand[s]] = thread[hand[s]]
    BY <1>3, <1>4, <1>5, <2>2 DEF Threads
  <2> QED
    BY <2>1, <2>2, <2>3
<1>7. \A u : (Receiving(u)' <=> Receiving(u)) /\ (Taken(u)' <=> Taken(u))
  BY <1>2, <1>6, ReceivingSame DEF Taken
<1>8. ThreadsCounted'
  <2> SUFFICES ASSUME NEW u \in Clients
               PROVE  trefs'[u] = Cardinality(RequestsOf(u))' + One(Receiving(u)') + One(Taken(u)')
    BY DEF ThreadsCounted, Receiving, Taken
  <2>1. trefs[u] = Cardinality(RequestsOf(u)) + One(Receiving(u)) + One(Taken(u))
    BY DEF ThreadsCounted, Receiving, Taken
  <2>2. /\ Cardinality(RequestsOf(u)) \in Nat
        /\ trefs'[u] - Cardinality(RequestsOf(u))'
           = trefs[u] - Cardinality(RequestsOf(u)) - One(u \in {})
    BY <1>1, <1>2, CloseThreads
  <2>3. Cardinality(RequestsOf(u)') \in Nat
    <3>1. IsFiniteSet(RequestsOf(u)')
      BY SessionAssumption, FS_Subset DEF RequestsOf
    <3> QED
      BY <3>1, FS_CardinalityType
  <2>4. trefs'[u] \in Int /\ trefs[u] \in Int
    BY DEF Types
  <2>5. One(Receiving(u)') = One(Receiving(u)) /\ One(Taken(u)') = One(Taken(u))
        /\ One(u \in {}) = 0
    BY <1>7 DEF One
  <2> QED
    BY <2>1, <2>2, <2>3, <2>4, <2>5 DEF One
<1>9. own'[t] = NoRequest /\ \A u \in Clients \ {t} : own'[u] = own[u] /\ own[u] # r
  BY <1>0, <1>1, <1>2, SessionAssumption DEF Types, QueueInv, CallsOwn
<1>10. thread[r] = t /\ (rrefs[r] # 1 /\ ~event[r] => t \in terminating)
  <2>1. thread[r] = t
    BY <1>0, <1>1, SessionAssumption DEF RequestsOwned
  <2>2. ASSUME ~event[r], t \notin terminating PROVE rrefs[r] = 1
    <3>1. ~InLine(r) /\ Owned(r)
      BY <1>0, <1>1, <2>2 DEF CallsInLine, Owned
    <3> QED
      BY <1>1, <3>1 DEF QueueInv, PlacesCounted, InLine, One
  <2> QED
    BY <2>1, <2>2
<1>11. RequestsOwned'
  <2>1. ASSUME NEW q \in Requests
        PROVE  /\ rrefs'[q] = 0 => thread'[q] = Nobody
               /\ Listed(q)' => thread'[q] \in Clients
               /\ thread'[q] # Nobody /\ ~event'[q] =>
                     own'[thread'[q]] = q \/ thread'[q] \in terminating'
    <3>1. /\ rrefs[q] = 0 => thread[q] = Nobody
          /\ Listed(q) => thread[q] \in Clients
          /\ thread[q] # Nobody /\ ~event[q] =>
                own[thread[q]] = q \/ thread[q] \in terminating
          /\ thread[q] \in Clients \cup {Nobody}
          /\ Listed(q)' <=> Listed(q)
      BY <1>2 DEF RequestsOwned, Types, Listed
    <3>2. CASE q # r
      <4>1. thread'[q] # Nobody /\ ~event'[q] /\ own[thread[q]] = q => thread[q] # t
        BY <1>0, <3>2
      <4> QED
        BY <1>2, <1>5, <1>9, <3>1, <3>2, <4>1
    <3>3. CASE q = r /\ rrefs[r] = 1
      BY <1>4, <3>3
    <3>4. CASE q = r /\ rrefs[r] # 1
      <4>1. rrefs'[r] # 0 /\ thread' = thread /\ event' = event
        BY <1>1, <1>3, <3>4 DEF Types
      <4> QED
        BY <1>2, <1>10, <3>1, <3>4, <4>1
    <3> QED
      BY <3>2, <3>3, <3>4
  <2>2. \A u \in Clients : own'[u] # NoRequest => thread'[own'[u]] = u
    <3> SUFFICES ASSUME NEW u \in Clients, own'[u] # NoRequest PROVE thread'[own'[u]] = u
      OBVIOUS
    <3>1. u # t /\ own'[u] = own[u] /\ own[u] # r
      BY <1>9
    <3>2. own[u] \in Requests /\ thread[own[u]] = u
      BY <3>1 DEF RequestsOwned, Types
    <3> QED
      BY <1>5, <3>1, <3>2
  <2>3. \A s \in Servers : pc'[s] \in R => thread'[hand'[s]] \in Clients
    BY <1>6 DEF RequestsOwned
  <2> QED
    BY <2>1, <2>2, <2>3 DEF RequestsOwned
<1> QED
  BY <1>8, <1>11

\* The client end looks at the current request: no client is in a call any more.
LEMMA DrainThreads ==
    ASSUME Types, Types', QueueInv, QueueInv', EndsInv, ThreadsInv, NEW t \in Threads,
           DrainCurrent(t)
    PROVE  ThreadsInv'
<1> USE DEF ThreadsInv, R
<1>a. HandsLocked /\ HandsLocked' /\ CallsOwn
  BY DEF QueueInv
<1>1. /\ t \in Clients /\ pc[t] = "drain" /\ pc'[t] = "looked" /\ Steps(t)
      /\ lock \in {Nobody, t} /\ lock' = t
      /\ UNCHANGED <<list, current, trefs, terminating, own>>
      /\ current \in Requests
  BY <1>a, KernelSteps DEF DrainCurrent, At, Takeable, sessionVars, Types
<1> DEFINE v == thread[current]
<1>2. /\ rrefs' = [rrefs EXCEPT ![current] = @ + 1]
      /\ v \in terminating => /\ thread' = [thread EXCEPT ![current] = Nobody]
                              /\ event' = [event EXCEPT ![current] = FALSE]
                              /\ victim' = [victim EXCEPT ![t] = v]
      /\ v \notin terminating => UNCHANGED <<thread, event, victim>>
  BY DEF DrainCurrent, ClearThread
<1> HIDE DEF v
<1>3. \A u \in Clients : own[u] = NoRequest
  <2>1. refs["client"] = 0
    BY <1>1 DEF EndsInv, EndsCounted, ClientEnding, Ending
  <2>2. Cardinality(InCall) = 0
    <3>1. Cardinality(InCall) \in Nat /\ (handle["client"] \in BOOLEAN)
      BY <1>1, Classes DEF Types
    <3>2. refs["client"] = One(handle["client"]) + Cardinality(InCall)
      BY DEF EndsInv, EndsCounted
    <3> QED
      BY <2>1, <3>1, <3>2 DEF One
  <2>3. InCall = {}
    BY <2>2, SessionAssumption, FS_Subset, FS_EmptySet DEF InCall
  <2> QED
    BY <1>a, <2>3 DEF InCall, Calling, CallsOwn
<1>4. \A s \in Servers : pc[s] \notin R /\ pc'[s] \notin R
  BY <1>a, <1>1, Bystanders, LockAlone, Sides DEF Busy, Threads
<1>5. victim[t] = Nobody
  BY <1>a, <1>1 DEF HandsLocked
<1>6. v \in Clients \cup {Nobody} /\ (v \in terminating => v \in Clients) /\ Nobody \notin terminating
  BY <1>1, SessionAssumption DEF Types, v
<1>7. \A u \in Clients : /\ ~Receiving(u) /\ ~Receiving(u)' /\ ~Taken(u)
                         /\ Taken(u)' <=> u = v /\ v \in terminating
  <2>1. \A u \in Clients : /\ Taken(u) <=> victim[t] = u
                           /\ Taken(u)' <=> victim'[t] = u
    BY <1>a, <1>1, ReceivingAlone
  <2>2. victim'[t] = IF v \in terminating THEN v ELSE Nobody
    BY <1>2, <1>5 DEF Types
  <2> QED
    BY <1>4, <1>5, <1>6, <2>1, <2>2, SessionAssumption DEF Receiving, Receiver
<1>8. ThreadsCounted'
  <2> SUFFICES ASSUME NEW u \in Clients
               PROVE  trefs'[u] = Cardinality(RequestsOf(u))' + One(Receiving(u)') + One(Taken(u)')
    BY DEF ThreadsCounted, Receiving, Taken
  <2>1. trefs[u] = Cardinality(RequestsOf(u)) + One(Receiving(u)) + One(Taken(u))
    BY DEF ThreadsCounted, Receiving, Taken
  <2>2. CASE v \in terminating
    <3>1. /\ Cardinality(RequestsOf(u)) \in Nat
          /\ Cardinality(RequestsOf(u))' = Cardinality(RequestsOf(u)) - One(v = u)
      BY <1>1, <1>2, <2>2, RequestsOfLost DEF v
    <3> QED
      BY <1>1, <1>7, <2>1, <2>2, <3>1 DEF One
  <2>3. CASE v \notin terminating
    <3>1. RequestsOf(u)' = RequestsOf(u)
      BY <1>2, <2>3 DEF RequestsOf
    <3>2. One(Taken(u)') = One(Taken(u)) /\ One(Receiving(u)') = One(Receiving(u))
      BY <1>7, <2>3 DEF One
    <3> QED
      BY <1>1, <2>1, <3>1, <3>2
  <2> QED
    BY <2>2, <2>3
<1>9. \A q \in Requests : /\ q # current \/ v \notin terminating =>
                                thread'[q] = thread[q] /\ event'[q] = event[q]
                          /\ rrefs'[q] = 0 => rrefs[q] = 0
                          /\ Listed(q)' => Listed(q) /\ q # current
  <2>1. \A q \in Requests : q # current \/ v \notin terminating =>
                                thread'[q] = thread[q] /\ event'[q] = event[q]
    BY <1>2 DEF Types
  <2>2. \A q \in Requests : rrefs'[q] = 0 => rrefs[q] = 0
    BY <1>1, <1>2, Unreferenced DEF Types
  <2>3. \A q \in Requests : Listed(q)' => Listed(q) /\ q # current
    BY <1>1 DEF Listed, QueueInv, PlacesDistinct
  <2> QED
    BY <2>1, <2>2, <2>3
<1>10. v \in terminating => thread'[current] = Nobody
  BY <1>1, <1>2 DEF Types
<1>11. RequestsOwned'
  <2>1. ASSUME NEW q \in Requests
        PROVE  /\ rrefs'[q] = 0 => thread'[q] = Nobody
               /\ Listed(q)' => thread'[q] \in Clients
               /\ thread'[q] # Nobody /\ ~event'[q] =>
                     own'[thread'[q]] = q \/ thread'[q] \in terminating'
    <3>1. /\ rrefs[q] = 0 => thread[q] = Nobody
          /\ Listed(q) => thread[q] \in Clients
          /\ thread[q] # Nobody /\ ~event[q] =>
                own[thread[q]] = q \/ thread[q] \in terminating
      BY DEF RequestsOwned
    <3>2. CASE q # current \/ v \notin terminating
      BY <1>1, <1>9, <3>1, <3>2
    <3>3. CASE q = current /\ v \in terminating
      BY <1>9, <1>10, <3>3
    <3> QED
      BY <3>2, <3>3
  <2>2. \A u \in Clients : own'[u] = NoRequest
    BY <1>1, <1>3
  <2> QED
    BY <1>4, <2>1, <2>2 DEF RequestsOwned
<1> QED
  BY <1>8, <1>11

LEMMA ThreadsKept ==
    ASSUME Types, Types', QueueInv, QueueInv', EndsInv, ThreadsInv, CallsInLine, Next
    PROVE  ThreadsInv'
<1>1. ASSUME NEW t \in Clients, NEW async \in BOOLEAN, SendRequest(t, async) PROVE ThreadsInv'
  BY <1>1, SendThreads
<1>2. ASSUME NEW t \in Clients, SendFails(t) \/ RequestTerminate(t) \/ CloseHandle(t, "client")
      PROVE  ThreadsInv'
  BY <1>2, QuietThreads DEF Threads
<1>3. ASSUME NEW s \in Servers, NEW what \in {"wait", "reply"}, ServerCall(s, what)
      PROVE  ThreadsInv'
  BY <1>3, QuietThreads DEF Threads
<1>4. ASSUME NEW s \in Servers, WaitTimeout(s) \/ CloseHandle(s, "server") PROVE ThreadsInv'
  BY <1>4, QuietThreads DEF Threads
<1>5. ASSUME NEW t \in Threads, CallReturn(t) PROVE ThreadsInv'
  BY <1>5, ReturnThreads
<1>6. ASSUME NEW t \in Threads, ReceiveRequest(t) PROVE ThreadsInv'
  BY <1>6, ReceivingThreads, QuietThreads
<1>7. ASSUME NEW t \in Threads, ReceiveSucceeds(t) PROVE ThreadsInv'
  BY <1>7, ReceivingThreads
<1>8. ASSUME NEW t \in Threads, DrainCurrent(t) PROVE ThreadsInv'
  BY <1>8, DrainThreads
<1>9. ASSUME NEW t \in Threads,
             \/ RefuseRequest(t) \/ ReplyToClient(t) \/ LeaveCurrent(t) \/ CancelPending(t)
             \/ CleanupAnswer(t)
      PROVE  ThreadsInv'
  BY <1>9, ClosingThreads
<1>10. ASSUME NEW t \in Threads,
              \/ OnRequest(t) \/ CallLeave(t) \/ Wait(t) \/ SetCurrent(t) \/ ReceiveFails(t)
              \/ SendReply(t) \/ ServerLeave(t) \/ Destroy(t) \/ SetState(t)
              \/ DrainPending(t) \/ DrainEnd(t) \/ CleanupTake(t) \/ CloseParent(t)
       PROVE  ThreadsInv'
  BY <1>10, QuietThreads
<1> QED
  BY <1>1, <1>2, <1>3, <1>4, <1>5, <1>6, <1>7, <1>8, <1>9, <1>10 DEF Next, Guest, Kernel

-----------------------------------------------------------------------------
(* Who waits.                                                              *)

\* An end is destroyed when nobody is in a call any more.
LEMMA EndedAlone ==
    ASSUME Types, EndsInv
    PROVE  /\ ClientEnding => \A u \in Clients : pc[u] \notin Calling
           /\ ServerEnding => \A s \in Servers : pc[s] \notin Serving
<1>1. IsFiniteSet(InCall) /\ IsFiniteSet(InService)
  BY SessionAssumption, FS_Subset DEF InCall, InService
<1>2. /\ Cardinality(InCall) \in Nat /\ Cardinality(InService) \in Nat
      /\ Cardinality(InCall) = 0 => InCall = {}
      /\ Cardinality(InService) = 0 => InService = {}
  BY <1>1, FS_CardinalityType, FS_EmptySet
<1>3. /\ refs["client"] = One(handle["client"]) + Cardinality(InCall)
      /\ refs["server"] = One(handle["server"]) + Cardinality(InService)
      /\ ClientEnding => refs["client"] = 0
      /\ ServerEnding => refs["server"] = 0
  BY DEF EndsInv, EndsCounted
<1>4. ClientEnding => InCall = {}
  BY <1>2, <1>3 DEF One
<1>5. ServerEnding => InService = {}
  BY <1>2, <1>3 DEF One
<1> QED
  BY <1>4, <1>5 DEF InCall, InService

\* The steps that end no other thread's wait.
Answers(t) == RefuseRequest(t) \/ ReplyToClient(t) \/ CleanupAnswer(t)

LEMMA ClientsStay ==
    ASSUME Types, NEW t \in Threads,
           \/ t \in Clients /\ \E async \in BOOLEAN : SendRequest(t, async)
           \/ t \in Clients /\ (SendFails(t) \/ RequestTerminate(t))
           \/ \E e \in {"client", "server"} : CloseHandle(t, e)
           \/ t \in Servers /\ \E what \in {"wait", "reply"} : ServerCall(t, what)
           \/ t \in Servers /\ WaitTimeout(t)
           \/ Kernel(t) /\ ~Answers(t)
    PROVE  \A u \in Clients \ {t} : pc'[u] = pc[u]
<1> SUFFICES ASSUME NEW u \in Clients \ {t} PROVE pc'[u] = pc[u]
  OBVIOUS
<1>1. /\ u \in Threads /\ pc \in [Threads -> ClientLabels \cup ServerLabels]
      /\ pc[u] # "sleeping"
  BY DEF Types, LabelsOK, Threads, ClientLabels
<1>2. \A w : Woken(pc, w)[u] = pc[u]
  BY <1>1 DEF Woken
<1>p. ASSUME NEW l, pc' = [pc EXCEPT ![t] = l] PROVE pc'[u] = pc[u]
  BY <1>1, <1>p
<1>w. ASSUME NEW l, NEW w, pc' = [Woken(pc, w) EXCEPT ![t] = l] PROVE pc'[u] = pc[u]
  BY <1>1, <1>2, <1>w DEF Woken
<1>a. ASSUME NEW l, NEW q, NEW c, NEW w, pc' = [NotifyAvailable(pc, q, c, w) EXCEPT ![t] = l]
      PROVE  pc'[u] = pc[u]
  BY <1>p, <1>w, <1>a DEF NotifyAvailable
<1>n. ASSUME NEW l, pc' = [NotifyIfPending(pc) EXCEPT ![t] = l] PROVE pc'[u] = pc[u]
  BY <1>p, <1>a, <1>n DEF NotifyIfPending
<1>f. CASE SendFails(t)
  BY <1>f, <1>p DEF SendFails
<1>3. ASSUME NEW async \in BOOLEAN, SendRequest(t, async) PROVE pc'[u] = pc[u]
  BY <1>3, <1>p DEF SendRequest
<1>4. CASE RequestTerminate(t)
  BY <1>1, <1>4 DEF RequestTerminate, At
<1>5. ASSUME NEW e \in {"client", "server"}, CloseHandle(t, e) PROVE pc'[u] = pc[u]
  BY <1>5, <1>p DEF CloseHandle, CloseEnd
<1>6. ASSUME NEW what \in {"wait", "reply"}, ServerCall(t, what) PROVE pc'[u] = pc[u]
  BY <1>6, <1>p DEF ServerCall
<1>7. CASE WaitTimeout(t)
  BY <1>7, <1>p DEF WaitTimeout
<1>8. CASE OnRequest(t)
  BY <1>8, <1>p, <1>a DEF OnRequest
<1>9. CASE CallReturn(t)
  BY <1>9, <1>p DEF CallReturn
<1>10. CASE CallLeave(t)
  BY <1>10, <1>p DEF CallLeave, CloseEnd
<1>11. CASE Wait(t)
  BY <1>11, <1>p DEF Wait
<1>12. CASE ReceiveRequest(t)
  BY <1>12, <1>p DEF ReceiveRequest
<1>13. CASE SetCurrent(t)
  BY <1>13, <1>p DEF SetCurrent
<1>14. CASE ReceiveSucceeds(t)
  BY <1>14, <1>p DEF ReceiveSucceeds
<1>15. CASE ReceiveFails(t)
  BY <1>15, <1>n DEF ReceiveFails
<1>16. CASE SendReply(t)
  BY <1>16, <1>p, <1>n DEF SendReply
<1>17. CASE ServerLeave(t)
  BY <1>17, <1>p DEF ServerLeave, CloseEnd
<1>18. CASE Destroy(t)
  BY <1>18, <1>p DEF Destroy
<1>19. CASE SetState(t)
  BY <1>19, <1>p DEF SetState
<1>20. CASE DrainCurrent(t)
  BY <1>20, <1>p DEF DrainCurrent
<1>21. CASE DrainPending(t)
  BY <1>21, <1>p DEF DrainPending
<1>22. CASE DrainEnd(t)
  BY <1>22, <1>a DEF DrainEnd
<1>23. CASE LeaveCurrent(t)
  BY <1>23, <1>p DEF LeaveCurrent
<1>24. CASE CancelPending(t)
  BY <1>24, <1>p DEF CancelPending
<1>25. CASE CleanupTake(t)
  BY <1>25, <1>p DEF CleanupTake
<1>26. CASE CloseParent(t)
  BY <1>26, <1>p DEF CloseParent
<1> QED
  BY <1>f, <1>3, <1>4, <1>5, <1>6, <1>7, <1>8, <1>9, <1>10, <1>11, <1>12, <1>13, <1>14, <1>15, <1>16, <1>17, <1>18, <1>19, <1>20, <1>21, <1>22, <1>23, <1>24, <1>25, <1>26 DEF Kernel, Answers

\* The steps that answer a request end the wait for it, and no other.
LEMMA WaitsAnswered ==
    ASSUME Types, QueueInv, ThreadsInv, CallsInLine, NEW t \in Threads, Answers(t)
    PROVE  /\ t \in Servers /\ hand[t] \in Requests /\ lock = t /\ Steps(t)
           /\ \A u \in Clients :
                 pc'[u] = IF pc[u] = "waiting" /\ own[u] = hand[t] THEN "return" ELSE pc[u]
<1>a. HandsLocked /\ CallsOwn
  BY DEF QueueInv
<1>1. t \in Servers /\ pc[t] \in {"refuse", "replying", "cleaning"} /\ t \notin Clients /\ Steps(t)
  BY <1>a, KernelSteps, Sides DEF Answers, RefuseRequest, ReplyToClient, CleanupAnswer, At
<1>2. hand[t] \in Requests /\ lock = t
  BY <1>a, <1>1, Requested DEF HandsLocked, Busy
<1>3. PICK l : pc' = [Answered(pc, hand[t]) EXCEPT ![t] = l]
  BY DEF Answers, RefuseRequest, ReplyToClient, CleanupAnswer
<1>4. ASSUME NEW u \in Clients
      PROVE  pc'[u] = IF pc[u] = "waiting" /\ own[u] = hand[t] THEN "return" ELSE pc[u]
  <2>1. u # t /\ u \in Threads /\ pc \in [Threads -> ClientLabels \cup ServerLabels]
    BY <1>1 DEF Types, LabelsOK, Threads
  <2>2. pc'[u] = Answered(pc, hand[t])[u]
    <3>1. Answered(pc, hand[t]) \in [Threads -> ClientLabels \cup ServerLabels]
      BY <1>2, HelpersMove DEF Moves
    <3> QED
      BY <1>3, <2>1, <3>1
  <2>3. CASE pc[u] = "waiting" /\ own[u] = hand[t]
    <3>1. thread[hand[t]] = u /\ ~event[hand[t]] /\ u \notin terminating
      BY <1>2, <2>3, SessionAssumption DEF ThreadsInv, RequestsOwned, CallsInLine
    <3> QED
      BY <2>1, <2>2, <2>3, <3>1, SessionAssumption DEF Answered, EndWait
  <2>4. CASE ~(pc[u] = "waiting" /\ own[u] = hand[t])
    <3>1. ASSUME pc[u] = "waiting", thread[hand[t]] = u, ~event[hand[t]], u \notin terminating
          PROVE  FALSE
      BY <1>2, <2>4, <3>1, SessionAssumption DEF ThreadsInv, RequestsOwned
    <3>2. Answered(pc, hand[t])[u] = pc[u]
      <4>1. CASE event[hand[t]]
        BY <4>1 DEF Answered
      <4>2. CASE ~event[hand[t]] /\ ~(thread[hand[t]] # Nobody
                    /\ thread[hand[t]] \notin terminating /\ pc[thread[hand[t]]] = "waiting")
        BY <4>2 DEF Answered, EndWait
      <4>3. CASE ~event[hand[t]] /\ thread[hand[t]] # Nobody
                 /\ thread[hand[t]] \notin terminating /\ pc[thread[hand[t]]] = "waiting"
        <5>1. thread[hand[t]] # u
          BY <3>1, <4>3
        <5>2. Answered(pc, hand[t]) = [pc EXCEPT ![thread[hand[t]]] = "return"]
          BY <4>3 DEF Answered, EndWait
        <5> QED
          BY <2>1, <5>1, <5>2
      <4> QED
        BY <4>1, <4>2, <4>3
    <3> QED
      BY <2>2, <2>4, <3>2
  <2> QED
    BY <2>3, <2>4
<1> QED
  BY <1>1, <1>2, <1>4

\* The calls are left as they are by a step that leaves the other clients and the
\* requests they have sent as they are.
LEMMA CallsMove ==
    ASSUME Types, CallsOwn, CallsInLine, NEW t \in Threads,
           terminating' \ {t} = terminating \ {t},
           \A u \in Clients \ {t} : pc'[u] = pc[u],
           \A u \in Clients \ {t}, q \in Requests : own[u] = q =>
              own'[u] = q /\ event'[q] = event[q] /\ (InLine(q)' <=> InLine(q)),
           t \in Clients =>
              /\ pc'[t] = "waiting" =>
                    InLine(own[t])' /\ ~event'[own'[t]] /\ t \notin terminating'
              /\ pc'[t] = "return" /\ ~event'[own'[t]] /\ t \notin terminating' =>
                    ~InLine(own[t])'
    PROVE  CallsInLine'
<1> SUFFICES ASSUME NEW u \in Clients
             PROVE  /\ pc'[u] = "waiting" =>
                          InLine(own[u])' /\ ~event'[own'[u]] /\ u \notin terminating'
                    /\ pc'[u] = "return" /\ ~event'[own'[u]] /\ u \notin terminating' =>
                          ~InLine(own[u])'
  BY DEF CallsInLine
<1>1. CASE u = t
  BY <1>1
<1>2. CASE u # t /\ pc[u] \in {"waiting", "return"}
  <2>1. PICK q \in Requests : q = own[u]
    BY <1>2 DEF Types, CallsOwn
  <2>2. /\ own'[u] = q /\ event'[q] = event[q] /\ (InLine(q)' <=> InLine(q))
        /\ pc'[u] = pc[u] /\ (u \in terminating' <=> u \in terminating)
    BY <1>2, <2>1
  <2>3. InLine(own[u])' <=> InLine(q)'
    BY <2>2 DEF InLine, Listed, Held
  <2>4. /\ pc[u] = "waiting" => InLine(q) /\ ~event[q] /\ u \notin terminating
        /\ pc[u] = "return" /\ ~event[q] /\ u \notin terminating => ~InLine(q)
    BY <2>1 DEF CallsInLine
  <2> QED
    BY <2>2, <2>3, <2>4
<1>3. CASE u # t /\ pc[u] \notin {"waiting", "return"}
  BY <1>3
<1> QED
  BY <1>1, <1>2, <1>3

\* Who has m_lock, before and after its step, is alone with what it has in hand.
LEMMA HeldAlone ==
    ASSUME HandsLocked, HandsLocked', NEW t \in Threads,
           lock \in {Nobody, t}, lock' \in {Nobody, t}
    PROVE  \A q \in Requests : /\ Held(q) <=> hand[t] = q /\ pc[t] # "receiving"
                               /\ Held(q)' <=> hand'[t] = q /\ pc'[t] # "receiving"
<1>1. \A u \in Threads \ {t} : hand[u] = NoRequest /\ hand'[u] = NoRequest
  BY SessionAssumption DEF HandsLocked, Threads
<1> QED
  BY <1>1, SessionAssumption DEF Held

\* The requests in line stay in line as a server receives them or takes them to answer.
LEMMA LineKept ==
    ASSUME Types, Types', QueueInv, QueueInv', NEW t \in Threads,
           \/ SetCurrent(t) \/ ReceiveSucceeds(t) \/ ReceiveFails(t) \/ CleanupTake(t)
           \/ ReceiveRequest(t) /\ state = "Normal" /\ current = NoRequest /\ list # <<>>
           \/ SendReply(t) /\ current # NoRequest
    PROVE  \A q \in Requests : InLine(q)' <=> InLine(q)
<1> USE DEF At, Busy, sessionVars, queueVars, localVars
<1>a. /\ HandsLocked /\ HandsLocked'
      /\ hand[t] # NoRequest <=> pc[t] \in Busy
      /\ pc[t] \in Busy => lock = t /\ hand[t] \in Requests
      /\ hand[t] # NoRequest => (hand[t] = current <=> pc[t] \in {"receiving", "looked"})
      /\ hand \in [Threads -> Requests \cup {NoRequest}]
  BY DEF QueueInv, HandsLocked, PlacesDistinct, Types
<1>b. \A q \in Requests : Listed(q) => current # q
  BY DEF QueueInv, PlacesDistinct
<1>h. ASSUME lock \in {Nobody, t}, lock' \in {Nobody, t}
      PROVE  \A q \in Requests : /\ Held(q) <=> hand[t] = q /\ pc[t] # "receiving"
                                 /\ Held(q)' <=> hand'[t] = q /\ pc'[t] # "receiving"
  BY <1>a, <1>h, HeldAlone
<1>l. ASSUME list' = list PROVE \A q : Listed(q)' <=> Listed(q)
  BY <1>l DEF Listed
<1>t. ASSUME list # <<>>, list' = Tail(list)
      PROVE  \A q : Listed(q) <=> Listed(q)' \/ q = Head(list)
  BY <1>t, ListTake
<1>1. CASE SetCurrent(t)
  <2>1. /\ pc[t] = "received" /\ pc'[t] = "receiving" /\ lock = t /\ lock' = t
        /\ hand' = hand /\ list' = list /\ current' = hand[t]
    BY <1>1, <1>a, KernelSteps DEF SetCurrent
  <2>2. current = NoRequest
    BY <2>1 DEF QueueInv, PlacesDistinct
  <2> QED
    BY <1>h, <1>l, <2>1, <2>2, SessionAssumption DEF InLine
<1>2. CASE ReceiveSucceeds(t)
  <2>1. /\ pc[t] = "receiving" /\ pc'[t] = "leave" /\ lock = t /\ lock' = Nobody
        /\ hand'[t] = NoRequest /\ list' = list /\ current' = current
    BY <1>2, <1>a, KernelSteps DEF ReceiveSucceeds
  <2> QED
    BY <1>h, <1>l, <2>1, SessionAssumption DEF InLine
<1>3. CASE ReceiveFails(t)
  <2>1. /\ pc[t] = "receiving" /\ pc'[t] = "refuse" /\ lock = t /\ lock' = t
        /\ hand' = hand /\ list' = list /\ current' = NoRequest /\ current = hand[t]
    BY <1>3, <1>a, KernelSteps DEF ReceiveFails
  <2> QED
    BY <1>h, <1>l, <2>1, SessionAssumption DEF InLine
<1>4. CASE ReceiveRequest(t) /\ state = "Normal" /\ current = NoRequest /\ list # <<>>
  <2>1. /\ pc[t] = "receive" /\ pc'[t] = "received" /\ lock = Nobody /\ lock' = t
        /\ hand'[t] = Head(list) /\ list' = Tail(list) /\ current' = current
        /\ hand[t] = NoRequest
    BY <1>4, <1>a, KernelSteps DEF ReceiveRequest
  <2> QED
    BY <1>4, <1>h, <1>t, <2>1, SessionAssumption DEF InLine
<1>5. CASE SendReply(t) /\ current # NoRequest
  <2>1. /\ pc[t] = "reply" /\ pc'[t] = "replying" /\ lock = Nobody /\ lock' = t
        /\ hand'[t] = current /\ list' = list /\ current' = NoRequest
        /\ hand[t] = NoRequest
    BY <1>5, <1>a, KernelSteps DEF SendReply
  <2> QED
    BY <1>5, <1>h, <1>l, <2>1, SessionAssumption DEF InLine
<1>6. CASE CleanupTake(t)
  <2>1. /\ pc[t] = "cleanup" /\ lock \in {Nobody, t} /\ lock' \in {Nobody, t}
        /\ hand[t] = NoRequest
    BY <1>6, <1>a DEF CleanupTake
  <2>2. CASE current # NoRequest
    <3>1. hand'[t] = current /\ list' = list /\ current' = NoRequest /\ pc'[t] = "cleaning"
      BY <1>6, <1>a, <2>2, KernelSteps DEF CleanupTake
    <3> QED
      BY <1>h, <1>l, <2>1, <2>2, <3>1, SessionAssumption DEF InLine
  <2>3. CASE current = NoRequest /\ list # <<>>
    <3>1. /\ hand'[t] = Head(list) /\ list' = Tail(list) /\ current' = current
          /\ pc'[t] = "cleaning"
      BY <1>6, <1>a, <2>3, KernelSteps DEF CleanupTake
    <3> QED
      BY <1>h, <1>t, <2>1, <2>3, <3>1, SessionAssumption DEF InLine
  <2>4. CASE current = NoRequest /\ list = <<>>
    <3>1. hand'[t] = NoRequest /\ list' = list /\ current' = current
      BY <1>6, <1>a, <2>1, <2>4 DEF CleanupTake
    <3> QED
      BY <1>h, <1>l, <2>1, <2>4, <3>1, SessionAssumption DEF InLine
  <2> QED
    BY <2>2, <2>3, <2>4
<1> QED
  BY <1>1, <1>2, <1>3, <1>4, <1>5, <1>6

\* Closing a reference of a request that its caller has too frees nothing of the calls.
LEMMA CloseBesides ==
    ASSUME Types, QueueInv, NEW t \in Threads, NEW also, CloseRequest(hand[t], also),
           hand[t] \in Requests, hand[t] # current, pc[t] # "receiving"
    PROVE  \A u \in Clients, q \in Requests : own[u] = q => event'[q] = event[q]
<1> SUFFICES ASSUME NEW u \in Clients, NEW q \in Requests, own[u] = q
             PROVE  event'[q] = event[q]
  OBVIOUS
<1>1. CASE q = hand[t]
  <2>1. Owned(q) /\ Held(q) /\ ~Listed(q)
    BY <1>1 DEF Owned, Held, QueueInv, PlacesDistinct
  <2>2. rrefs[q] = 2
    BY <1>1, <2>1 DEF QueueInv, PlacesCounted, One
  <2> QED
    BY <1>1, <2>2 DEF CloseRequest
<1>2. CASE q # hand[t]
  BY <1>2 DEF CloseRequest, Types
<1> QED
  BY <1>1, <1>2

\* An answer ends the wait for it, and the request is not in line any more.
LEMMA CallsAnswered ==
    ASSUME Types, Types', QueueInv, QueueInv', ThreadsInv, CallsInLine, NEW t \in Threads,
           Answers(t)
    PROVE  CallsInLine'
<1>1. /\ t \in Servers /\ hand[t] \in Requests /\ lock = t /\ Steps(t)
      /\ \A u \in Clients :
            pc'[u] = IF pc[u] = "waiting" /\ own[u] = hand[t] THEN "return" ELSE pc[u]
  BY WaitsAnswered
<1> DEFINE r == hand[t]
<1>2. /\ pc[t] \in {"refuse", "replying", "cleaning"} /\ hand'[t] = NoRequest
      /\ lock' \in {Nobody, t} /\ UNCHANGED <<list, current, own, terminating>>
      /\ \E also : CloseRequest(r, also)
  BY <1>1 DEF Answers, RefuseRequest, ReplyToClient, CleanupAnswer, At, queueVars, Types
<1>3. r # current /\ ~Listed(r)
  BY <1>1, <1>2, SessionAssumption DEF QueueInv, PlacesDistinct
<1>4. \A q \in Requests : InLine(q)' <=> InLine(q) /\ q # r
  <2>1. \A q \in Requests : /\ Held(q) <=> hand[t] = q /\ pc[t] # "receiving"
                            /\ Held(q)' <=> hand'[t] = q /\ pc'[t] # "receiving"
    BY <1>1, <1>2, HeldAlone DEF QueueInv
  <2>2. \A q : Listed(q)' <=> Listed(q)
    BY <1>2 DEF Listed
  <2> QED
    BY <1>2, <1>3, <2>1, <2>2, SessionAssumption DEF InLine
<1>5. \A u \in Clients, q \in Requests : own[u] = q => event'[q] = event[q]
  BY <1>1, <1>2, <1>3, CloseBesides
<1> SUFFICES ASSUME NEW u \in Clients
             PROVE  /\ pc'[u] = "waiting" =>
                          InLine(own[u])' /\ ~event'[own[u]] /\ u \notin terminating
                    /\ pc'[u] = "return" /\ ~event'[own[u]] /\ u \notin terminating =>
                          ~InLine(own[u])'
  BY <1>2 DEF CallsInLine
<1>6. CASE pc'[u] \in {"waiting", "return"}
  <2>1. pc[u] \in {"waiting", "return"}
    BY <1>1, <1>6
  <2>2. PICK q \in Requests : q = own[u]
    BY <2>1 DEF Types, QueueInv, CallsOwn
  <2>3. InLine(own[u])' <=> InLine(q)'
    BY <1>2, <2>2 DEF InLine, Listed, Held
  <2>4. /\ pc[u] = "waiting" => InLine(q) /\ ~event[q] /\ u \notin terminating
        /\ pc[u] = "return" /\ ~event[q] /\ u \notin terminating => ~InLine(q)
    BY <2>2 DEF CallsInLine
  <2> QED
    BY <1>1, <1>4, <1>5, <2>1, <2>2, <2>3, <2>4
<1>7. CASE pc'[u] \notin {"waiting", "return"}
  BY <1>7
<1> QED
  BY <1>6, <1>7

\* The calls that begin, send their request and end.
LEMMA CallsOwnSteps ==
    ASSUME Types, Types', QueueInv, QueueInv', CallsInLine, NEW t \in Threads,
           \/ t \in Clients /\ \E async \in BOOLEAN : SendRequest(t, async)
           \/ t \in Clients /\ RequestTerminate(t)
           \/ OnRequest(t) \/ CallReturn(t)
    PROVE  CallsInLine'
<1> USE DEF QueueInv, At
<1>1. /\ Steps(t) /\ t \in Clients /\ UNCHANGED <<current, lock, hand, victim>>
      /\ \/ pc'[t] = pc[t]
         \/ pc[t] \notin Busy \cup {"drain", "cleanup"} /\ pc'[t] \notin Busy
  <2>1. ASSUME NEW async \in BOOLEAN, t \in Clients, SendRequest(t, async)
        PROVE  Steps(t) /\ pc[t] = "idle" /\ pc'[t] = "send"
    BY <2>1, GuestSteps DEF SendRequest
  <2>2. ASSUME t \in Clients, RequestTerminate(t)
        PROVE  /\ Steps(t)
               /\ \/ pc'[t] = pc[t]
                  \/ pc[t] = "waiting" /\ pc'[t] = "return"
                  \/ pc[t] = "idle" /\ pc'[t] = "dead"
    BY <2>2, GuestSteps
  <2>3. ASSUME OnRequest(t) \/ CallReturn(t)
        PROVE  /\ Steps(t) /\ t \in Clients
               /\ pc[t] \in {"send", "return"} /\ pc'[t] \in {"return", "waiting", "leave"}
    BY <2>3, KernelSteps DEF OnRequest, CallReturn
  <2>4. Steps(t) /\ t \in Clients
    BY <2>1, <2>2, <2>3
  <2>5. \/ pc'[t] = pc[t]
        \/ pc[t] \notin Busy \cup {"drain", "cleanup"} /\ pc'[t] \notin Busy
    BY <2>1, <2>2, <2>3 DEF Busy
  <2>6. UNCHANGED <<current, lock, hand, victim>>
    BY DEF SendRequest, RequestTerminate, OnRequest, CallReturn, queueVars, localVars
  <2> QED
    BY <2>4, <2>5, <2>6
<1>2. \A q \in Requests : Held(q)' <=> Held(q)
  BY <1>1, HandsKept
<1>3. \A u \in Clients \ {t} : pc'[u] = pc[u]
  BY ClientsStay DEF Kernel, Answers, RefuseRequest, ReplyToClient, CleanupAnswer,
                     OnRequest, CallReturn
<1>l. ASSUME list' = list PROVE \A q \in Requests : InLine(q)' <=> InLine(q)
  BY <1>1, <1>2, <1>l DEF InLine, Listed
<1>4. ASSUME NEW async \in BOOLEAN, SendRequest(t, async) PROVE CallsInLine'
  <2>1. PICK r \in Requests : /\ rrefs[r] = 0
                              /\ event' = [event EXCEPT ![r] = async]
                              /\ own' = [own EXCEPT ![t] = r]
    BY <1>4 DEF SendRequest
  <2>2. \A u \in Clients : own[u] # r
    BY <2>1 DEF PlacesCounted, One, Owned
  <2>3. \A u \in Clients \ {t}, q \in Requests : own[u] = q =>
           own'[u] = q /\ event'[q] = event[q]
    BY <2>1, <2>2 DEF Types
  <2>4. list' = list /\ terminating' = terminating /\ pc'[t] = "send"
    BY <1>1, <1>4, GuestSteps DEF SendRequest, queueVars
  <2> QED
    BY <1>3, <1>l, <2>3, <2>4, CallsMove
<1>5. CASE RequestTerminate(t)
  <2>1. UNCHANGED <<list, own, event>> /\ terminating' = terminating \cup {t}
        /\ pc'[t] # "waiting"
    BY <1>1, <1>5, GuestSteps DEF RequestTerminate, queueVars, requestVars, localVars
  <2> QED
    BY <1>3, <1>l, <2>1, CallsMove
<1>6. CASE CallReturn(t)
  <2>1. PICK r \in Requests : r = own[t]
    BY <1>6, Requested DEF CallReturn
  <2>2. /\ list' = list /\ terminating' = terminating /\ pc'[t] = "leave"
        /\ own' = [own EXCEPT ![t] = NoRequest] /\ CloseRequest(r, {})
    BY <1>6, <2>1, KernelSteps DEF CallReturn, queueVars
  <2>3. \A u \in Clients \ {t} : own[u] # r
    BY <1>1, <2>1, SessionAssumption DEF CallsOwn
  <2>4. \A u \in Clients \ {t}, q \in Requests : own[u] = q =>
           own'[u] = q /\ event'[q] = event[q]
    BY <2>2, <2>3 DEF CloseRequest, Types
  <2> QED
    BY <1>3, <1>l, <2>2, <2>4, CallsMove
<1>7. CASE OnRequest(t) /\ (state # "Normal" \/ t \in terminating)
  <2>1. /\ UNCHANGED <<list, own, event, terminating>>
        /\ pc[t] = "send" /\ pc'[t] = "return"
    BY <1>1, <1>7 DEF OnRequest, localVars, Types, LabelsOK, Threads
  <2>2. PICK r \in Requests : r = own[t]
    BY <2>1, Requested
  <2>3. ~InLine(r) /\ (InLine(own[t])' <=> InLine(r)')
    BY <1>1, <2>1, <2>2 DEF SendsNew, InLine, Listed, Held
  <2> QED
    BY <1>3, <1>l, <2>1, <2>2, <2>3, CallsMove
<1>8. CASE OnRequest(t) /\ state = "Normal" /\ t \notin terminating
  <2>1. pc[t] = "send" /\ UNCHANGED <<own, event, terminating>>
    BY <1>8 DEF OnRequest, localVars
  <2>2. PICK r \in Requests : r = own[t]
    BY <2>1, Requested
  <2>3. list' = Append(list, r)
    BY <1>8, <2>2 DEF OnRequest
  <2>4. pc'[t] = IF event[r] THEN "return" ELSE "waiting"
    <3>1. PICK f : Moves(f) /\ pc' = [f EXCEPT ![t] = IF event[r] THEN "return" ELSE "waiting"]
      BY <1>8, <2>2, HelpersMove DEF OnRequest
    <3> QED
      BY <3>1 DEF Moves
  <2>5. \A q \in Requests : Listed(q)' <=> Listed(q) \/ q = r
    BY <2>3, ListAppend
  <2>6. InLine(own[t])' /\ \A q \in Requests : q # r => (InLine(q)' <=> InLine(q))
    <3>1. InLine(r)' /\ \A q \in Requests : q # r => (InLine(q)' <=> InLine(q))
      BY <1>1, <1>2, <2>5 DEF InLine
    <3> QED
      BY <2>1, <2>2, <3>1 DEF InLine, Listed, Held
  <2>7. \A u \in Clients \ {t} : own[u] # r
    BY <1>1, <2>2, SessionAssumption DEF CallsOwn
  <2> QED
    BY <1>3, <1>8, <2>1, <2>2, <2>4, <2>6, <2>7, CallsMove
<1> QED
  BY <1>4, <1>5, <1>6, <1>7, <1>8

\* The steps that answer nothing and are no call's own: what is in line stays in line.
LEMMA CallsPassed ==
    ASSUME Types, Types', QueueInv, QueueInv', CallsInLine, NEW t \in Threads,
           \/ t \in Clients /\ SendFails(t)
           \/ \E e \in {"client", "server"} : CloseHandle(t, e)
           \/ t \in Servers /\ \E what \in {"wait", "reply"} : ServerCall(t, what)
           \/ t \in Servers /\ WaitTimeout(t)
           \/ CallLeave(t) \/ Wait(t) \/ ReceiveRequest(t) \/ SetCurrent(t)
           \/ ReceiveSucceeds(t) \/ ReceiveFails(t) \/ SendReply(t) \/ ServerLeave(t)
           \/ Destroy(t) \/ SetState(t) \/ CleanupTake(t) \/ CloseParent(t)
    PROVE  CallsInLine'
<1> USE DEF QueueInv, At
<1>1. /\ UNCHANGED <<own, event, terminating>>
      /\ t \in Clients => pc'[t] \notin {"waiting", "return"}
  <2>1. UNCHANGED <<own, event, terminating>>
    BY DEF SendFails, CloseHandle, ServerCall, WaitTimeout, CallLeave, Wait, ReceiveRequest, SetCurrent,
           ReceiveSucceeds, ReceiveFails, SendReply, ServerLeave, Destroy, SetState,
           CleanupTake, CloseParent, requestVars, localVars
  <2>2. ASSUME \/ t \in Clients /\ SendFails(t)
               \/ \E e \in {"client", "server"} : CloseHandle(t, e)
               \/ CallLeave(t) \/ Destroy(t) \/ SetState(t) \/ CloseParent(t)
        PROVE  pc'[t] \notin {"waiting", "return"}
    BY <2>2, GuestSteps, KernelSteps DEF Home
  <2>3. ASSUME \/ Wait(t) \/ ReceiveRequest(t) \/ SetCurrent(t)
               \/ ReceiveSucceeds(t) \/ ReceiveFails(t) \/ SendReply(t) \/ ServerLeave(t)
               \/ CleanupTake(t)
        PROVE  t \in Servers
    BY <2>3, KernelSteps
  <2> QED
    BY <2>1, <2>2, <2>3, Sides
<1>2. \A u \in Clients \ {t} : pc'[u] = pc[u]
  <2>1. ~Answers(t)
    BY KernelSteps DEF Answers, RefuseRequest, ReplyToClient, CleanupAnswer,
         SendFails, CloseHandle, ServerCall, WaitTimeout, CallLeave, Wait, ReceiveRequest, SetCurrent,
         ReceiveSucceeds, ReceiveFails, SendReply, ServerLeave, Destroy, SetState,
         CleanupTake, CloseParent
  <2> QED
    BY <2>1, ClientsStay DEF Kernel
<1>3. \A q \in Requests : InLine(q)' <=> InLine(q)
  <2>1. CASE \/ SetCurrent(t) \/ ReceiveSucceeds(t) \/ ReceiveFails(t) \/ CleanupTake(t)
             \/ ReceiveRequest(t) /\ state = "Normal" /\ current = NoRequest /\ list # <<>>
             \/ SendReply(t) /\ current # NoRequest
    BY <2>1, LineKept
  <2>q. ASSUME Steps(t), UNCHANGED <<list, current, lock, hand, victim>>,
               pc[t] \notin Busy \cup {"drain", "cleanup"}, pc'[t] \notin Busy
        PROVE  \A q \in Requests : InLine(q)' <=> InLine(q)
    BY <2>q, HandsKept DEF InLine, Listed
  <2>2. ASSUME NEW e \in {"client", "server"}, CloseHandle(t, e)
        PROVE  \A q \in Requests : InLine(q)' <=> InLine(q)
    <3>1. /\ Steps(t) /\ UNCHANGED <<list, current, lock, hand, victim>>
          /\ pc[t] = "idle" /\ pc'[t] \in {"destroy", "idle"}
      BY <2>2, GuestSteps DEF CloseHandle, queueVars, localVars
    <3> QED
      BY <2>q, <3>1 DEF Busy
  <2>f. CASE t \in Clients /\ SendFails(t)
    <3>1. /\ Steps(t) /\ UNCHANGED <<list, current, lock, hand, victim>>
          /\ pc[t] = "idle" /\ pc'[t] = "leave"
      BY <2>f, GuestSteps DEF SendFails, queueVars, localVars
    <3> QED
      BY <2>q, <3>1 DEF Busy
  <2>3. ASSUME t \in Servers, NEW what \in {"wait", "reply"}, ServerCall(t, what)
        PROVE  \A q \in Requests : InLine(q)' <=> InLine(q)
    <3>1. /\ Steps(t) /\ UNCHANGED <<list, current, lock, hand, victim>>
          /\ pc[t] = "idle" /\ pc'[t] \in {"wait", "reply"}
      BY <2>3, GuestSteps DEF ServerCall, queueVars, localVars
    <3> QED
      BY <2>q, <3>1 DEF Busy
  <2>4. CASE t \in Servers /\ WaitTimeout(t)
    <3>1. /\ Steps(t) /\ UNCHANGED <<list, current, lock, hand, victim>>
          /\ pc[t] = "sleeping" /\ pc'[t] = "leave"
      BY <2>4, GuestSteps DEF WaitTimeout, queueVars, localVars
    <3> QED
      BY <2>q, <3>1 DEF Busy
  <2>5. CASE CallLeave(t) \/ Wait(t) \/ ServerLeave(t) \/ Destroy(t) \/ SetState(t) \/ CloseParent(t)
    <3>1. UNCHANGED <<list, current, lock, hand, victim>>
      BY <2>5 DEF CallLeave, Wait, ServerLeave, Destroy, SetState, CloseParent, queueVars, localVars
    <3>2. pc[t] \in {"leave", "wait", "destroy", "close", "closed"}
      BY <2>5 DEF CallLeave, Wait, ServerLeave, Destroy, SetState, CloseParent
    <3>3. Steps(t) /\ pc'[t] \in {"destroy", "idle", "dead", "receive", "sleeping", "close",
                                  "cleanup", "closed", "drain"}
      BY <2>5, KernelSteps DEF Home
    <3> QED
      BY <2>q, <3>1, <3>2, <3>3 DEF Busy
  <2>6. CASE ReceiveRequest(t) /\ ~(state = "Normal" /\ current = NoRequest /\ list # <<>>)
    <3>1. /\ Steps(t) /\ UNCHANGED <<list, current, lock, hand, victim>>
          /\ pc[t] = "receive" /\ pc'[t] \in {"leave", "wait"}
      BY <2>6, KernelSteps DEF ReceiveRequest
    <3> QED
      BY <2>q, <3>1 DEF Busy
  <2>7. CASE SendReply(t) /\ current = NoRequest
    <3>1. /\ Steps(t) /\ UNCHANGED <<list, current, lock, hand, victim>>
          /\ pc[t] = "reply" /\ pc'[t] = "leave"
      BY <2>7, KernelSteps DEF SendReply
    <3> QED
      BY <2>q, <3>1 DEF Busy
  <2> QED
    BY <2>1, <2>2, <2>f, <2>3, <2>4, <2>5, <2>6, <2>7
<1> QED
  BY <1>1, <1>2, <1>3, CallsMove

\* The client end goes through the requests when no client is in a call.
LEMMA CallsOver ==
    ASSUME Types, QueueInv, EndsInv, NEW t \in Threads,
           \/ DrainCurrent(t) \/ DrainPending(t) \/ DrainEnd(t) \/ LeaveCurrent(t)
           \/ CancelPending(t)
    PROVE  /\ CallsInLine'
           /\ \A u \in Clients : pc'[u] # "waiting"
<1>1. t \in Clients /\ Steps(t) /\ pc'[t] \in {"looked", "popped", "closed", "drain"}
  BY KernelSteps DEF QueueInv
<1>2. pc[t] \in Ending
  BY DEF DrainCurrent, DrainPending, DrainEnd, LeaveCurrent, CancelPending, At, Ending
<1>3. \A u \in Clients : pc[u] \notin Calling
  BY <1>1, <1>2, EndedAlone DEF ClientEnding
<1>4. \A u \in Clients : pc'[u] \notin {"waiting", "return"}
  BY <1>1, <1>3, Bystanders DEF Calling, Threads
<1> QED
  BY <1>4 DEF CallsInLine

LEMMA CallsKept ==
    ASSUME Types, Types', QueueInv, QueueInv', EndsInv, ThreadsInv, CallsInLine, Next
    PROVE  CallsInLine'
<1>1. ASSUME NEW t \in Clients,
             \/ \E async \in BOOLEAN : SendRequest(t, async)
             \/ RequestTerminate(t)
      PROVE  CallsInLine'
  BY <1>1, CallsOwnSteps DEF Threads
<1>2. ASSUME NEW t \in Clients, SendFails(t) \/ CloseHandle(t, "client") PROVE CallsInLine'
  BY <1>2, CallsPassed DEF Threads
<1>3. ASSUME NEW s \in Servers,
             \/ \E what \in {"wait", "reply"} : ServerCall(s, what)
             \/ WaitTimeout(s) \/ CloseHandle(s, "server")
      PROVE  CallsInLine'
  BY <1>3, CallsPassed DEF Threads
<1>4. ASSUME NEW t \in Threads, Answers(t) PROVE CallsInLine'
  BY <1>4, CallsAnswered
<1>5. ASSUME NEW t \in Threads, Kernel(t), ~Answers(t) PROVE CallsInLine'
  <2>1. CASE OnRequest(t) \/ CallReturn(t)
    BY <2>1, CallsOwnSteps
  <2>2. CASE \/ DrainCurrent(t) \/ DrainPending(t) \/ DrainEnd(t) \/ LeaveCurrent(t)
             \/ CancelPending(t)
    BY <2>2, CallsOver
  <2>3. CASE \/ CallLeave(t) \/ Wait(t) \/ ReceiveRequest(t) \/ SetCurrent(t)
             \/ ReceiveSucceeds(t) \/ ReceiveFails(t) \/ SendReply(t) \/ ServerLeave(t)
             \/ Destroy(t) \/ SetState(t) \/ CleanupTake(t) \/ CloseParent(t)
    BY <2>3, CallsPassed
  <2> QED
    BY <1>5, <2>1, <2>2, <2>3 DEF Kernel, Answers
<1> QED
  BY <1>1, <1>2, <1>3, <1>4, <1>5 DEF Next, Guest

\* Every step is some thread's.
Asks(t) ==
    \/ t \in Clients /\ \E async \in BOOLEAN : SendRequest(t, async)
    \/ t \in Clients /\ (SendFails(t) \/ RequestTerminate(t))
    \/ t \in Clients /\ CloseHandle(t, "client")
    \/ t \in Servers /\ CloseHandle(t, "server")
    \/ t \in Servers /\ \E what \in {"wait", "reply"} : ServerCall(t, what)
    \/ t \in Servers /\ WaitTimeout(t)

LEMMA Actor ==
    ASSUME Next
    PROVE  \E t \in Threads : Asks(t) \/ Kernel(t)
BY DEF Next, Guest, Asks, Threads

LEMMA ActorSteps ==
    ASSUME Types, HandsLocked, NEW t \in Threads, Asks(t) \/ Kernel(t)
    PROVE  Steps(t)
<1>1. CASE Asks(t)
  BY <1>1, GuestSteps DEF Asks
<1>2. CASE Kernel(t)
  BY <1>2, KernelSteps DEF Kernel
<1> QED
  BY <1>1, <1>2

\* A thread begins to wait, or to sleep, or leaves where somebody relies on it, by a
\* step of its own.
LEMMA Rests ==
    ASSUME Types, HandsLocked, NEW t \in Threads, Asks(t) \/ Kernel(t)
    PROVE  /\ pc'[t] = "waiting" => OnRequest(t) /\ state = "Normal" /\ t \in Clients
           /\ pc'[t] = "sleeping" => Wait(t) /\ ~IsSignaled
           /\ pc[t] \in {"drain", "looked", "popped"} =>
                 pc'[t] \in {"drain", "looked", "popped"} \/ DrainEnd(t)
           /\ t \in Servers /\ pc[t] \in {"destroy", "close", "cleanup", "cleaning"} =>
                 \/ pc'[t] \in {"destroy", "close", "cleanup", "cleaning"}
                 \/ CleanupTake(t) /\ current = NoRequest /\ list = <<>>
           /\ pc[t] = "received" => SetCurrent(t)
<1> USE DEF At
<1>t. t \in Clients <=> t \notin Servers
  BY Sides
<1>1. CASE Asks(t)
  <2>1. CASE t \in Clients /\ RequestTerminate(t)
    <3>1. pc[t] \notin {"sleeping", "received"}
      BY <2>1, <1>t, Sides DEF Serving
    <3> QED
      BY <1>t, <2>1, <3>1, GuestSteps
  <2>2. CASE ~(t \in Clients /\ RequestTerminate(t))
    <3>1. pc[t] \in {"idle", "sleeping"} /\ pc'[t] \in {"send", "destroy", "idle", "wait", "reply", "leave"}
      <4>1. ASSUME NEW async \in BOOLEAN, t \in Clients, SendRequest(t, async)
            PROVE  pc[t] = "idle" /\ pc'[t] = "send"
        BY <4>1, GuestSteps DEF SendRequest
      <4>2. ASSUME NEW e \in {"client", "server"}, CloseHandle(t, e)
            PROVE  pc[t] = "idle" /\ pc'[t] \in {"destroy", "idle"}
        BY <4>2, GuestSteps DEF CloseHandle
      <4>3. ASSUME NEW what \in {"wait", "reply"}, t \in Servers, ServerCall(t, what)
            PROVE  pc[t] = "idle" /\ pc'[t] \in {"wait", "reply"}
        BY <4>3, GuestSteps DEF ServerCall
      <4>4. ASSUME t \in Servers, WaitTimeout(t)
            PROVE  pc[t] = "sleeping" /\ pc'[t] = "leave"
        BY <4>4, GuestSteps DEF WaitTimeout
      <4>5. ASSUME t \in Clients, SendFails(t)
            PROVE  pc[t] = "idle" /\ pc'[t] = "leave"
        BY <4>5, GuestSteps DEF SendFails
      <4> QED
        BY <1>1, <2>2, <4>1, <4>2, <4>3, <4>4, <4>5 DEF Asks
    <3> QED
      BY <3>1
  <2> QED
    BY <2>1, <2>2
<1>2. CASE OnRequest(t)
  <2>1. pc[t] = "send"
    BY <1>2 DEF OnRequest
  <2>2. pc'[t] = "waiting" => state = "Normal"
    BY <1>2 DEF OnRequest, Types, LabelsOK
  <2> QED
    BY <1>2, <2>1, <2>2, KernelSteps
<1>3. CASE CallReturn(t) \/ CallLeave(t)
  BY <1>3, KernelSteps DEF CallReturn, CallLeave, Home
<1>4. CASE Wait(t)
  BY <1>4, <1>t, KernelSteps DEF Wait
<1>5. CASE ReceiveRequest(t) \/ SetCurrent(t) \/ ReceiveSucceeds(t) \/ ReceiveFails(t)
  BY <1>5, <1>t, KernelSteps DEF ReceiveRequest, SetCurrent, ReceiveSucceeds, ReceiveFails
<1>6. CASE RefuseRequest(t) \/ SendReply(t) \/ ReplyToClient(t) \/ ServerLeave(t)
  BY <1>6, <1>t, KernelSteps DEF RefuseRequest, SendReply, ReplyToClient, ServerLeave
<1>7. CASE Destroy(t) \/ SetState(t)
  BY <1>7, <1>t, KernelSteps DEF Destroy, SetState
<1>8. CASE DrainCurrent(t) \/ DrainPending(t) \/ DrainEnd(t) \/ LeaveCurrent(t) \/ CancelPending(t)
  BY <1>8, <1>t, KernelSteps
     DEF DrainCurrent, DrainPending, DrainEnd, LeaveCurrent, CancelPending
<1>9. CASE CleanupTake(t)
  BY <1>9, <1>t, KernelSteps DEF CleanupTake
<1>10. CASE CleanupAnswer(t) \/ CloseParent(t)
  BY <1>10, <1>t, KernelSteps DEF CleanupAnswer, CloseParent, Home
<1> QED
  BY <1>1, <1>2, <1>3, <1>4, <1>5, <1>6, <1>7, <1>8, <1>9, <1>10 DEF Kernel

\* The references of the server end fall by its own users only.
LEMMA ServerRefs ==
    ASSUME Types, NEW t \in Threads, Asks(t) \/ Kernel(t)
    PROVE  \/ refs'["server"] \in {refs["server"], refs["server"] + 1}
           \/ /\ t \in Servers /\ refs'["server"] = refs["server"] - 1
              /\ refs["server"] = 1 => pc'[t] = "destroy"
<1> USE DEF Ends
<1>1. refs \in [{"client", "server", "parent"} -> Int] /\ pc \in [Threads -> ClientLabels \cup ServerLabels]
  BY DEF Types, LabelsOK
<1>2. ASSUME NEW e \in Ends, NEW also, NEW after, CloseEnd(t, e, also, after), "server" \notin also
      PROVE  /\ e # "server" => refs'["server"] = refs["server"]
             /\ e = "server" => /\ refs'["server"] = refs["server"] - 1
                                /\ refs["server"] = 1 => pc'[t] = "destroy"
  BY <1>1, <1>2 DEF CloseEnd
<1>3. CASE (t \in Clients /\ CloseHandle(t, "client")) \/ CallLeave(t)
  <2>1. \E after : \E also \in {{}, {"parent"}} : CloseEnd(t, "client", also, after)
    BY <1>3 DEF CloseHandle, CallLeave
  <2> QED
    BY <1>2, <2>1
<1>8. CASE t \in Servers /\ (CloseHandle(t, "server") \/ ServerLeave(t))
  <2>1. \E after : CloseEnd(t, "server", {}, after)
    BY <1>8 DEF CloseHandle, ServerLeave
  <2> QED
    BY <1>2, <1>8, <2>1
<1>4. ASSUME NEW async \in BOOLEAN, SendRequest(t, async) PROVE refs'["server"] = refs["server"]
  BY <1>1, <1>4 DEF SendRequest
<1>f. CASE SendFails(t)
  BY <1>1, <1>f DEF SendFails
<1>5. ASSUME NEW what \in {"wait", "reply"}, ServerCall(t, what)
      PROVE  refs'["server"] = refs["server"] + 1
  BY <1>1, <1>5 DEF ServerCall
<1>6. CASE CloseParent(t)
  BY <1>1, <1>6 DEF CloseParent
<1>7. CASE \/ RequestTerminate(t) \/ WaitTimeout(t) \/ OnRequest(t) \/ CallReturn(t) \/ Wait(t)
           \/ ReceiveRequest(t) \/ SetCurrent(t) \/ ReceiveSucceeds(t) \/ ReceiveFails(t)
           \/ RefuseRequest(t) \/ SendReply(t) \/ ReplyToClient(t) \/ Destroy(t) \/ SetState(t)
           \/ DrainCurrent(t) \/ DrainPending(t) \/ DrainEnd(t) \/ LeaveCurrent(t)
           \/ CancelPending(t) \/ CleanupTake(t) \/ CleanupAnswer(t)
  <2>1. refs' = refs
    BY <1>7 DEF sessionVars, RequestTerminate, WaitTimeout, OnRequest, CallReturn, Wait,
         ReceiveRequest, SetCurrent, ReceiveSucceeds, ReceiveFails, RefuseRequest, SendReply,
         ReplyToClient, Destroy, SetState, DrainCurrent, DrainPending, DrainEnd, LeaveCurrent,
         CancelPending, CleanupTake, CleanupAnswer
  <2> QED
    BY <2>1
<1>9. ServerLeave(t) => t \in Servers
  BY DEF ServerLeave
<1> QED
  BY <1>3, <1>4, <1>f, <1>5, <1>6, <1>7, <1>8, <1>9 DEF Asks, Kernel

\* As long as a client waits, the server end is there, or is being destroyed.
Answering == refs["server"] > 0 \/ \E s \in Servers :
                 pc[s] \in {"destroy", "close", "cleanup", "cleaning"}

LEMMA AnswersKept ==
    ASSUME Types, Types', QueueInv, EndsInv, CallsInLine, ServerAnswers,
           NEW t \in Threads, Asks(t) \/ Kernel(t)
    PROVE  ServerAnswers'
<1> SUFFICES ASSUME NEW u \in Clients, pc'[u] = "waiting" PROVE Answering'
  BY DEF ServerAnswers, Answering
<1>1. Steps(t) /\ refs["server"] \in Int
  BY ActorSteps DEF QueueInv, Types, Ends
<1>2. pc[u] = "waiting" \/ (state = "Normal" /\ OnRequest(t))
  BY <1>1, Rests, Bystanders DEF QueueInv, Threads
<1>3. Answering
  <2>1. CASE pc[u] = "waiting"
    BY <2>1 DEF ServerAnswers, Answering
  <2>2. CASE state = "Normal"
    BY <2>2 DEF EndsInv, StateTells, ServerOpen, Answering
  <2> QED
    BY <1>2, <2>1, <2>2
<1>4. CASE refs["server"] > 0
  BY <1>1, <1>4, ServerRefs DEF Answering
<1>5. ASSUME NEW s \in Servers, pc[s] \in {"destroy", "close", "cleanup", "cleaning"}
      PROVE  Answering'
  <2>1. CASE s # t
    <3>1. pc'[s] = pc[s]
      BY <1>1, <1>5, <2>1, Bystanders DEF Threads
    <3> QED
      BY <1>5, <3>1 DEF Answering
  <2>2. CASE s = t /\ pc'[t] \in {"destroy", "close", "cleanup", "cleaning"}
    BY <2>2 DEF Answering
  <2>3. CASE s = t /\ CleanupTake(t) /\ current = NoRequest /\ list = <<>>
    <3>1. pc[u] = "waiting" /\ pc[t] = "cleanup" /\ lock \in {Nobody, t}
      BY <1>2, <2>3 DEF CleanupTake, OnRequest, At
    <3>2. InLine(own[u]) /\ own[u] \in Requests
      BY <3>1 DEF CallsInLine, QueueInv, CallsOwn, Types
    <3>3. ~Listed(own[u]) /\ current # own[u]
      BY <2>3, <3>2, SessionAssumption DEF Listed
    <3>4. PICK k \in Threads : hand[k] = own[u]
      BY <3>2, <3>3 DEF InLine, Held
    <3>5. hand[k] # NoRequest
      BY <3>2, <3>4, SessionAssumption
    <3>6. k = t
      BY <3>1, <3>5, LockAlone DEF QueueInv
    <3> QED
      BY <3>1, <3>5, <3>6 DEF QueueInv, HandsLocked, Busy
  <2> QED
    BY <1>5, <2>1, <2>2, <2>3, Rests DEF QueueInv
<1> QED
  BY <1>3, <1>4, <1>5 DEF Answering

\* A closed session has woken the servers, or will.
Draining == \E t \in Clients : pc[t] \in {"drain", "looked", "popped"}

LEMMA ClosedKept ==
    ASSUME Types, Types', QueueInv, EndsInv, ClosedWakes,
           NEW t \in Threads, Asks(t) \/ Kernel(t)
    PROVE  ClosedWakes'
<1> SUFFICES ASSUME state' # "Normal", NEW s \in Servers, pc'[s] = "sleeping" PROVE Draining'
  BY DEF ClosedWakes, Draining
<1>1. Steps(t)
  BY ActorSteps DEF QueueInv
<1>2. state # "Normal" \/ SetState(t)
  BY DEF Asks, Kernel, sessionVars, SendRequest, SendFails, RequestTerminate, CloseHandle, ServerCall,
         WaitTimeout, OnRequest, CallReturn, CallLeave, Wait, ReceiveRequest, SetCurrent,
         ReceiveSucceeds, ReceiveFails, RefuseRequest, SendReply, ReplyToClient, ServerLeave,
         Destroy, DrainCurrent, DrainPending, DrainEnd, LeaveCurrent, CancelPending,
         CleanupTake, CleanupAnswer, CloseParent
<1>3. pc[s] = "sleeping"
  <2>1. ~(s = t /\ Wait(t) /\ ~IsSignaled)
    BY <1>2 DEF IsSignaled, Signaled, Wait, SetState, At, sessionVars
  <2> QED
    BY <1>1, <2>1, Rests, Bystanders DEF QueueInv, Threads
<1>4. CASE SetState(t)
  <2>1. pc[t] = "close" /\ pc'[t] = IF t \in Servers THEN "cleanup" ELSE "drain"
    BY <1>4, KernelSteps DEF SetState, At, QueueInv
  <2>2. t \notin Servers
    BY <1>3, <2>1, EndedAlone DEF ServerEnding, Ending, Serving
  <2> QED
    BY <2>1, <2>2 DEF Draining, Threads
<1>5. CASE state # "Normal"
  <2>1. PICK c \in Clients : pc[c] \in {"drain", "looked", "popped"}
    BY <1>3, <1>5 DEF ClosedWakes
  <2>2. CASE c # t
    <3>1. pc'[c] = pc[c]
      BY <1>1, <2>1, <2>2, Bystanders DEF Threads
    <3> QED
      BY <2>1, <3>1 DEF Draining
  <2>3. CASE c = t /\ pc'[t] \in {"drain", "looked", "popped"}
    BY <2>3 DEF Draining
  <2>4. CASE DrainEnd(t)
    <3>1. pc' = [Woken(pc, "leave") EXCEPT ![t] = "closed"]
      BY <1>5, <2>4 DEF DrainEnd, NotifyAvailable, Signaled
    <3>2. Woken(pc, "leave") \in [Threads -> ClientLabels \cup ServerLabels]
          /\ Woken(pc, "leave")[s] = "leave"
      BY <1>3, HelpersMove DEF Moves, Woken, Threads
    <3> QED
      BY <3>1, <3>2 DEF Threads
  <2> QED
    BY <2>1, <2>2, <2>3, <2>4, Rests DEF QueueInv
<1> QED
  BY <1>2, <1>4, <1>5

\* Where the session becomes worth waking for.
LEMMA Signals ==
    ASSUME Types, NEW t \in Threads, Asks(t) \/ Kernel(t)
    PROVE  \/ list' = list /\ current' = current
           \/ OnRequest(t) /\ current' = current
           \/ ReceiveRequest(t) /\ pc'[t] = "received"
           \/ SetCurrent(t)
           \/ ReceiveFails(t) /\ list' = list
           \/ SendReply(t) /\ list' = list /\ current # NoRequest
           \/ pc[t] \in {"drain", "cleanup"}
<1>1. ASSUME ReceiveRequest(t) PROVE (list' = list /\ current' = current) \/ pc'[t] = "received"
  BY <1>1 DEF ReceiveRequest, Types, LabelsOK
<1>2. ASSUME \/ DrainCurrent(t) \/ DrainPending(t) \/ DrainEnd(t) \/ CleanupTake(t)
      PROVE  pc[t] \in {"drain", "cleanup"}
  BY <1>2 DEF DrainCurrent, DrainPending, DrainEnd, CleanupTake, At
<1>3. ASSUME SendReply(t) PROVE list' = list /\ (current # NoRequest \/ current' = current)
  BY <1>3 DEF SendReply
<1>4. ASSUME ReceiveFails(t) PROVE list' = list
  BY <1>4 DEF ReceiveFails
<1>5. ASSUME OnRequest(t) PROVE current' = current
  BY <1>5 DEF OnRequest
<1>6. ASSUME \/ Asks(t)
             \/ CallReturn(t) \/ CallLeave(t) \/ Wait(t) \/ ReceiveSucceeds(t)
             \/ RefuseRequest(t) \/ ReplyToClient(t) \/ ServerLeave(t) \/ Destroy(t)
             \/ SetState(t) \/ LeaveCurrent(t) \/ CancelPending(t) \/ CleanupAnswer(t)
             \/ CloseParent(t)
      PROVE  list' = list /\ current' = current
  BY <1>6 DEF Asks, queueVars, SendRequest, SendFails, RequestTerminate, CloseHandle, ServerCall, WaitTimeout,
       CallReturn, CallLeave, Wait, ReceiveSucceeds, RefuseRequest, ReplyToClient, ServerLeave,
       Destroy, SetState, LeaveCurrent, CancelPending, CleanupAnswer, CloseParent
<1> QED
  BY <1>1, <1>2, <1>3, <1>4, <1>5, <1>6 DEF Kernel

\* Who wakes the servers leaves none asleep.
LEMMA Awake ==
    ASSUME Types, NEW t \in Threads, NEW l, l # "sleeping",
           pc' = [Woken(pc, "receive") EXCEPT ![t] = l]
    PROVE  \A s \in Servers : pc'[s] # "sleeping"
BY DEF Woken, Threads

LEMMA SleepersKept ==
    ASSUME Types, Types', QueueInv, EndsInv, SleepersAreWoken, ClosedWakes',
           NEW t \in Threads, Asks(t) \/ Kernel(t)
    PROVE  SleepersAreWoken'
<1> SUFFICES ASSUME IsSignaled', NEW s \in Servers, pc'[s] = "sleeping"
             PROVE  Draining' \/ \E k \in Servers : pc'[k] = "received"
  BY DEF SleepersAreWoken, Draining, At
<1>1. CASE state' # "Normal"
  BY <1>1 DEF ClosedWakes, Draining
<1>2. CASE state' = "Normal" /\ list' # <<>> /\ current' = NoRequest
  <2>1. Steps(t)
    BY ActorSteps DEF QueueInv
  <2>2. state = "Normal"
    BY <1>2 DEF Asks, Kernel, sessionVars, SendRequest, SendFails, RequestTerminate, CloseHandle, ServerCall,
           WaitTimeout, OnRequest, CallReturn, CallLeave, Wait, ReceiveRequest, SetCurrent, SetState,
           ReceiveSucceeds, ReceiveFails, RefuseRequest, SendReply, ReplyToClient, ServerLeave,
           Destroy, DrainCurrent, DrainPending, DrainEnd, LeaveCurrent, CancelPending,
           CleanupTake, CleanupAnswer, CloseParent
  <2>3. pc[s] = "sleeping" \/ (~IsSignaled /\ Wait(t))
    BY <2>1, Rests, Bystanders DEF QueueInv, Threads
  <2>4. pc[t] \notin {"drain", "cleanup"}
    <3>1. pc[t] # "drain"
      BY <2>2, Sides DEF EndsInv, StateTells
    <3>2. ASSUME pc[t] = "cleanup" PROVE FALSE
      <4>1. t \in Servers /\ \A k \in Servers : pc[k] \notin Serving
        BY <3>2, Sides, EndedAlone DEF ServerEnding, Ending
      <4>2. ~Wait(t)
        BY <3>2 DEF Wait, At
      <4> QED
        BY <2>3, <4>1, <4>2 DEF Serving
    <3> QED
      BY <3>1, <3>2
  <2>5. CASE IsSignaled
    <3>1. ~Draining /\ pc[s] = "sleeping"
      BY <2>2, <2>3, <2>5 DEF EndsInv, StateTells, Draining
    <3>2. PICK k \in Servers : pc[k] = "received"
      BY <2>5, <3>1 DEF SleepersAreWoken, Draining, At
    <3>3. CASE k # t
      BY <2>1, <3>2, <3>3, Bystanders DEF Threads
    <3>4. CASE k = t
      <4>1. SetCurrent(t) /\ hand[t] # NoRequest
        BY <3>2, <3>4, Rests DEF QueueInv, HandsLocked, Busy
      <4> QED
        BY <1>2, <4>1 DEF SetCurrent
    <3> QED
      BY <3>3, <3>4
  <2>6. CASE ~IsSignaled
    <3>1. CASE list' = list /\ current' = current
      BY <1>2, <2>6, <3>1 DEF IsSignaled, Signaled
    <3>2. CASE OnRequest(t) /\ current' = current
      <4>1. list = <<>> /\ state = "Normal" /\ list' # list
        BY <1>2, <2>2, <2>6, <3>2 DEF IsSignaled, Signaled
      <4>2. pc' = [Woken(pc, "receive") EXCEPT ![t] = IF event[own[t]] THEN "return" ELSE "waiting"]
        <5>1. Signaled(list', current)
          BY <1>2, <3>2 DEF Signaled
        <5> QED
          BY <3>2, <4>1, <5>1 DEF OnRequest, NotifyAvailable
      <4> QED
        BY <4>2, Awake
    <3>3. CASE ReceiveRequest(t) /\ pc'[t] = "received"
      BY <3>3, KernelSteps DEF QueueInv
    <3>4. CASE SetCurrent(t)
      BY <1>2, <3>4 DEF SetCurrent, QueueInv, HandsLocked, Busy, At
    <3>5. CASE ReceiveFails(t) /\ list' = list
      <4>1. pc' = [Woken(pc, "receive") EXCEPT ![t] = "refuse"]
        BY <1>2, <3>5 DEF ReceiveFails, NotifyIfPending, NotifyAvailable, Signaled
      <4> QED
        BY <4>1, Awake
    <3>6. CASE SendReply(t) /\ list' = list /\ current # NoRequest
      <4>1. pc' = [Woken(pc, "receive") EXCEPT ![t] = "replying"]
        BY <1>2, <3>6 DEF SendReply, NotifyIfPending, NotifyAvailable, Signaled
      <4> QED
        BY <4>1, Awake
    <3> QED
      BY <2>4, <3>1, <3>2, <3>3, <3>4, <3>5, <3>6, Signals
  <2> QED
    BY <2>5, <2>6
<1> QED
  BY <1>1, <1>2 DEF IsSignaled, Signaled

-----------------------------------------------------------------------------
(* The invariant.                                                          *)

LEMMA SessionInit ==
    ASSUME Init
    PROVE  SessionInv
<1> USE SessionAssumption DEF Init, None, Threads, Ends
<1>1. Types
  BY DEF Types, LabelsOK, ClientLabels, ServerLabels
<1>2. QueueInv
  BY DEF QueueInv, HandsLocked, CallsOwn, PlacesDistinct, PlacesCounted, SendsNew, Busy,
         Owned, Listed, Held, One
<1>3. EndsInv
  <2>1. InCall = {} /\ InService = {} /\ ~ClientEnding /\ ~ServerEnding
    BY DEF InCall, InService, ClientEnding, ServerEnding, Calling, Serving, Ending
  <2>2. Cardinality(InCall) = 0 /\ Cardinality(InService) = 0
    BY <2>1, FS_EmptySet
  <2>3. EndsCounted
    <3>1. refs["client"] = 1 /\ refs["server"] = 1 /\ refs["parent"] = 2
          /\ handle["client"] /\ handle["server"]
      OBVIOUS
    <3> QED
      BY <2>1, <2>2, <3>1 DEF EndsCounted, One, ClientEnding, ServerEnding
  <2> QED
    BY <2>3 DEF EndsInv, StateTells, ServerOpen
<1>4. ThreadsInv
  <2>1. \A t \in Clients : /\ Cardinality(RequestsOf(t)) = 0
                           /\ ~Receiving(t) /\ ~Taken(t)
    <3> TAKE t \in Clients
    <3>1. RequestsOf(t) = {}
      BY DEF RequestsOf
    <3> QED
      BY <3>1, FS_EmptySet DEF Receiving, Receiver, Taken
  <2>2. ThreadsCounted
    BY <2>1 DEF ThreadsCounted, One, Receiving, Taken
  <2>3. RequestsOwned
    BY DEF RequestsOwned, Listed
  <2> QED
    BY <2>2, <2>3 DEF ThreadsInv
<1>5. WaitInv
  BY DEF WaitInv, CallsInLine, ServerAnswers, ClosedWakes, SleepersAreWoken, IsSignaled,
         Signaled
<1> QED
  BY <1>1, <1>2, <1>3, <1>4, <1>5 DEF SessionInv

LEMMA SessionNext ==
    ASSUME SessionInv, Next
    PROVE  SessionInv'
<1> USE DEF SessionInv
<1>1. Types'
  BY TypesKept DEF QueueInv
<1>2. QueueInv'
  BY <1>1, QueueKept
<1>3. EndsInv'
  BY <1>1, EndsKept DEF QueueInv
<1>4. ThreadsInv'
  BY <1>1, <1>2, ThreadsKept DEF WaitInv
<1>5. PICK t \in Threads : Asks(t) \/ Kernel(t)
  BY Actor
<1>6. CallsInLine'
  BY <1>1, <1>2, CallsKept DEF WaitInv
<1>7. ServerAnswers'
  BY <1>1, <1>5, AnswersKept DEF WaitInv
<1>8. ClosedWakes'
  BY <1>1, <1>5, ClosedKept DEF WaitInv
<1>9. SleepersAreWoken'
  BY <1>1, <1>5, <1>8, SleepersKept DEF WaitInv
<1> QED
  BY <1>1, <1>2, <1>3, <1>4, <1>6, <1>7, <1>8, <1>9 DEF WaitInv

LEMMA SessionInvariant == Spec => []SessionInv
<1>1. SessionInv /\ [Next]_vars => SessionInv'
  <2> SUFFICES ASSUME SessionInv, [Next]_vars PROVE SessionInv'
    OBVIOUS
  <2>1. CASE Next
    BY <2>1, SessionNext
  <2>2. CASE UNCHANGED vars
    <3>1. /\ UNCHANGED <<state, handle, refs, list, current, lock, rrefs, thread>>
          /\ UNCHANGED <<event, trefs, terminating, pc, own, hand, prev, victim>>
      BY <2>2 DEF vars
    <3>2. \A q : /\ Owned(q)' <=> Owned(q)
                 /\ Listed(q)' <=> Listed(q)
                 /\ Held(q)' <=> Held(q)
      BY <3>1 DEF Owned, Listed, Held
    <3>3. \A u \in Clients : InLine(own[u])' <=> InLine(own[u])
      BY <3>1 DEF InLine, Listed, Held
    <3>4. Types'
      BY <3>1 DEF SessionInv, Types, LabelsOK
    <3>5. QueueInv'
      <4>1. HandsLocked'
        BY <3>1 DEF SessionInv, QueueInv, HandsLocked
      <4>2. CallsOwn'
        BY <3>1 DEF SessionInv, QueueInv, CallsOwn
      <4>3. PlacesDistinct'
        BY <3>1, <3>2 DEF SessionInv, QueueInv, PlacesDistinct
      <4>4. PlacesCounted'
        BY <3>1, <3>2 DEF SessionInv, QueueInv, PlacesCounted, One
      <4>5. SendsNew'
        BY <3>1, <3>3 DEF SessionInv, QueueInv, SendsNew
      <4> QED
        BY <4>1, <4>2, <4>3, <4>4, <4>5 DEF QueueInv
    <3>6. EndsInv'
      <4>1. /\ Cardinality(InCall)' = Cardinality(InCall)
            /\ Cardinality(InService)' = Cardinality(InService)
            /\ ClientEnding' <=> ClientEnding
            /\ ServerEnding' <=> ServerEnding
        BY <3>1 DEF InCall, InService, ClientEnding, ServerEnding
      <4>2. EndsCounted'
        BY <3>1, <4>1 DEF SessionInv, EndsInv, EndsCounted
      <4>3. StateTells'
        BY <3>1 DEF SessionInv, EndsInv, StateTells, ServerOpen
      <4> QED
        BY <4>2, <4>3 DEF EndsInv
    <3>7. ThreadsInv'
      <4>1. ThreadsCounted'
        <5>1. \A t : /\ RequestsOf(t)' = RequestsOf(t)
                     /\ Receiving(t)' <=> Receiving(t)
                     /\ Taken(t)' <=> Taken(t)
          BY <3>1 DEF RequestsOf, Receiving, Receiver, Taken
        <5> QED
          BY <3>1, <5>1 DEF SessionInv, ThreadsInv, ThreadsCounted, Receiving, Taken, One
      <4>2. RequestsOwned'
        BY <3>1, <3>2 DEF SessionInv, ThreadsInv, RequestsOwned
      <4> QED
        BY <4>1, <4>2 DEF ThreadsInv
    <3>8. WaitInv'
      <4>1. CallsInLine'
        BY <3>1, <3>3 DEF SessionInv, WaitInv, CallsInLine
      <4>2. ServerAnswers' /\ ClosedWakes' /\ SleepersAreWoken'
        BY <3>1 DEF SessionInv, WaitInv, ServerAnswers, ClosedWakes, SleepersAreWoken,
                    IsSignaled, Signaled, At
      <4> QED
        BY <4>1, <4>2 DEF WaitInv
    <3> QED
      BY <3>4, <3>5, <3>6, <3>7, <3>8 DEF SessionInv
  <2> QED
    BY <2>1, <2>2
<1> QED
  BY <1>1, SessionInit, PTL DEF Spec

\* What at most one thread or place is counts once, or not at all.
LEMMA AtMostOne ==
    ASSUME NEW S, \A x, y \in S : x = y
    PROVE  Cardinality(S) = One(\E x : x \in S)
<1>1. CASE S = {}
  BY <1>1, FS_EmptySet DEF One
<1>2. ASSUME NEW x \in S PROVE Cardinality(S) = 1
  <2>1. S = {x}
    BY <1>2
  <2> QED
    BY <2>1, FS_Singleton
<1> QED
  BY <1>1, <1>2 DEF One

\* Every reference is counted once (KAutoObject::Open and Close, for the request, the
\* client threads and the ends of the session), whatever path a request takes, for any
\* number of clients, servers and requests; and no count falls below zero.  A client
\* that waits for m_lock is not terminated (see RequestTerminate).
THEOREM ReferencesCounted == Spec => []WellFormed
<1>1. SessionInv => TypeOK
  <2> SUFFICES ASSUME SessionInv PROVE TypeOK
    OBVIOUS
  <2> USE DEF SessionInv
  <2>1. refs \in [Ends -> Nat]
    <3>1. IsFiniteSet(InCall) /\ IsFiniteSet(InService)
      BY SessionAssumption, FS_Subset DEF InCall, InService
    <3>2. Cardinality(InCall) \in Nat /\ Cardinality(InService) \in Nat
      BY <3>1, FS_CardinalityType
    <3>3. refs["client"] \in Nat /\ refs["server"] \in Nat /\ refs["parent"] \in Nat
      BY <3>2 DEF EndsInv, EndsCounted, One
    <3> QED
      BY <3>3 DEF Types, Ends
  <2>2. rrefs \in [Requests -> Nat]
    <3>1. \A r \in Requests : rrefs[r] \in Nat
      BY DEF QueueInv, PlacesCounted, One
    <3> QED
      BY <3>1 DEF Types
  <2>3. trefs \in [Clients -> Nat]
    <3>1. ASSUME NEW t \in Clients PROVE trefs[t] \in Nat
      <4>1. IsFiniteSet(RequestsOf(t))
        BY SessionAssumption, FS_Subset DEF RequestsOf
      <4>2. Cardinality(RequestsOf(t)) \in Nat
        BY <4>1, FS_CardinalityType
      <4> QED
        BY <4>2 DEF ThreadsInv, ThreadsCounted, One
    <3> QED
      BY <3>1 DEF Types
  <2> QED
    BY <2>1, <2>2, <2>3 DEF Types, TypeOK
<1>2. SessionInv => ReferencesExact
  <2> SUFFICES ASSUME SessionInv PROVE ReferencesExact
    OBVIOUS
  <2> USE DEF SessionInv
  <2>1. ASSUME NEW r \in Requests
        PROVE  rrefs[r] = Cardinality({t \in Clients : own[t] = r}) + Copies(r) + One(current = r)
                          + Cardinality({t \in Holding(r) : ~At(t, "receiving")})
    <3>1. Cardinality({t \in Clients : own[t] = r}) = One(Owned(r))
      <4>1. \A t, u \in {t \in Clients : own[t] = r} : t = u
        BY SessionAssumption DEF QueueInv, CallsOwn
      <4> HIDE DEF SessionInv
      <4> QED
        BY <4>1, AtMostOne DEF Owned, One
    <3>2. Copies(r) = One(Listed(r))
      <4>1. \A i, j \in {i \in DOMAIN list : list[i] = r} : i = j
        BY DEF QueueInv, PlacesDistinct
      <4> HIDE DEF SessionInv
      <4> QED
        BY <4>1, AtMostOne DEF Copies, Listed, One
    <3>3. Cardinality({t \in Holding(r) : ~At(t, "receiving")}) = One(Held(r))
      <4>1. \A t, u \in {t \in Holding(r) : ~At(t, "receiving")} : t = u
        BY SessionAssumption DEF QueueInv, HandsLocked, Holding
      <4> HIDE DEF SessionInv
      <4> QED
        BY <4>1, AtMostOne DEF Held, Holding, At, One
    <3> QED
      BY <3>1, <3>2, <3>3 DEF QueueInv, PlacesCounted
  <2>2. ASSUME NEW t \in Clients
        PROVE  trefs[t] = Cardinality({r \in Requests : thread[r] = t})
                          + Cardinality({s \in Servers : /\ pc[s] \in {"received", "receiving", "refuse"}
                                                         /\ thread[hand[s]] = t})
                          + Cardinality({k \in Threads : victim[k] = t})
    <3> DEFINE Receivers == {s \in Servers : /\ pc[s] \in {"received", "receiving", "refuse"}
                                             /\ thread[hand[s]] = t}
    <3>1. Cardinality(Receivers) = One(\E s \in Servers : Receiver(s, t))
      <4>1. \A s, k \in Receivers : s = k
        BY DEF QueueInv, HandsLocked, Busy, Threads
      <4>2. (\E s : s \in Receivers) <=> \E s \in Servers : Receiver(s, t)
        BY DEF Receiver
      <4> HIDE DEF SessionInv, Receivers
      <4> QED
        BY <4>1, <4>2, AtMostOne DEF One
    <3>2. Cardinality({k \in Threads : victim[k] = t}) = One(\E k \in Threads : victim[k] = t)
      <4>1. \A k, h \in {k \in Threads : victim[k] = t} : k = h
        BY SessionAssumption DEF QueueInv, HandsLocked, Busy
      <4> HIDE DEF SessionInv
      <4> QED
        BY <4>1, AtMostOne DEF One
    <3> QED
      BY <3>1, <3>2 DEF ThreadsInv, ThreadsCounted, RequestsOf
  <2>3. refs["parent"] = One(refs["client"] > 0 \/ \E t \in Clients :
                                pc[t] \in {"destroy", "close", "drain", "looked", "popped", "closed"})
                         + One(refs["server"] > 0 \/ \E s \in Servers :
                                pc[s] \in {"destroy", "close", "cleanup", "cleaning", "closed"})
                         + Cardinality({t \in Clients : pc[t] \in {"send", "waiting", "return", "leave"}})
    <3>1. /\ ClientEnding <=> \E t \in Clients :
               pc[t] \in {"destroy", "close", "drain", "looked", "popped", "closed"}
          /\ ServerEnding <=> \E s \in Servers :
               pc[s] \in {"destroy", "close", "cleanup", "cleaning", "closed"}
      BY DEF ClientEnding, ServerEnding, Ending, Types, LabelsOK, ClientLabels, ServerLabels
    <3> QED
      BY <3>1 DEF EndsInv, EndsCounted, InCall, Calling, One
  <2> QED
    BY <2>1, <2>2, <2>3 DEF ReferencesExact
<1> QED
  BY <1>1, <1>2, SessionInvariant, PTL DEF WellFormed

\* No call is lost (KServerSession::OnRequest, ReceiveRequest, SendReply and
\* CleanupRequests): the request a client waits for is in the list, current, or in the
\* hands of a thread, and the server end that has to answer it is not gone.
THEOREM CallsNotLost == Spec => []WaiterIsInLine
<1>1. SessionInv => WaiterIsInLine
  <2> SUFFICES ASSUME SessionInv, NEW t \in Clients, pc[t] = "waiting"
               PROVE  /\ thread[own[t]] = t
                      /\ own[t] \in ToSet(list) \cup {current} \/ Holding(own[t]) # {}
                      /\ refs["server"] > 0 \/ \E s \in Servers :
                             pc[s] \in {"destroy", "close", "cleanup", "cleaning"}
    BY DEF WaiterIsInLine, At
  <2> USE DEF SessionInv
  <2>1. own[t] # NoRequest /\ InLine(own[t])
    BY DEF QueueInv, CallsOwn, WaitInv, CallsInLine
  <2>2. thread[own[t]] = t
    BY <2>1 DEF ThreadsInv, RequestsOwned
  <2>3. own[t] \in ToSet(list) \cup {current} \/ Holding(own[t]) # {}
    BY <2>1 DEF InLine, Listed, Held, Holding, ToSet
  <2> QED
    BY <2>2, <2>3 DEF WaitInv, ServerAnswers
<1> QED
  BY <1>1, SessionInvariant, PTL

\* No server sleeps beside a request it could receive, or on a closed session, unless
\* somebody is about to wake it (NotifyAvailable) or to take the request.
THEOREM NoServerOversleeps == Spec => []SleepersAreWoken
<1>1. SessionInv => SleepersAreWoken
  BY DEF SessionInv, WaitInv
<1> QED
  BY <1>1, SessionInvariant, PTL

\* A client's wait is ended by whoever has taken the request it waits for (SendReply,
\* ReceiveRequest when it fails, CleanupRequests), or by its own termination.
THEOREM AnswersAreOwn == Spec => AnswersOwnCall
<1>1. SessionInv /\ [Next]_vars =>
         [\A t \in Clients : At(t, "waiting") /\ ~At(t, "waiting")' =>
             t \in terminating' \/ Holding(own[t]) # {}]_vars
  <2> SUFFICES ASSUME SessionInv, Next, NEW u \in Clients, pc[u] = "waiting", pc'[u] # "waiting"
               PROVE  u \in terminating' \/ Holding(own[u]) # {}
    BY DEF At
  <2> USE DEF SessionInv
  <2>1. PICK t \in Threads : Asks(t) \/ Kernel(t)
    BY Actor
  <2>2. CASE Answers(t)
    <3>1. own[u] = hand[t]
      BY <2>2, WaitsAnswered DEF WaitInv
    <3> QED
      BY <3>1 DEF Holding
  <2>3. CASE ~Answers(t)
    <3>1. u = t
      BY <2>1, <2>3, ClientsStay DEF Asks
    <3>2. RequestTerminate(t)
      BY <2>1, <3>1, Sides DEF Asks, Kernel, At, SendRequest, SendFails, CloseHandle, OnRequest, CallReturn,
           CallLeave, Wait, ReceiveRequest, SetCurrent, ReceiveSucceeds, ReceiveFails,
           RefuseRequest, SendReply, ReplyToClient, ServerLeave, Destroy, SetState,
           DrainCurrent, DrainPending, DrainEnd, LeaveCurrent, CancelPending, CleanupTake,
           CleanupAnswer, CloseParent
    <3> QED
      BY <3>1, <3>2 DEF RequestTerminate
  <2> QED
    BY <2>2, <2>3
<1> QED
  BY <1>1, SessionInvariant, PTL DEF Spec, AnswersOwnCall

=============================================================================
