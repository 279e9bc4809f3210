------------------------------- MODULE EdgeIO -------------------------------
(***************************************************************************)
(* The data path of one connection on its IO thread and the workers, if    *)
(* there are any: edge-triggered epoll, onmessage, the echo of EchoServer, *)
(* send, sendinloop and writecallback, with partial reads and writes, down *)
(* to the bytes of the framing.  Errors of the socket and the idle sweep   *)
(* are Reactor's; the workers' queue and the loop's are first in, first    *)
(* out, as ThreadPool and EventLoopQueue show, and idle workers are alike. *)
(*                                                                         *)
(* Epoll keeps a registered fd on a ready list.  The socket's wakeups put  *)
(* it there: input arrives, or space comes free after the socket was found *)
(* full; so does EPOLL_CTL_MOD when a wanted condition holds at that time. *)
(* epoll_wait takes it off, reports all wanted conditions that hold, and,  *)
(* being edge triggered, does not put it back.                             *)
(***************************************************************************)
EXTENDS Buffer, FiniteSets

CONSTANTS Requests,  \* what the client sends: a sequence of messages
          Prefix,    \* "reply ", as bytes
          ReadSize,  \* bound: the bytes of one read(), 1024 in the code
          SndCap,    \* bound: the bytes the socket takes for sending
          MaxSize,   \* bound: the threads of the workers' pool
          Stale      \* bound: bytes met behind the end of a std::string

ASSUME EdgeAssumption ==
    /\ Requests \in Seq(Seq(Byte)) /\ Prefix \in Seq(Byte)
    /\ ReadSize \in Nat \ {0} /\ SndCap \in Nat \ {0} /\ MaxSize \in Nat
    /\ Stale \subseteq Byte /\ Stale # {}

(* As in client.cpp, requests and replies are text without NUL.            *)
ASSUME TextAssumption ==
    /\ \A i \in DOMAIN Prefix : Prefix[i] # 0
    /\ \A n \in DOMAIN Requests : \A i \in DOMAIN Requests[n] :
           Requests[n][i] # 0

(* The length of a request is an int, in client.cpp and when it is read;   *)
(* pickmessge never answers one of the last four values of an int.         *)
ASSUME LengthAssumption ==
    \A n \in DOMAIN Requests : Len(Requests[n]) <= MaxLen

VARIABLES
    sent,           \* how many bytes of Stream the client has sent
    fin,            \* the client has ended its stream
    rcv, snd,       \* the kernel's receive and send buffers
    got,            \* what the client has received
    ready,          \* the fd is on epoll's ready list
    nospace,        \* the socket was found full, space freed is announced
    events_,        \* the events wanted besides EPOLLET: "in", "out"
    inputbuffer_,
    outputbuffer_,
    disconnect_,
    pc,             \* where the IO thread is with this connection
    batch,          \* what the last epoll_wait reported and is still to do
    size,           \* threadpool_.size()
    jobs,           \* the OnMessage tasks queued for the workers
    wk,             \* where a worker is, and the request it answers
    taskqueue_      \* the replies queued for sendinloop

kernelVars == <<sent, fin, rcv, snd, got, nospace>>
connVars   == <<events_, inputbuffer_, outputbuffer_, disconnect_>>
workVars   == <<size, jobs, wk, taskqueue_>>
vars       == <<kernelVars, ready, connVars, pc, batch, workVars>>

(* Messages as they look on the wire, and the first n requests.            *)
Wire(messages) ==
    LET w[i \in 0 .. Len(messages)] ==
            IF i = 0 THEN <<>> ELSE appendwithsep(1, w[i - 1], messages[i])
    IN  w[Len(messages)]
Frames == [n \in 0 .. Len(Requests) |-> Wire(SubSeq(Requests, 1, n))]
Stream == Frames[Len(Requests)]

Full == Len(snd) = SndCap

(* Mutants: too little is erased; the socket is taken to have room for     *)
(* everything; EPOLLOUT stays on.                                          *)
DropLess(s, n)     == SubSeq(s, n, Len(s))
SendableAll        == Len(outputbuffer_)
disablewritingNot  == events_

(* What is left of s without its first n bytes.                            *)
Drop(s, n) == SubSeq(s, n + 1, Len(s))

(* How much of outputbuffer_ one send() takes.                             *)
Sendable == IF Len(outputbuffer_) < SndCap - Len(snd)
            THEN Len(outputbuffer_) ELSE SndCap - Len(snd)

enablewriting  == events_ \cup {"out"}
disablewriting == events_ \ {"out"}

(* send() makes a std::string of a char pointer and ignores its length:    *)
(* what lies before the first NUL is kept.                                 *)
BeforeNul(s) == {i \in 1 .. Len(s) : \A j \in 1 .. i : s[j] # 0}
CString(s)   == SubSeq(s, 1, Cardinality(BeforeNul(s)))

(* EchoServer::OnMessage and the message send() makes of its result.       *)
Reply(message) == CString(Prefix \o message)

(* What a header is read from beyond the end of inputbuffer_: nothing,     *)
(* when four bytes are there.                                              *)
Behind == IF Len(inputbuffer_) < 4 THEN [1 .. 4 -> Stale]
          ELSE {[i \in 1 .. 4 |-> 0]}

(* The wanted conditions that hold.                                        *)
Poll(wanted, r, s) ==
    {e \in wanted : \/ e = "in" /\ (r # <<>> \/ fin)
                    \/ e = "out" /\ Len(s) < SndCap}

Init ==
    /\ sent = 0 /\ fin = FALSE
    /\ rcv = <<>> /\ snd = <<>> /\ got = <<>>
    /\ ready = FALSE /\ nospace = FALSE
    /\ events_ = {"in"}
    /\ inputbuffer_ = <<>> /\ outputbuffer_ = <<>> /\ disconnect_ = FALSE
    /\ pc = "wait" /\ batch = {}
    /\ size \in 0 .. MaxSize
    /\ jobs = <<>> /\ taskqueue_ = <<>>
    /\ wk = [w \in 1 .. MaxSize |-> [at |-> "idle", message |-> <<>>]]

Up == pc # "exited"
---------------------------------------------------------------------------
(* The client and the kernel                                               *)

ClientSend(n) ==
    /\ Up /\ ~fin /\ ~disconnect_
    /\ sent + n <= Len(Stream)
    /\ sent' = sent + n
    /\ rcv' = rcv \o SubSeq(Stream, sent + 1, sent + n)
    /\ ready' = TRUE
    /\ UNCHANGED <<fin, snd, got, nospace, connVars, pc, batch, workVars>>

(* The client has nothing more to say; it still reads.                     *)
ClientFin ==
    /\ Up /\ ~fin /\ ~disconnect_
    /\ fin' = TRUE
    /\ ready' = TRUE
    /\ UNCHANGED <<sent, rcv, snd, got, nospace, connVars, pc, batch,
                   workVars>>

ClientRead(n) ==
    /\ Up /\ n <= Len(snd)
    /\ got' = got \o SubSeq(snd, 1, n)
    /\ snd' = Drop(snd, n)
    /\ nospace' = FALSE
    /\ ready' = (ready \/ (nospace /\ "out" \in events_))
    /\ UNCHANGED <<sent, fin, rcv, connVars, pc, batch, workVars>>

---------------------------------------------------------------------------
(* The IO thread                                                           *)

(* epoll_wait.  handleevent will call one callback for the connection:     *)
(* input goes before output; the eventfd is readable while replies are     *)
(* queued.                                                                 *)
EpollWait ==
    LET revents == IF ready THEN Poll(events_, rcv, snd) ELSE {} IN
    /\ pc = "wait" /\ batch = {}
    /\ ready \/ taskqueue_ # <<>>
    /\ ready' = FALSE
    /\ nospace' = (nospace \/ (ready /\ Full))
    /\ batch' = (IF "in" \in revents THEN {"in"} ELSE revents)
                    \cup (IF taskqueue_ # <<>> THEN {"wake"} ELSE {})
    /\ UNCHANGED <<sent, fin, rcv, snd, got, connVars, pc, workVars>>

(* run() dispatches what was reported, in the order epoll has it.          *)
Dispatch(e) ==
    /\ pc = "wait" /\ e \in batch
    /\ batch' = batch \ {e}
    /\ pc' = CASE e = "in" -> "read" [] e = "out" -> "write"
                [] e = "wake" -> "drain"
    /\ UNCHANGED <<kernelVars, ready, connVars, workVars>>

(* Mutant: one read per event.                                             *)
ReadOnce ==
    /\ pc = "read" /\ rcv # <<>>
    /\ LET n == IF Len(rcv) < ReadSize THEN Len(rcv) ELSE ReadSize IN
         /\ inputbuffer_' = inputbuffer_ \o SubSeq(rcv, 1, n)
         /\ rcv' = Drop(rcv, n)
    /\ pc' = "pick"
    /\ UNCHANGED <<sent, fin, snd, got, ready, nospace, events_,
                   outputbuffer_, disconnect_, batch, workVars>>

(* onmessage: read() until there is nothing left, ...                      *)
Read ==
    /\ pc = "read" /\ rcv # <<>>
    /\ LET n == IF Len(rcv) < ReadSize THEN Len(rcv) ELSE ReadSize IN
         /\ inputbuffer_' = inputbuffer_ \o SubSeq(rcv, 1, n)
         /\ rcv' = Drop(rcv, n)
    /\ UNCHANGED <<sent, fin, snd, got, ready, nospace, events_,
                   outputbuffer_, disconnect_, pc, batch, workVars>>

(* ... then see to the messages (EAGAIN) ...                               *)
ReadAgain ==
    /\ pc = "read" /\ rcv = <<>> /\ ~fin
    /\ pc' = "pick"
    /\ UNCHANGED <<kernelVars, ready, connVars, batch, workVars>>

(* ... or close at the end of the stream, whatever the buffers hold.       *)
ReadEof ==
    /\ pc = "read" /\ rcv = <<>> /\ fin
    /\ disconnect_' = TRUE
    /\ events_' = {}
    /\ ready' = FALSE
    /\ pc' = "wait"
    /\ UNCHANGED <<kernelVars, inputbuffer_, outputbuffer_, batch, workVars>>

(* updatechannel: EPOLL_CTL_MOD with new events_, whose conditions are     *)
(* looked at right away.                                                   *)
Modify(wanted, s) ==
    /\ events_' = wanted
    /\ ready' = (ready \/ Poll(wanted, rcv, s) # {})
    /\ nospace' = (nospace \/ Len(s) = SndCap)

(* pickmessge and EchoServer::HandleMessage for each message that is in    *)
(* inputbuffer_: without workers the reply goes to outputbuffer_ at once.  *)
Pick(stale) ==
    LET p == pickmessge(1, inputbuffer_, stale) IN
    /\ pc = "pick" /\ p.got = "message"
    /\ inputbuffer_' = p.rest
    /\ \/ /\ size = 0
          /\ outputbuffer_' = appendwithsep(1, outputbuffer_, Reply(p.ss))
          /\ Modify(enablewriting, snd)
          /\ UNCHANGED jobs
       \/ /\ size > 0
          /\ jobs' = Append(jobs, p.ss)
          /\ UNCHANGED <<outputbuffer_, events_, ready, nospace>>
    /\ UNCHANGED <<sent, fin, rcv, snd, got, disconnect_, pc, batch, size, wk,
                   taskqueue_>>

(* Then, no more message being complete, onmessage is over.                *)
PickNone(stale) ==
    /\ pc = "pick"
    /\ pickmessge(1, inputbuffer_, stale).got = "none"
    /\ pc' = "wait"
    /\ UNCHANGED <<kernelVars, ready, connVars, batch, workVars>>

(* handlewakeup runs sendinloop of each reply.  EPOLL_CTL_MOD of an fd     *)
(* that was taken out ends the process.                                    *)
SendInLoop ==
    /\ pc = "drain" /\ taskqueue_ # <<>>
    /\ \/ /\ disconnect_ /\ pc' = "exited"
          /\ UNCHANGED <<kernelVars, ready, connVars, taskqueue_>>
       \/ /\ ~disconnect_
          /\ outputbuffer_' = appendwithsep(1, outputbuffer_, Head(taskqueue_))
          /\ Modify(enablewriting, snd)
          /\ taskqueue_' = Tail(taskqueue_)
          /\ UNCHANGED <<sent, fin, rcv, snd, got, inputbuffer_, disconnect_,
                         pc>>
    /\ UNCHANGED <<batch, size, jobs, wk>>

DrainDone ==
    /\ pc = "drain" /\ taskqueue_ = <<>>
    /\ pc' = "wait"
    /\ UNCHANGED <<kernelVars, ready, connVars, batch, workVars>>

(* Mutant: writecallback returns after one send().                         *)
WriteOnce ==
    /\ pc = "write" /\ outputbuffer_ # <<>> /\ ~Full
    /\ snd' = snd \o SubSeq(outputbuffer_, 1, Sendable)
    /\ outputbuffer_' = Drop(outputbuffer_, Sendable)
    /\ pc' = "wait"
    /\ IF outputbuffer_' = <<>>
       THEN Modify(disablewriting, snd')
       ELSE UNCHANGED <<events_, ready, nospace>>
    /\ UNCHANGED <<sent, fin, rcv, got, inputbuffer_, disconnect_, batch,
                   workVars>>

(* writecallback: send() what fits; EPOLLOUT is switched off when all is   *)
(* sent.  With nothing to send, send() would answer 0 and the code would   *)
(* act on an old errno: NoEmptySend says this does not happen.             *)
Write ==
    /\ pc = "write" /\ outputbuffer_ # <<>> /\ ~Full
    /\ snd' = snd \o SubSeq(outputbuffer_, 1, Sendable)
    /\ outputbuffer_' = Drop(outputbuffer_, Sendable)
    /\ IF outputbuffer_' = <<>>
       THEN Modify(disablewriting, snd') /\ pc' = "wait"
       ELSE UNCHANGED <<events_, ready, nospace, pc>>
    /\ UNCHANGED <<sent, fin, rcv, got, inputbuffer_, disconnect_, batch,
                   workVars>>

(* EAGAIN: wait for the next write event.                                  *)
WriteAgain ==
    /\ pc = "write" /\ outputbuffer_ # <<>> /\ Full
    /\ nospace' = TRUE
    /\ pc' = "wait"
    /\ UNCHANGED <<sent, fin, rcv, snd, got, ready, connVars, batch, workVars>>

IOThread == \/ EpollWait \/ \E e \in batch : Dispatch(e)
            \/ Read \/ ReadAgain \/ ReadEof
            \/ \E stale \in Behind : Pick(stale) \/ PickNone(stale)
            \/ SendInLoop \/ DrainDone \/ Write \/ WriteAgain

---------------------------------------------------------------------------
(* The workers                                                             *)

Idle == {w \in 1 .. size : wk[w].at = "idle"}

(* The oldest task goes to an idle worker.                                 *)
TakeJob(w) ==
    /\ Up /\ jobs # <<>>
    /\ w \in Idle /\ \A v \in Idle : w <= v
    /\ wk' = [wk EXCEPT ![w] = [at |-> "send", message |-> Head(jobs)]]
    /\ jobs' = Tail(jobs)
    /\ UNCHANGED <<kernelVars, ready, connVars, pc, batch, size, taskqueue_>>

(* send() drops the reply to a connection that is closed, ...              *)
CheckDisconnect(w) ==
    /\ Up /\ wk[w].at = "send"
    /\ wk' = IF disconnect_
             THEN [wk EXCEPT ![w] = [at |-> "idle", message |-> <<>>]]
             ELSE [wk EXCEPT ![w].at = "queue"]
    /\ UNCHANGED <<kernelVars, ready, connVars, pc, batch, size, jobs,
                   taskqueue_>>

(* ... or queues it, while handlewakeup is not holding the queue's mutex_. *)
QueueInLoop(w) ==
    /\ Up /\ wk[w].at = "queue" /\ pc # "drain"
    /\ taskqueue_' = Append(taskqueue_, Reply(wk[w].message))
    /\ wk' = [wk EXCEPT ![w] = [at |-> "idle", message |-> <<>>]]
    /\ UNCHANGED <<kernelVars, ready, connVars, pc, batch, size, jobs>>

Worker(w) == TakeJob(w) \/ CheckDisconnect(w) \/ QueueInLoop(w)

(* epoll_wait times out, which nobody minds, the loop has only others to   *)
(* serve, or the process is no more.                                       *)
Timeout ==
    /\ \/ pc = "wait" /\ batch = {} /\ ~ready /\ taskqueue_ = <<>>
       \/ ~Up
    /\ UNCHANGED vars

Next == \/ \E n \in 1 .. Len(Stream) : ClientSend(n)
        \/ ClientFin
        \/ \E n \in 1 .. SndCap : ClientRead(n)
        \/ IOThread \/ Timeout
        \/ \E w \in 1 .. MaxSize : Worker(w)

Spec == Init /\ [][Next]_vars

(* The IO thread runs, so do the workers, and the client goes on reading   *)
(* what it is sent.                                                        *)
Fairness ==
    /\ WF_vars(IOThread)
    /\ WF_vars(\E w \in 1 .. MaxSize : Worker(w))
    /\ WF_vars(\E n \in 1 .. SndCap : ClientRead(n))

FairSpec == Spec /\ Fairness
---------------------------------------------------------------------------
(* Properties                                                              *)

TypeOK ==
    /\ sent \in 0 .. Len(Stream) /\ fin \in BOOLEAN
    /\ rcv \in Seq(Byte) /\ snd \in Seq(Byte) /\ got \in Seq(Byte)
    /\ Len(snd) <= SndCap
    /\ ready \in BOOLEAN /\ nospace \in BOOLEAN
    /\ events_ \subseteq {"in", "out"}
    /\ inputbuffer_ \in Seq(Byte) /\ outputbuffer_ \in Seq(Byte)
    /\ disconnect_ \in BOOLEAN
    /\ pc \in {"wait", "read", "pick", "write", "drain", "exited"}
    /\ batch \subseteq {"in", "out", "wake"}
    /\ size \in 0 .. MaxSize
    /\ jobs \in Seq(Seq(Byte)) /\ taskqueue_ \in Seq(Seq(Byte))
    /\ wk \in [1 .. MaxSize -> [at : {"idle", "send", "queue"},
                                 message : Seq(Byte)]]

(* However the stream is cut up by reads and writes, and whichever worker  *)
(* is the faster: what is on its way back is framed replies, one to each   *)
(* of the first n requests that no worker or queue still has, and in their *)
(* order unless two workers may overtake each other; what is on its way in *)
(* is the rest of what the client sent.  No byte is lost, doubled or out   *)
(* of place, except that a closed connection drops replies.                *)
Orders(n) == {o \in UNION {[1 .. k -> 1 .. n] : k \in 0 .. n} :
                 \A i, j \in DOMAIN o : i # j => o[i] # o[j]}
Ascending(o) == \A i, j \in DOMAIN o : i < j => o[i] < o[j]
InTime(n, o) ==
    LET waiting == n - Len(jobs) + 1 .. n
        busy    == {w \in 1 .. MaxSize : wk[w].at # "idle"}
        over    == {o[i] : i \in DOMAIN o}
    IN  /\ jobs = SubSeq(Requests, n - Len(jobs) + 1, n)
        /\ \E of \in [busy -> (1 .. n) \ (waiting \cup over)] :
              /\ \A w \in busy : wk[w].message = Requests[of[w]]
              /\ \A v, w \in busy : v # w => of[v] # of[w]
              /\ disconnect_ \/ Cardinality(over) + Cardinality(busy)
                                   + Len(jobs) = n
AnsweredExactly(n) ==
    /\ Frames[n] \o inputbuffer_ \o rcv = SubSeq(Stream, 1, sent)
    /\ \E o \in Orders(n) :
          /\ size <= 1 => Ascending(o)
          /\ got \o snd \o outputbuffer_ \o Wire(taskqueue_)
                = Wire([i \in DOMAIN o |-> Prefix \o Requests[o[i]]])
          /\ InTime(n, o)
Echoed == \E n \in 0 .. Len(Requests) : AnsweredExactly(n)

(* pickmessge never throws for a client that frames its requests, however  *)
(* little of a header has come and whatever lies behind it.                *)
NeverThrows ==
    pc = "pick" => \A stale \in Behind :
                       pickmessge(1, inputbuffer_, stale).got # "throw"

(* writecallback is never called with an empty outputbuffer_.              *)
NoEmptySend == pc = "write" => outputbuffer_ # <<>>

(* The server never sleeps owing an answer.  When its IO thread has        *)
(* nothing to wake up for and no worker has anything to do, each request   *)
(* that was sent completely, and no other, has its reply on its way, and   *)
(* what of the replies is not in the socket yet waits for the client to    *)
(* read, or for the rest of a request.                                     *)
Resting ==
    /\ pc = "wait" /\ batch = {} /\ ~ready
    /\ jobs = <<>> /\ taskqueue_ = <<>>
    /\ \A w \in 1 .. MaxSize : wk[w].at = "idle"
NeverSleepsOwing ==
    Resting /\ ~disconnect_ =>
        \E n \in 0 .. Len(Requests) :
            /\ \A m \in 0 .. Len(Requests) : sent >= Len(Frames[m]) <=> m <= n
            /\ \E o \in Orders(n) :
                  /\ DOMAIN o = 1 .. n
                  /\ size <= 1 => Ascending(o)
                  /\ got \o snd \o outputbuffer_
                        = Wire([i \in DOMAIN o |-> Prefix \o Requests[o[i]]])
            /\ outputbuffer_ # <<>> =>
                  (Full /\ nospace) \/ inputbuffer_ # <<>>

(* Again and again the server catches up with its client: each request     *)
(* that was sent completely is answered, unless the connection is closed   *)
(* first.  No read edge is lost, no message is left lying in inputbuffer_, *)
(* no task and no reply in a queue.                                        *)
Total == Len(got) + Len(snd) + Len(outputbuffer_)
CaughtUp ==
    \A n \in 1 .. Len(Requests) :
        sent >= Len(Frames[n]) => Total >= Len(Frames[n]) + n * Len(Prefix)
Answered == []<>(CaughtUp \/ disconnect_)

(* To a client that goes on reading every reply is sent, unless an         *)
(* incomplete request has come in meanwhile.                               *)
Sent == outputbuffer_ # <<>> ~>
            (outputbuffer_ = <<>> \/ inputbuffer_ # <<>> \/ disconnect_)

(* Connection.cpp:136, with the buffer full the rest waits for the next    *)
(* write event: that event comes when the client goes on reading.          *)
WriteEventComes == outputbuffer_ # <<>> ~> (outputbuffer_ = <<>> \/ disconnect_)
=============================================================================
