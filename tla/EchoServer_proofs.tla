-------------------------- MODULE EchoServer_proofs -------------------------
(***************************************************************************)
(* Theorems about EchoServer: it uses the event loop as AeLoop allows any  *)
(* handlers to, its registrations follow its sockets, and it echoes in     *)
(* order.                                                                  *)
(***************************************************************************)
EXTENDS EchoServer, AeLoop_proofs

-----------------------------------------------------------------------------
(* The sockets and the table of the loop.                                  *)

Handlers == {"acceptTcpHandler", "onReadPrepared", "onWritePrepared"}

(* The socket 0 listens until it is closed, and then nobody waits for it;  *)
(* each other descriptor is free or a client's, and no client has two.     *)
SockOK ==
  /\ sock \in [AllFds -> {"listen", "free"} \cup Clients]
  /\ sock[ListenFd] \in {"listen", "free"}
  /\ sock[ListenFd] = "free" => \A c \in Clients : peer[c] # "pending"
  /\ \A fd \in AllFds : sock[fd] = "listen" => fd = ListenFd
  /\ \A fd, g \in AllFds : sock[fd] \in Clients /\ sock[fd] = sock[g] => fd = g
  /\ peer \in [Clients -> {"out", "pending", "open", "gone"}]
  /\ \A fd \in AllFds : sock[fd] \in Clients => peer[sock[fd]] \in {"open", "gone"}

(* Before main registered the listening socket the loop does not run;      *)
(* afterwards what is registered is that socket or an open connection,     *)
(* with its handlers and its clientData, and what is open is registered    *)
(* but for one connection when the server no longer listens.               *)
Quiet == /\ pc = "app" /\ ~inMain /\ sock[ListenFd] = "listen"
         /\ \A fd \in AllFds : fd = ListenFd \/ sock[fd] = "free"

Watches(fd) ==
  IF fd = ListenFd
  THEN events[fd].mask = {"R"} /\ events[fd].rfileProc = "acceptTcpHandler"
  ELSE /\ fd \in AllFds /\ sock[fd] \in Clients
       /\ "R" \in events[fd].mask /\ events[fd].rfileProc = "onReadPrepared"
       /\ "W" \in events[fd].mask => events[fd].wfileProc = "onWritePrepared"
       /\ events[fd].clientData = sock[fd]

OneForgotten == IF sock[ListenFd] = "listen" THEN Unwatched = {}
                ELSE \E fd \in AllFds : Unwatched = {fd}

WatchOK ==
  /\ maxfd = -1 => Quiet
  /\ maxfd # -1 =>
       /\ ListenFd \in Fd /\ Registered(ListenFd) /\ OneForgotten
       /\ \A fd \in Fd : Registered(fd) => Watches(fd)

(* A handler that was called and did not run serves a registered event.    *)
CallOK ==
  /\ ran \in BOOLEAN
  /\ pc = "rcb" /\ ~ran => "R" \in Fe.mask
  /\ pc = "wcb" /\ ~ran => "W" \in Fe.mask

(* While the server listens the epoll set is the table; the socket it      *)
(* closed is in the table only.                                            *)
AskedOK ==
  IF sock[ListenFd] = "listen" THEN InterestIsMask
  ELSE ListenFd \in Fd => interest[ListenFd] = {}

EchoInv == SockOK /\ WatchOK /\ CallOK /\ AskedOK

-----------------------------------------------------------------------------
(* The bytes.                                                              *)

Live(c) == \E fd \in AllFds : sock[fd] = c

Buffers    == [0 .. BufSize - 1 -> Nat]
EchoClient == [buf : Buffers, pos : Int, size : Int,
               mutex : {"free", "destroyed"}]

BytesTypeOK ==
  /\ sent \in [Clients -> Nat] /\ got \in [Clients -> Nat] /\ taken \in [Clients -> Nat]
  /\ echoed \in [Clients -> Seq(Nat)] /\ client \in [Clients -> EchoClient]

(* What was echoed is what came first of what was read.                    *)
EchoOK(c) ==
  /\ sent[c] <= MaxBytes /\ got[c] <= sent[c]
  /\ Len(echoed[c]) <= got[c] /\ taken[c] <= Len(echoed[c])
  /\ \A i \in 1 .. Len(echoed[c]) : echoed[c][i] = i

(* The struct of an open connection holds what was read and not echoed, at *)
(* the place of these bytes; there is nothing to read while it does.       *)
StructOK(c) ==
  /\ client[c].pos = Len(echoed[c]) /\ client[c].size = got[c] - Len(echoed[c])
  /\ \A i \in Len(echoed[c]) .. got[c] - 1 : client[c].buf[i] = i + 1
  /\ client[c].size # 0 => got[c] = sent[c]

Unused(c) == client[c] = init_client /\ got[c] = 0 /\ echoed[c] = <<>>

BytesOK(c) ==
  /\ EchoOK(c)
  /\ Live(c) => StructOK(c)
  /\ peer[c] \in {"out", "pending"} => Unused(c)

BytesInv == BytesTypeOK /\ \A c \in Clients : BytesOK(c)

-----------------------------------------------------------------------------
(* Every step of the server is a step of the loop.                         *)

(* The socket that listens is one of the process's, and the loop's calls   *)
(* may name any descriptor of its table.                                   *)
LEMMA Descriptors ==
  /\ ListenFd \in AllFds /\ ListenFd \in FdArgs /\ Fd \subseteq FdArgs
  /\ AllFds \subseteq Nat /\ Fd \subseteq Nat
  BY EchoAssumption, FileAssumption DEF AllFds, Fd, ListenFd

(* A handler that has been called is at an entry of the batch whose        *)
(* descriptor is registered.                                               *)
LEMMA AtEntry ==
  ASSUME CoreInv, EchoInv, pc \in {"rcb", "wcb"}, ~ran
  PROVE  /\ maxfd # -1 /\ Entry.fd \in Fd /\ Entry.fd \in AllFds
         /\ Registered(Entry.fd) /\ Watches(Entry.fd)
         /\ pc = "rcb" => "R" \in Fe.mask
         /\ pc = "wcb" => "W" \in Fe.mask
<1>1. fired # <<>> /\ fired \in Seq(Entries)
  BY DEF CoreInv, BatchInv, LoopTypeOK
<1>2. Entry \in Entries
  BY <1>1, EmptySeq, ElementOfSeq DEF Entry
<1>3. Entry.fd \in Fd
  BY <1>2 DEF Entries
<1>4. maxfd # -1
  BY DEF EchoInv, WatchOK, Quiet
<1>5. /\ pc = "rcb" => "R" \in Fe.mask
      /\ pc = "wcb" => "W" \in Fe.mask
  BY DEF EchoInv, CallOK
<1>6. Registered(Entry.fd)
  BY <1>5 DEF Registered, Fe
<1>7. Watches(Entry.fd)
  BY <1>3, <1>4, <1>6 DEF EchoInv, WatchOK
<1>8. Entry.fd \in AllFds
  BY <1>7, Descriptors DEF Watches
<1> QED BY <1>3, <1>4, <1>5, <1>6, <1>7, <1>8

(* The handlers of a connection serve the client it belongs to.            *)
LEMMA ServesClient ==
  ASSUME CoreInv, EchoInv,
         Handler("rcb", "onReadPrepared") \/ Handler("wcb", "onWritePrepared")
  PROVE  /\ Fe.clientData \in Clients /\ sock[Entry.fd] = Fe.clientData
         /\ Entry.fd # ListenFd /\ "R" \in Fe.mask
         /\ "W" \in Fe.mask => Fe.wfileProc = "onWritePrepared"
         /\ Fe.rfileProc = "onReadPrepared"
<1>1. pc \in {"rcb", "wcb"} /\ ~ran
  BY DEF Handler
<1>2. /\ Watches(Entry.fd)
      /\ pc = "wcb" => "W" \in Fe.mask
  BY <1>1, AtEntry
<1>3. Entry.fd # ListenFd
  BY <1>1, <1>2 DEF Handler, Watches, Fe
<1> QED BY <1>2, <1>3 DEF Watches, Fe

(* An accept changes nothing, or it takes a client from the backlog of the *)
(* listening socket to a fresh descriptor.                                 *)
LEMMA AcceptCases ==
  ASSUME CoreInv, EchoInv, acceptTcpHandler
  PROVE  /\ pc = "rcb" /\ ~ran /\ ran' = TRUE /\ UNCHANGED netVars
         /\ \/ UNCHANGED <<vars, sock, peer, client>>
            \/ \E c \in Clients, cfd \in AllFds :
                 /\ sock[cfd] = "free" /\ peer[c] = "pending"
                 /\ sock[ListenFd] = "listen" /\ cfd # ListenFd
                 /\ Registers(cfd, c) \/ FailsToRegister(cfd, c)
<1>1. pc = "rcb" /\ ~ran /\ ran' = TRUE /\ UNCHANGED netVars
  BY DEF acceptTcpHandler, Handler
<1>2. \A c \in Clients : peer[c] = "pending" => sock[ListenFd] = "listen"
  BY DEF EchoInv, SockOK
<1>3. LowestFree \subseteq {fd \in AllFds : sock[fd] = "free"}
  BY DEF LowestFree
<1> QED BY <1>1, <1>2, <1>3 DEF acceptTcpHandler

(* The kinds that the handlers ask for.                                    *)
LEMMA KindSets ==
  /\ {"R"} \in (SUBSET Kinds) \ {{}} /\ {"W"} \in (SUBSET Kinds) \ {{}}
  /\ Kinds \in (SUBSET Kinds) \ {{}}
  BY DEF Kinds

(* What the server does to the loop: nothing, a step of the loop's own, or *)
(* a call of the API for a descriptor that is not closed.                  *)
Calls(fd) ==
  \E m \in (SUBSET Kinds) \ {{}} :
    \/ \E proc \in Handlers, d \in Data : CreateFileEvent(fd, m, proc, d)
    \/ DeleteFileEvent(fd, m)

LoopAlone ==
  \/ aeMain \/ LoopStep \/ PollFires \/ PollInterrupted
  \/ ReadHandlerReturns \/ WriteHandlerReturns

UsesLoop ==
  \/ UNCHANGED <<vars, sock>>
  \/ LoopAlone /\ UNCHANGED sock
  \/ /\ sock'[ListenFd] = sock[ListenFd]
     /\ \E fd \in FdArgs : (fd = ListenFd => sock[fd] = "listen") /\ Calls(fd)

(* Reading a client's bytes is such a call.                                *)
LEMMA ReadUses ==
  ASSUME CoreInv, EchoInv, onReadPrepared PROVE UsesLoop
<1> DEFINE c == Fe.clientData
<1>1. Handler("rcb", "onReadPrepared")
  BY DEF onReadPrepared
<1>2. c \in Clients /\ Entry.fd # ListenFd
  BY <1>1, ServesClient
<1>3. Entry.fd \in FdArgs /\ Entry.fd \in AllFds /\ c \in Data
  BY <1>1, <1>2, AtEntry, Descriptors, EchoAssumption DEF Handler
<1>4. close_client(c) \/ (AsksToWrite(c) /\ UNCHANGED sock)
  BY DEF onReadPrepared
<1>5. sock'[ListenFd] = sock[ListenFd]
  BY <1>2, <1>4, Descriptors DEF close_client, EchoInv, SockOK
<1>6. Calls(Entry.fd)
  <2>1. CASE close_client(c)
    BY <2>1, KindSets DEF close_client, Calls
  <2>2. CASE AsksToWrite(c)
    <3>1. CreateFileEvent(Entry.fd, {"W"}, "onWritePrepared", c) /\ "onWritePrepared" \in Handlers
      BY <2>2 DEF AsksToWrite, Handlers
    <3> QED BY <1>3, <3>1, KindSets DEF Calls
  <2> QED BY <1>4, <2>1, <2>2
<1> QED BY <1>2, <1>3, <1>5, <1>6 DEF UsesLoop

(* So is writing them.                                                     *)
LEMMA WriteUses ==
  ASSUME CoreInv, EchoInv, onWritePrepared PROVE UsesLoop
<1> DEFINE c == Fe.clientData
<1>1. Handler("wcb", "onWritePrepared")
  BY DEF onWritePrepared
<1>2. Entry.fd \in FdArgs /\ Entry.fd # ListenFd
  BY <1>1, AtEntry, ServesClient, Descriptors DEF Handler
<1>3. WriteSucceeds(c) \/ WriteFails(c) \/ WriteKills(c)
  BY DEF onWritePrepared
<1>4. CASE WriteKills(c)
  BY <1>4 DEF WriteKills, UsesLoop
<1>5. CASE WriteSucceeds(c) \/ WriteFails(c)
  <2>1. sock'[ListenFd] = sock[ListenFd]
    BY <1>2, <1>5, Descriptors DEF WriteSucceeds, WriteFails, close_client, EchoInv, SockOK
  <2>2. Calls(Entry.fd)
    BY <1>5, KindSets DEF WriteSucceeds, DoneWriting, WriteFails, close_client, Calls
  <2> QED BY <1>2, <2>1, <2>2 DEF UsesLoop
<1> QED BY <1>3, <1>4, <1>5

(* So is every step but the accept that closes the listening socket.       *)
LEMMA StepCases ==
  ASSUME CoreInv, EchoInv, [EchoNext]_AllVars
  PROVE  \/ UsesLoop
         \/ /\ sock[ListenFd] = "listen" /\ maxfd # -1
            /\ \E c \in Clients, cfd \in AllFds : cfd # ListenFd /\ FailsToRegister(cfd, c)
<1>1. CASE Peer \/ UNCHANGED AllVars
  BY <1>1 DEF Peer, Connect, Send, Take, Leave, AllVars, echoVars, UsesLoop
<1>2. CASE Main
  <2>1. UNCHANGED sock
    BY <1>2 DEF Main, echoVars
  <2>2. CASE maxfd # -1 /\ aeMain
    BY <2>1, <2>2 DEF UsesLoop, LoopAlone
  <2>3. CASE maxfd = -1 /\ CreateFileEvent(ListenFd, {"R"}, "acceptTcpHandler", NULL)
    <3>1. "acceptTcpHandler" \in Handlers /\ NULL \in Data
      BY EchoAssumption DEF Handlers
    <3>2. sock[ListenFd] = "listen"
      BY <2>3 DEF EchoInv, WatchOK, Quiet
    <3>3. Calls(ListenFd)
      BY <2>3, <3>1, KindSets DEF Calls
    <3> QED BY <2>1, <3>2, <3>3, Descriptors DEF UsesLoop
  <2> QED BY <1>2, <2>2, <2>3 DEF Main
<1>3. CASE Poll \/ Loop
  BY <1>3 DEF Poll, Loop, UsesLoop, LoopAlone, echoVars
<1>4. CASE acceptTcpHandler
  <2>1. CASE UNCHANGED <<vars, sock, peer, client>>
    BY <2>1 DEF UsesLoop
  <2>2. ASSUME NEW c \in Clients, NEW cfd \in AllFds, cfd # ListenFd, Registers(cfd, c)
        PROVE  UsesLoop
    <3>1. CreateFileEvent(cfd, {"R"}, "onReadPrepared", c) /\ "onReadPrepared" \in Handlers
      BY <2>2 DEF Registers, Handlers
    <3>2. cfd \in FdArgs /\ c \in Data
      BY <2>2, Descriptors, EchoAssumption DEF Registers
    <3>3. sock'[ListenFd] = sock[ListenFd]
      BY <2>2, Descriptors DEF Registers, EchoInv, SockOK
    <3> QED BY <2>2, <3>1, <3>2, <3>3, KindSets DEF UsesLoop, Calls
  <2>3. maxfd # -1
    BY <1>4, AcceptCases, AtEntry
  <2> QED BY <1>4, <2>1, <2>2, <2>3, AcceptCases
<1> QED
  BY <1>1, <1>2, <1>3, <1>4, ReadUses, WriteUses DEF EchoNext, Server

(* What the server does to the loop is a step of it.                       *)
LEMMA UseIsStep == UsesLoop => [Next]_vars
<1>1. ASSUME NEW fd \in FdArgs, Calls(fd) PROVE Next
  BY <1>1, EchoAssumption DEF Calls, Handlers, Next, Api
<1>2. LoopAlone => Next
  BY DEF LoopAlone, Next, Application, Kernel, HandlerReturns
<1> QED BY <1>1, <1>2 DEF UsesLoop

(* An accept that fails touches only the epoll set.                        *)
LEMMA FailKeepsCore ==
  ASSUME CoreInv, NEW c, NEW cfd, FailsToRegister(cfd, c) PROVE CoreInv'
<1>1. UNCHANGED <<events, maxfd, timeVars, batchVars, walkVars, pass, pc, stop, jumps>>
  BY DEF FailsToRegister
<1>2. interest' \in [Fd -> SUBSET Kinds]
  BY DEF FailsToRegister, CoreInv, TableInv, FileTypeOK
<1>3. TableInv'
  BY <1>1, <1>2 DEF CoreInv, TableInv, FileTypeOK, MaxfdIsHighest, HandlersAssigned, Registered
<1>4. TimeInv'
  BY <1>1 DEF CoreInv, timeVars, TimeInv, TimeTypeOK, Ids, NewestFirst, NoTimerLost
<1>5. LoopTypeOK'
  BY <1>1 DEF CoreInv, LoopTypeOK, batchVars, walkVars
<1>6. BatchInv'
  BY <1>1 DEF CoreInv, BatchInv, batchVars, DueIsRegistered, Entry
<1>7. PassInv'
  BY <1>1 DEF CoreInv, PassInv, PassRunsOnlyOldTimers, walkVars, timeVars, Ids
<1> QED BY <1>3, <1>4, <1>5, <1>6, <1>7 DEF CoreInv

-----------------------------------------------------------------------------
(* The sockets, the table and the calls, step by step.                     *)

(* A call of aeCreateFileEvent that registers.                             *)
Merged(fd, m, proc, d) ==
  [mask       |-> events[fd].mask \cup m,
   rfileProc  |-> IF "R" \in m THEN proc ELSE events[fd].rfileProc,
   wfileProc  |-> IF "W" \in m THEN proc ELSE events[fd].wfileProc,
   clientData |-> d]

(* A registration that works adds to one descriptor's event, one that      *)
(* fails changes nothing.                                                  *)
LEMMA CreateEffect ==
  ASSUME FileTypeOK, NEW fd, NEW m, NEW proc, NEW d, CreateFileEvent(fd, m, proc, d)
  PROVE  /\ UNCHANGED <<pc, inMain, fired>>
         /\ \/ UNCHANGED <<events, maxfd>>
            \/ /\ fd \in Fd /\ events' = [events EXCEPT ![fd] = Merged(fd, m, proc, d)]
               /\ maxfd' = IF fd > maxfd THEN fd ELSE maxfd
<1>1. UNCHANGED <<pc, inMain, fired>> /\ aeCreateFileEvent(fd, m, proc, d)
  BY DEF CreateFileEvent, batchVars
<1> QED BY <1>1 DEF aeCreateFileEvent, fileVars, Merged

(* A call of aeDeleteFileEvent on a registered descriptor.                 *)
LEMMA DeleteEffect ==
  ASSUME FileTypeOK, NEW fd \in Fd, Registered(fd), NEW m, DeleteFileEvent(fd, m)
  PROVE  /\ UNCHANGED <<pc, inMain>>
         /\ events' = [events EXCEPT ![fd].mask = @ \ m]
BY DEF DeleteFileEvent, aeDeleteFileEvent, FileTypeOK

(* What does not touch the table or the sockets, once main has begun.      *)
LEMMA WatchUnchanged ==
  ASSUME WatchOK, maxfd # -1, UNCHANGED <<events, maxfd, sock>> PROVE WatchOK'
BY DEF WatchOK, Registered, Watches, OneForgotten, Unwatched

(* The loop runs once the listening socket is registered, and a handler is *)
(* called for a kind that is.                                              *)
LEMMA LoopKeeps ==
  ASSUME CoreInv, EchoInv, Poll \/ Loop PROVE (SockOK /\ WatchOK /\ CallOK)'
<1> USE DEF batchVars, fileVars, EchoInv
<1>1. pc # "app" /\ UNCHANGED <<events, maxfd, sock, peer>>
  BY DEF Poll, PollFires, Loop, LoopStep, Iterate, LeaveMain, EnterNothing, EnterPoll,
         EnterNoPoll, CallReadHandler, CallWriteHandler, SkipWrite, NextEntry,
         BeginTimePass, EndWithoutTimePass, SkipTimer, CallTimerHandler, EndTimePass,
         Return, PollInterrupted, ReadHandlerReturns, WriteHandlerReturns, echoVars
<1>2. SockOK'
  BY <1>1 DEF SockOK
<1>3. WatchOK'
  <2>1. maxfd # -1
    BY <1>1 DEF WatchOK, Quiet
  <2> QED BY <1>1, <2>1, WatchUnchanged
<1>4. CallOK'
  <2>0. ASSUME NEW k, fired # <<>>, Handed(k) PROVE Entry'.fd = Entry.fd
    <3>1. fired'[1] = [Entry EXCEPT !.due = @ \ {k}] /\ Entry' = fired'[1] /\ Entry \in Entries
      BY <2>0, HandedOut, HeadOfBatch DEF CoreInv
    <3> QED BY <3>1 DEF Entries
  <2>1. CASE CallReadHandler /\ ran' = FALSE
    BY <1>1, <2>0, <2>1 DEF CallReadHandler, ReadDue, Valid, CallOK, Fe
  <2>2. CASE CallWriteHandler /\ ran' = FALSE
    BY <1>1, <2>0, <2>2 DEF CallWriteHandler, WriteDue, Valid, CallOK, Fe
  <2>3. CASE pc' \notin {"rcb", "wcb"} /\ ran' \in BOOLEAN
    BY <2>3 DEF CallOK
  <2>4. CASE LoopStep /\ ran' = FALSE
    <3>1. CallReadHandler \/ CallWriteHandler \/ pc' \notin {"rcb", "wcb"}
      BY <2>4 DEF LoopStep, Iterate, LeaveMain, EnterNothing, EnterPoll, EnterNoPoll,
                  SkipWrite, BeginTimePass, EndWithoutTimePass, SkipTimer,
                  CallTimerHandler, EndTimePass, Return
    <3> QED BY <2>1, <2>2, <2>3, <2>4, <3>1
  <2>5. CASE Poll \/ (PollInterrupted /\ UNCHANGED echoVars)
    BY <2>3, <2>5 DEF Poll, PollFires, PollInterrupted, echoVars, CallOK
  <2>6. CASE (ReadHandlerReturns \/ WriteHandlerReturns) /\ UNCHANGED ran
    BY <2>3, <2>6 DEF ReadHandlerReturns, WriteHandlerReturns, CallOK
  <2>7. \/ LoopStep /\ ran' = FALSE
        \/ Poll
        \/ PollInterrupted /\ UNCHANGED echoVars
        \/ (ReadHandlerReturns \/ WriteHandlerReturns) /\ UNCHANGED ran
    BY DEF Loop
  <2> QED BY <2>4, <2>5, <2>6, <2>7
<1> QED BY <1>2, <1>3, <1>4

(* Clients do not touch what the server registered.                        *)
LEMMA PeerKeeps == ASSUME EchoInv, Peer \/ UNCHANGED AllVars PROVE (SockOK /\ WatchOK /\ CallOK)'
<1>1. UNCHANGED <<vars, sock, ran>>
  BY DEF Peer, Connect, Send, Take, Leave, AllVars, echoVars
<1>2. UNCHANGED <<events, maxfd, pc, inMain, fired>>
  BY <1>1 DEF vars, fileVars, batchVars
<1>3. WatchOK'
  BY <1>1, <1>2 DEF EchoInv, WatchOK, Quiet, Registered, Watches, OneForgotten, Unwatched
<1>4. CallOK'
  BY <1>1, <1>2 DEF EchoInv, CallOK, Fe, Entry
<1>5. SockOK'
  <2>1. CASE UNCHANGED peer
    BY <1>1, <2>1 DEF EchoInv, SockOK
  <2>2. ASSUME NEW c \in Clients, Connect(c) PROVE SockOK'
    <3>1. peer[c] = "out" /\ peer' = [peer EXCEPT ![c] = "pending"]
      BY <2>2 DEF Connect
    <3>2. \A fd \in AllFds : sock[fd] \in Clients => sock[fd] # c
      BY <3>1 DEF EchoInv, SockOK
    <3>3. sock[ListenFd] = "listen"
      BY <2>2 DEF Connect
    <3> QED BY <1>1, <3>1, <3>2, <3>3 DEF EchoInv, SockOK
  <2>3. ASSUME NEW c \in Clients, Leave(c) PROVE SockOK'
    BY <1>1, <2>3 DEF Leave, EchoInv, SockOK
  <2> QED BY <2>1, <2>2, <2>3 DEF Peer, Send, Take, AllVars, echoVars
<1> QED BY <1>3, <1>4, <1>5 DEF EchoInv

(* main registers the listening socket before the loop runs.               *)
LEMMA MainKeeps ==
  ASSUME CoreInv, CoreInv', EchoInv, Main PROVE (SockOK /\ WatchOK /\ CallOK)'
<1>1. pc = "app" /\ ~inMain /\ UNCHANGED <<sock, peer, ran>>
  BY DEF Main, echoVars
<1>2. SockOK'
  BY <1>1 DEF EchoInv, SockOK
<1>3. FileTypeOK
  BY DEF CoreInv, TableInv
<1>4. CASE maxfd # -1 /\ aeMain
  <2>1. UNCHANGED <<events, maxfd>> /\ pc' = "top"
    BY <1>4 DEF aeMain, fileVars
  <2>2. WatchOK'
    BY <1>1, <1>4, <2>1, WatchUnchanged DEF EchoInv
  <2> QED BY <1>1, <1>2, <2>1, <2>2 DEF EchoInv, CallOK
<1>5. CASE /\ maxfd = -1 /\ maxfd' = ListenFd
           /\ CreateFileEvent(ListenFd, {"R"}, "acceptTcpHandler", NULL)
  <2>1. /\ UNCHANGED pc
        /\ events' = [events EXCEPT ![ListenFd] = Merged(ListenFd, {"R"}, "acceptTcpHandler", NULL)]
    BY <1>3, <1>5, CreateEffect DEF ListenFd
  <2>2. \A fd \in Fd : events[fd].mask = {}
    <3>1. MaxfdIsHighest
      BY DEF CoreInv, TableInv
    <3> QED BY <1>5, <3>1, FileAssumption DEF MaxfdIsHighest, Registered, Fd
  <2>3. \A fd \in AllFds : fd # ListenFd => sock[fd] = "free"
    BY <1>5 DEF EchoInv, WatchOK, Quiet
  <2>4. ListenFd \in Fd /\ ListenFd \in AllFds /\ sock[ListenFd] = "listen"
    <3>1. maxfd' \in Fd \cup {-1}
      BY DEF CoreInv, TableInv, FileTypeOK
    <3> QED BY <1>5, <3>1, Descriptors DEF ListenFd, EchoInv, WatchOK, Quiet
  <2>5. /\ events'[ListenFd].mask = {"R"} /\ events'[ListenFd].rfileProc = "acceptTcpHandler"
        /\ \A fd \in Fd : fd # ListenFd => events'[fd].mask = {}
    BY <1>3, <2>1, <2>2, <2>4 DEF Merged, FileTypeOK
  <2>6. \A fd \in Fd : Registered(fd)' <=> fd = ListenFd
    BY <2>5 DEF Registered
  <2>7. OneForgotten'
    BY <1>1, <2>3, <2>4, EchoAssumption DEF OneForgotten, Unwatched
  <2>8. WatchOK'
    <3>1. maxfd' # -1
      BY <1>5 DEF ListenFd
    <3> QED BY <2>4, <2>5, <2>6, <2>7, <3>1 DEF WatchOK, Watches
  <2> QED BY <1>1, <1>2, <2>1, <2>8 DEF EchoInv, CallOK
<1> QED BY <1>4, <1>5 DEF Main


(* A handler that changes the event of one connection: the table, the      *)
(* listening socket and the other connections are as they were.            *)
LEMMA OneChanges ==
  ASSUME CoreInv, EchoInv, CoreInv', maxfd # -1,
         NEW fd \in Fd, fd # ListenFd, fd \notin Unwatched,
         \A g \in Fd : g # fd => events'[g] = events[g],
         \A g \in AllFds : g # fd => sock'[g] = sock[g],
         IF fd \in AllFds /\ sock'[fd] \in Clients THEN Registered(fd)' /\ Watches(fd)'
         ELSE ~Registered(fd)'
  PROVE  WatchOK'
<1>1. ListenFd \in Fd /\ Registered(ListenFd) /\ OneForgotten
  BY DEF EchoInv, WatchOK
<1>2. \A g \in Fd : g # fd => (Registered(g)' <=> Registered(g))
  BY DEF Registered
<1>3. Registered(ListenFd)'
  BY <1>1, <1>2
<1>4. maxfd' # -1
  BY <1>1, <1>3, Descriptors DEF CoreInv, TableInv, MaxfdIsHighest, FileTypeOK, ListenFd
<1>5. ASSUME NEW g \in Fd, Registered(g)' PROVE Watches(g)'
  <2>1. CASE g = fd
    BY <1>5, <2>1
  <2>2. CASE g # fd
    <3>1. Watches(g) /\ events'[g] = events[g]
      BY <1>2, <1>5, <2>2 DEF EchoInv, WatchOK
    <3>2. g \in AllFds => sock'[g] = sock[g]
      BY <2>2
    <3> QED BY <3>1, <3>2 DEF Watches
  <2> QED BY <2>1, <2>2
<1>6. OneForgotten'
  <2>1. sock'[ListenFd] = sock[ListenFd]
    BY Descriptors
  <2>2. Unwatched' = Unwatched
    BY <1>2 DEF Unwatched
  <2> QED BY <1>1, <2>1, <2>2 DEF OneForgotten
<1> QED BY <1>1, <1>3, <1>4, <1>5, <1>6 DEF WatchOK

(* close_client: both events of the socket are deleted, then it is closed. *)
LEMMA CloseKeeps ==
  ASSUME CoreInv, EchoInv, CoreInv', NEW fd \in AllFds, fd \in Fd, fd # ListenFd,
         maxfd # -1, Registered(fd), DeleteFileEvent(fd, Kinds),
         sock' = [sock EXCEPT ![fd] = "free"], UNCHANGED peer, ran'
  PROVE  (SockOK /\ WatchOK /\ CallOK)'
<1>1. SockOK'
  BY Descriptors, EchoAssumption DEF EchoInv, SockOK
<1>2. FileTypeOK
  BY DEF CoreInv, TableInv
<1>3. events' = [events EXCEPT ![fd].mask = @ \ Kinds]
  BY <1>2, DeleteEffect
<1>4. ~Registered(fd)' /\ \A g \in Fd : g # fd => events'[g] = events[g]
  BY <1>2, <1>3 DEF FileTypeOK, aeFileEvent, Registered
<1>5. sock'[fd] \notin Clients /\ \A g \in AllFds : g # fd => sock'[g] = sock[g]
  BY EchoAssumption DEF EchoInv, SockOK
<1>6. WatchOK'
  BY <1>4, <1>5, OneChanges DEF Unwatched
<1> QED BY <1>1, <1>6 DEF EchoInv, CallOK

(* A handler that changes only the writable event of a connection.         *)
LEMMA WritableKeeps ==
  ASSUME CoreInv, EchoInv, CoreInv', NEW fd \in AllFds, fd \in Fd, fd # ListenFd,
         maxfd # -1, Registered(fd), UNCHANGED <<sock, peer>>, ran',
         \/ DeleteFileEvent(fd, {"W"})
         \/ CreateFileEvent(fd, {"W"}, "onWritePrepared", sock[fd])
  PROVE  (SockOK /\ WatchOK /\ CallOK)'
<1>1. SockOK'
  BY DEF EchoInv, SockOK
<1>2. FileTypeOK /\ Watches(fd)
  BY DEF CoreInv, TableInv, EchoInv, WatchOK
<1>3. /\ \A g \in Fd : g # fd => events'[g] = events[g]
      /\ "R" \in events'[fd].mask /\ events'[fd].rfileProc = "onReadPrepared"
      /\ "W" \in events'[fd].mask => events'[fd].wfileProc = "onWritePrepared"
      /\ events'[fd].clientData = sock[fd]
  <2>1. CASE DeleteFileEvent(fd, {"W"})
    <3>1. events' = [events EXCEPT ![fd].mask = @ \ {"W"}]
      BY <1>2, <2>1, DeleteEffect
    <3> QED BY <1>2, <3>1 DEF FileTypeOK, aeFileEvent, Watches
  <2>2. CASE CreateFileEvent(fd, {"W"}, "onWritePrepared", sock[fd])
    <3>1. \/ UNCHANGED events
          \/ events' = [events EXCEPT ![fd] = Merged(fd, {"W"}, "onWritePrepared", sock[fd])]
      BY <1>2, <2>2, CreateEffect
    <3> QED BY <1>2, <3>1 DEF FileTypeOK, aeFileEvent, Watches, Merged
  <2> QED BY <2>1, <2>2
<1>4. Registered(fd)' /\ Watches(fd)' /\ sock'[fd] \in Clients
  BY <1>2, <1>3 DEF Registered, Watches
<1>5. WatchOK'
  BY <1>3, <1>4, OneChanges DEF Unwatched
<1> QED BY <1>1, <1>5 DEF EchoInv, CallOK

(* A client that is accepted gets a descriptor of its own.                 *)
LEMMA AcceptSockets ==
  ASSUME EchoInv, NEW c \in Clients, NEW cfd \in AllFds,
         sock[cfd] = "free", cfd # ListenFd, peer[c] = "pending",
         \/ Registers(cfd, c) \/ FailsToRegister(cfd, c)
  PROVE  /\ SockOK'
         /\ sock'[cfd] = c
         /\ \A g \in AllFds : g # cfd /\ g # ListenFd => sock'[g] = sock[g]
<1>1. c # "listen" /\ c # "free" /\ "free" \notin Clients /\ "listen" \notin Clients
  BY EchoAssumption
<1>2. \A fd \in AllFds : sock[fd] \in Clients => sock[fd] # c
  BY DEF EchoInv, SockOK
<1>3. CASE Registers(cfd, c)
  BY <1>1, <1>2, <1>3, Descriptors DEF Registers, EchoInv, SockOK
<1>4. CASE FailsToRegister(cfd, c)
  <2>1. /\ sock' \in [AllFds -> {"listen", "free"} \cup Clients]
        /\ sock'[ListenFd] = "free" /\ sock'[cfd] = c
        /\ \A g \in AllFds : g # cfd /\ g # ListenFd => sock'[g] = sock[g]
    BY <1>4, Descriptors DEF FailsToRegister, EchoInv, SockOK
  <2>2. /\ peer' \in [Clients -> {"out", "pending", "open", "gone"}]
        /\ peer'[c] = "open" /\ \A d \in Clients : peer'[d] # "pending"
        /\ \A d \in Clients : peer[d] \in {"open", "gone"} => peer'[d] \in {"open", "gone"}
    BY <1>4 DEF FailsToRegister, EchoInv, SockOK
  <2>3. SockOK'
    BY <1>1, <1>2, <2>1, <2>2, Descriptors DEF EchoInv, SockOK
  <2> QED BY <2>1, <2>3
<1> QED BY <1>3, <1>4

(* acceptTcpHandler: a fresh descriptor, registered for its client; or the *)
(* one that is not, and the end of listening.                              *)
LEMMA AcceptKeeps ==
  ASSUME CoreInv, EchoInv, CoreInv', acceptTcpHandler
  PROVE  (SockOK /\ WatchOK /\ CallOK)'
<1>1. pc = "rcb" /\ ran' = TRUE /\ ~ran
  BY AcceptCases
<1>2. maxfd # -1 /\ FileTypeOK
  BY <1>1, AtEntry DEF CoreInv, TableInv
<1>3. CASE UNCHANGED <<vars, sock, peer, client>>
  <2>1. SockOK' /\ WatchOK'
    BY <1>2, <1>3, WatchUnchanged DEF EchoInv, SockOK, vars, fileVars
  <2> QED BY <1>1, <2>1 DEF EchoInv, CallOK
<1>4. ASSUME NEW c \in Clients, NEW cfd \in AllFds, sock[cfd] = "free", cfd # ListenFd,
             peer[c] = "pending", sock[ListenFd] = "listen", Registers(cfd, c)
      PROVE  (SockOK /\ WatchOK /\ CallOK)'
  <2>1. SockOK' /\ sock'[cfd] = c
    BY <1>4, AcceptSockets
  <2>2. \A g \in AllFds : g # cfd => sock'[g] = sock[g]
    BY <1>4 DEF Registers, EchoInv, SockOK
  <2>3. cfd \in Fd /\ ~Registered(cfd)
    BY <1>2, <1>4, EchoAssumption DEF Registers, EchoInv, WatchOK, Watches
  <2>4. events' = [events EXCEPT ![cfd] = Merged(cfd, {"R"}, "onReadPrepared", c)]
    BY <1>2, <1>4, CreateEffect DEF Registers
  <2>5. /\ \A g \in Fd : g # cfd => events'[g] = events[g]
        /\ events'[cfd].mask = {"R"} /\ events'[cfd].rfileProc = "onReadPrepared"
        /\ events'[cfd].clientData = c
    BY <1>2, <2>3, <2>4 DEF FileTypeOK, aeFileEvent, Merged, Registered
  <2>6. Registered(cfd)' /\ Watches(cfd)' /\ sock'[cfd] \in Clients
    BY <1>4, <2>1, <2>5 DEF Registered, Watches
  <2>7. WatchOK'
    <3>1. cfd \notin Unwatched
      BY <1>4, EchoAssumption DEF Unwatched
    <3> QED BY <1>2, <1>4, <2>2, <2>3, <2>5, <2>6, <3>1, OneChanges
  <2> QED BY <1>1, <2>1, <2>7 DEF EchoInv, CallOK
<1>5. ASSUME NEW c \in Clients, NEW cfd \in AllFds, sock[cfd] = "free", cfd # ListenFd,
             peer[c] = "pending", sock[ListenFd] = "listen", FailsToRegister(cfd, c)
      PROVE  (SockOK /\ WatchOK /\ CallOK)'
  <2>1. /\ SockOK' /\ sock'[cfd] = c
        /\ \A g \in AllFds : g # cfd /\ g # ListenFd => sock'[g] = sock[g]
    BY <1>5, AcceptSockets
  <2>2. UNCHANGED <<events, maxfd>> /\ sock'[ListenFd] = "free"
    BY <1>5, Descriptors DEF FailsToRegister, EchoInv, SockOK
  <2>3. /\ ListenFd \in Fd /\ Registered(ListenFd) /\ Unwatched = {}
        /\ \A fd \in Fd : Registered(fd) => Watches(fd)
    BY <1>2, <1>5 DEF EchoInv, WatchOK, OneForgotten
  <2>4. ~(cfd \in Fd /\ Registered(cfd))
    BY <1>5, <2>3, EchoAssumption DEF Watches
  <2>5. Unwatched' = {cfd}
    <3>1. cfd \in Unwatched'
      BY <1>5, <2>1, <2>2, <2>4 DEF Unwatched, Registered
    <3>2. ASSUME NEW g \in Unwatched' PROVE g = cfd
      BY <1>5, <2>1, <2>2, <2>3, <3>2, EchoAssumption DEF Unwatched, Registered
    <3> QED BY <3>1, <3>2
  <2>6. OneForgotten'
    BY <1>5, <2>2, <2>5 DEF OneForgotten
  <2>7. ASSUME NEW g \in Fd, Registered(g)' PROVE Watches(g)'
    <3>1. Watches(g) /\ g # cfd
      BY <2>2, <2>3, <2>4, <2>7 DEF Registered
    <3> QED BY <2>1, <2>2, <3>1 DEF Watches
  <2>8. WatchOK'
    BY <1>2, <2>2, <2>3, <2>6, <2>7 DEF WatchOK, Registered
  <2> QED BY <1>1, <2>1, <2>8 DEF EchoInv, CallOK
<1> QED BY <1>3, <1>4, <1>5, AcceptCases

(* A read asks for writing, or closes the socket with its event.           *)
LEMMA ReadKeeps ==
  ASSUME CoreInv, EchoInv, CoreInv', onReadPrepared PROVE (SockOK /\ WatchOK /\ CallOK)'
<1> DEFINE c == Fe.clientData
<1>1. Handler("rcb", "onReadPrepared") /\ UNCHANGED peer
  BY DEF onReadPrepared
<1>2. c \in Clients /\ sock[Entry.fd] = c
  BY <1>1, ServesClient
<1>3. /\ Entry.fd \in AllFds /\ Entry.fd \in Fd /\ Entry.fd # ListenFd
      /\ Registered(Entry.fd) /\ maxfd # -1
  BY <1>1, AtEntry, ServesClient DEF Handler
<1>4. ran'
  BY <1>1 DEF Handler
<1>5. \/ close_client(c)
      \/ AsksToWrite(c) /\ UNCHANGED sock
  BY DEF onReadPrepared
<1>6. CASE close_client(c)
  BY <1>1, <1>2, <1>3, <1>4, <1>6, CloseKeeps DEF close_client
<1>7. CASE AsksToWrite(c) /\ UNCHANGED sock
  <2>1. CreateFileEvent(Entry.fd, {"W"}, "onWritePrepared", sock[Entry.fd])
    BY <1>2, <1>7 DEF AsksToWrite
  <2> QED BY <1>1, <1>2, <1>3, <1>4, <1>7, <2>1, WritableKeeps
<1> QED BY <1>5, <1>6, <1>7

(* A write takes that back, or closes the socket with its event.           *)
LEMMA WriteKeeps ==
  ASSUME CoreInv, EchoInv, CoreInv', onWritePrepared PROVE (SockOK /\ WatchOK /\ CallOK)'
<1> DEFINE c == Fe.clientData
<1>1. Handler("wcb", "onWritePrepared") /\ UNCHANGED peer
  BY DEF onWritePrepared
<1>2. c \in Clients /\ sock[Entry.fd] = c
  BY <1>1, ServesClient
<1>3. /\ Entry.fd \in AllFds /\ Entry.fd \in Fd /\ Entry.fd # ListenFd
      /\ Registered(Entry.fd) /\ maxfd # -1
  BY <1>1, AtEntry, ServesClient DEF Handler
<1>4. ran'
  BY <1>1 DEF Handler
<1>5. WriteSucceeds(c) \/ WriteFails(c) \/ WriteKills(c)
  BY DEF onWritePrepared
<1>6. CASE WriteSucceeds(c)
  <2>1. DeleteFileEvent(Entry.fd, {"W"}) /\ UNCHANGED sock
    BY <1>6 DEF WriteSucceeds, DoneWriting
  <2> QED BY <1>1, <1>2, <1>3, <1>4, <2>1, WritableKeeps
<1>7. CASE WriteFails(c)
  <2>1. close_client(c)
    BY <1>7 DEF WriteFails
  <2> QED BY <1>1, <1>2, <1>3, <1>4, <2>1, CloseKeeps DEF close_client
<1>8. CASE WriteKills(c)
  <2>1. UNCHANGED <<vars, sock>>
    BY <1>8 DEF WriteKills
  <2>2. SockOK' /\ WatchOK'
    BY <1>1, <1>3, <2>1, WatchUnchanged DEF EchoInv, SockOK, vars, fileVars
  <2> QED BY <1>4, <2>2 DEF EchoInv, CallOK
<1> QED BY <1>5, <1>6, <1>7, <1>8

(* The epoll set follows, whether the server listens or not.               *)
LEMMA AskedKeeps ==
  ASSUME CoreInv, EchoInv, CoreInv', UsesLoop, SockOK' PROVE AskedOK'
<1>1. sock'[ListenFd] = sock[ListenFd]
  BY DEF UsesLoop
<1>2. CASE sock[ListenFd] = "listen"
  <2>1. InterestIsMask /\ [Next]_vars
    BY <1>2, UseIsStep DEF EchoInv, AskedOK
  <2> QED BY <1>1, <1>2, <2>1, StepOK DEF AskedOK
<1>3. CASE sock[ListenFd] # "listen"
  <2>1. interest \in [Fd -> SUBSET Kinds]
    BY DEF CoreInv, TableInv, FileTypeOK
  <2>2. ListenFd \in Fd => interest'[ListenFd] = interest[ListenFd]
    <3>1. CASE UNCHANGED vars
      BY <3>1 DEF vars, fileVars
    <3>2. CASE LoopAlone
      BY <3>2 DEF LoopAlone, LoopStep, aeMain, PollFires, PollInterrupted, ReadHandlerReturns,
                  WriteHandlerReturns, Iterate, LeaveMain, EnterNothing, EnterPoll, EnterNoPoll,
                  CallReadHandler, CallWriteHandler, SkipWrite, NextEntry, BeginTimePass,
                  EndWithoutTimePass, SkipTimer, CallTimerHandler, EndTimePass, Return, fileVars
    <3>3. ASSUME NEW fd \in FdArgs, fd # ListenFd, Calls(fd)
          PROVE  ListenFd \in Fd => interest'[ListenFd] = interest[ListenFd]
      BY <2>1, <3>3 DEF Calls, CreateFileEvent, DeleteFileEvent, aeCreateFileEvent,
                        aeDeleteFileEvent, aeApiAddEvent, aeApiDelEvent, EpollCtl, fileVars
    <3> QED BY <1>3, <3>1, <3>2, <3>3 DEF UsesLoop
  <2> QED BY <1>1, <1>3, <2>2 DEF EchoInv, AskedOK
<1> QED BY <1>2, <1>3

(* At first nothing is registered.                                         *)
LEMMA EchoInitOK == EchoInit => CoreInv /\ EchoInv
<1> SUFFICES ASSUME EchoInit PROVE CoreInv /\ EchoInv
  OBVIOUS
<1>1. CoreInv /\ InterestIsMask
  BY InitOK DEF EchoInit
<1>2. maxfd = -1 /\ pc = "app" /\ ~inMain /\ ran = FALSE
  BY DEF EchoInit, Init, FileInit
<1>3. SockOK /\ AskedOK
  BY <1>1, Descriptors, EchoAssumption DEF EchoInit, SockOK, AskedOK
<1>4. WatchOK
  BY <1>2, Descriptors DEF EchoInit, WatchOK, Quiet
<1> QED BY <1>1, <1>2, <1>3, <1>4 DEF EchoInv, CallOK

(* Every step keeps both invariants.                                       *)
LEMMA EchoStepOK == CoreInv /\ EchoInv /\ [EchoNext]_AllVars => (CoreInv /\ EchoInv)'
<1> SUFFICES ASSUME CoreInv, EchoInv, [EchoNext]_AllVars PROVE (CoreInv /\ EchoInv)'
  OBVIOUS
<1>1. CoreInv'
  BY StepCases, UseIsStep, StepOK, FailKeepsCore
<1>2. \/ Peer \/ UNCHANGED AllVars \/ Main \/ Poll \/ Loop
      \/ acceptTcpHandler \/ onReadPrepared \/ onWritePrepared
  BY DEF EchoNext, Server
<1>3. (SockOK /\ WatchOK /\ CallOK)'
  BY <1>1, <1>2, PeerKeeps, MainKeeps, LoopKeeps, AcceptKeeps, ReadKeeps, WriteKeeps
<1>4. AskedOK'
  <2>1. CASE UsesLoop
    BY <1>1, <1>3, <2>1, AskedKeeps
  <2>2. ASSUME NEW c, NEW cfd \in AllFds, cfd # ListenFd, FailsToRegister(cfd, c)
        PROVE  AskedOK'
    BY <2>2, Descriptors
    DEF FailsToRegister, EchoInv, SockOK, CoreInv, TableInv, FileTypeOK, AskedOK
  <2> QED BY <2>1, <2>2, StepCases
<1> QED BY <1>1, <1>3, <1>4 DEF EchoInv

(* The inductive invariant: the loop's own, and what the server's handlers *)
(* keep of its sockets, of the table and of the epoll set.                 *)
THEOREM EchoInvariance == EchoSpec => [](CoreInv /\ EchoInv)
  BY EchoInitOK, EchoStepOK, PTL DEF EchoSpec

-----------------------------------------------------------------------------
(* The loop that the server uses, with what it was asked to watch in the   *)
(* place of the epoll set.                                                 *)

(* What the kernel watches it was asked to.                                *)
LEMMA AskedType ==
  ASSUME CoreInv, EchoInv
  PROVE  /\ asked \in [Fd -> SUBSET Kinds] /\ interest \in [Fd -> SUBSET Kinds]
         /\ \A fd \in Fd : interest[fd] \subseteq asked[fd]
         /\ \A fd \in Fd : fd # ListenFd \/ sock[fd] = "listen" => asked[fd] = interest[fd]
<1>1. events \in [Fd -> aeFileEvent] /\ interest \in [Fd -> SUBSET Kinds]
  BY DEF CoreInv, TableInv, FileTypeOK
<1>2. ListenFd \in Fd /\ sock[ListenFd] = "free" => interest[ListenFd] = {}
  BY EchoAssumption DEF EchoInv, AskedOK
<1>3. sock[ListenFd] \in {"listen", "free"}
  BY DEF EchoInv, SockOK
<1> QED BY <1>1, <1>2, <1>3 DEF asked, aeFileEvent

(* A call of the API for a descriptor that is not closed.                  *)
LEMMA CreateIsView ==
  ASSUME CoreInv, EchoInv, NEW fd, fd = ListenFd => sock[fd] = "listen",
         sock'[ListenFd] = sock[ListenFd], NEW m, NEW proc, NEW d,
         CreateFileEvent(fd, m, proc, d)
  PROVE  View!CreateFileEvent(fd, m, proc, d)
<1>1. UserCode /\ aeCreateFileEvent(fd, m, proc, d)
      /\ UNCHANGED <<timeVars, batchVars, walkVars, pass, pc, stop, jumps>>
  BY DEF CreateFileEvent
<1>2. CASE UNCHANGED fileVars
  <2>1. UNCHANGED View!fileVars
    BY <1>2 DEF fileVars, View!fileVars, asked
  <2> QED BY <1>1, <2>1
    DEF View!CreateFileEvent, View!aeCreateFileEvent, View!UserCode, UserCode, View!timeVars,
        timeVars, View!batchVars, batchVars, View!walkVars, walkVars
<1>3. CASE fd \in Fd /\ ~UNCHANGED fileVars
  <2> DEFINE all == events[fd].mask \cup m
             op  == IF Registered(fd) THEN "MOD" ELSE "ADD"
  <2>1. /\ (op = "ADD") <=> (interest[fd] = {})
        /\ interest' = [interest EXCEPT ![fd] = all]
        /\ events' = [events EXCEPT ![fd] =
             [mask       |-> @.mask \cup m,
              rfileProc  |-> IF "R" \in m THEN proc ELSE @.rfileProc,
              wfileProc  |-> IF "W" \in m THEN proc ELSE @.wfileProc,
              clientData |-> d]]
        /\ maxfd' = IF fd > maxfd THEN fd ELSE maxfd
    BY <1>1, <1>3 DEF aeCreateFileEvent, aeApiAddEvent, EpollCtl
  <2>2. asked[fd] = interest[fd] /\ asked' = [asked EXCEPT ![fd] = all]
    BY <1>3, <2>1, AskedType DEF asked, CoreInv, TableInv, FileTypeOK
  <2>3. View!aeCreateFileEvent(fd, m, proc, d)
    BY <1>3, <2>1, <2>2
    DEF View!aeCreateFileEvent, View!aeApiAddEvent, View!EpollCtl, View!Fd, Fd,
        View!Registered, Registered
  <2> QED BY <1>1, <2>3
    DEF View!CreateFileEvent, View!UserCode, UserCode, View!timeVars,
        timeVars, View!batchVars, batchVars, View!walkVars, walkVars
<1> QED BY <1>1, <1>2, <1>3 DEF aeCreateFileEvent

LEMMA DeleteIsView ==
  ASSUME CoreInv, EchoInv, NEW fd, fd = ListenFd => sock[fd] = "listen",
         sock'[ListenFd] = sock[ListenFd], NEW m, DeleteFileEvent(fd, m)
  PROVE  View!DeleteFileEvent(fd, m)
<1>1. UserCode /\ aeDeleteFileEvent(fd, m)
  BY DEF DeleteFileEvent
<1>2. ASSUME UNCHANGED fileVars, fd \notin Fd \/ ~Registered(fd)
      PROVE  View!aeDeleteFileEvent(fd, m)
  <2>1. UNCHANGED View!fileVars
    BY <1>2 DEF fileVars, View!fileVars, asked
  <2> QED BY <1>2, <2>1
    DEF View!aeDeleteFileEvent, View!Fd, Fd, View!Registered, Registered
<1>3. ASSUME fd \in Fd, Registered(fd) PROVE View!aeDeleteFileEvent(fd, m)
  <2> DEFINE left == events[fd].mask \ m
  <2>1. /\ events' = [events EXCEPT ![fd].mask = left]
        /\ UpdateMaxfd(fd, left)
        /\ interest' = [interest EXCEPT ![fd] = left]
    BY <1>1, <1>3 DEF aeDeleteFileEvent, aeApiDelEvent
  <2>2. asked' = [asked EXCEPT ![fd] = left]
    BY <1>3, <2>1, AskedType DEF asked, CoreInv, TableInv, FileTypeOK
  <2>3. View!aeDeleteFileEvent(fd, m)
    BY <1>3, <2>1, <2>2
    DEF View!aeDeleteFileEvent, View!aeApiDelEvent, View!UpdateMaxfd, UpdateMaxfd,
        View!Fd, Fd, View!Registered, Registered
  <2> QED BY <2>3
<1>4. View!aeDeleteFileEvent(fd, m)
  BY <1>1, <1>2, <1>3 DEF aeDeleteFileEvent
<1> QED BY <1>1, <1>4
  DEF DeleteFileEvent, View!DeleteFileEvent, View!UserCode, UserCode, View!timeVars,
      timeVars, View!walkVars, walkVars

(* Steps of the loop that touch neither the table nor the epoll set.       *)
LEMMA AloneIsView ==
  ASSUME CoreInv, EchoInv, LoopAlone, UNCHANGED sock PROVE View!Next
<1>1. UNCHANGED <<events, maxfd, interest>>
  BY DEF LoopAlone, LoopStep, aeMain, PollFires, PollInterrupted, ReadHandlerReturns,
         WriteHandlerReturns, Iterate, LeaveMain, EnterNothing, EnterPoll, EnterNoPoll,
         CallReadHandler, CallWriteHandler, SkipWrite, NextEntry, BeginTimePass,
         EndWithoutTimePass, SkipTimer, CallTimerHandler, EndTimePass, Return, fileVars,
         batchVars
<1>2. UNCHANGED View!fileVars
  BY <1>1 DEF View!fileVars, asked
<1> USE <1>2 DEF View!timeVars, timeVars, View!batchVars, batchVars, View!walkVars, walkVars,
                 View!AllEvents, AllEvents
<1>3. CASE aeMain
  BY <1>3 DEF aeMain, View!aeMain, View!Next, View!Application
<1>4. CASE Iterate \/ LeaveMain
  BY <1>4 DEF Iterate, LeaveMain, View!Iterate, View!LeaveMain, View!Next, View!LoopStep
<1>5. CASE EnterNothing \/ EnterPoll \/ EnterNoPoll
  BY <1>5 DEF EnterNothing, EnterPoll, EnterNoPoll, Return, MustPoll, Waits, PollTimeout,
              Nearest, TimeToFire, Ms, Sec, Forever, NoTimer, NoPass,
              View!EnterNothing, View!EnterPoll, View!EnterNoPoll, View!Return,
              View!MustPoll, View!Waits, View!PollTimeout, View!Nearest, View!TimeToFire,
              View!Ms, View!Sec, View!Forever, View!NoTimer, View!NoPass, View!Next, View!LoopStep
<1>6. CASE CallReadHandler \/ CallWriteHandler \/ SkipWrite
  BY <1>6 DEF CallReadHandler, CallWriteHandler, SkipWrite, NextEntry, ReadDue, WriteDue,
              Valid, Fe, Entry, Handed,
              View!CallReadHandler, View!CallWriteHandler, View!SkipWrite, View!NextEntry,
              View!ReadDue, View!WriteDue, View!Valid, View!Fe, View!Entry, View!Handed,
              View!Next, View!LoopStep
<1>7. CASE BeginTimePass \/ EndWithoutTimePass \/ EndTimePass
  BY <1>7 DEF BeginTimePass, EndWithoutTimePass, EndTimePass, Return, CheckClockSkew,
              SkewDetected, MakeDue, Ms, Sec, LastIdOfPass, Ids, NoTimer, NoPass,
              View!BeginTimePass, View!EndWithoutTimePass, View!EndTimePass, View!Return,
              View!CheckClockSkew, View!SkewDetected, View!MakeDue, View!Ms, View!Sec,
              View!LastIdOfPass, View!Ids, View!NoTimer, View!NoPass, View!Next, View!LoopStep
<1>8. CASE SkipTimer \/ CallTimerHandler
  BY <1>8 DEF SkipTimer, CallTimerHandler, Runnable, Due, View!SkipTimer,
              View!CallTimerHandler, View!Runnable, View!Due, View!Next, View!LoopStep
<1>9. CASE PollInterrupted
  BY <1>9 DEF PollInterrupted, View!PollInterrupted, View!Next, View!Kernel
<1>10. CASE ReadHandlerReturns \/ WriteHandlerReturns
  BY <1>10 DEF ReadHandlerReturns, WriteHandlerReturns, NextEntry, View!ReadHandlerReturns,
               View!WriteHandlerReturns, View!NextEntry, View!HandlerReturns, View!Next
<1>11. CASE PollFires
  <2>1. \A fd \in Fd : Reportable(fd) \subseteq View!Reportable(fd)
    BY AskedType DEF Reportable, View!Reportable
  <2>2. {fd \in Fd : interest[fd] # {}} \subseteq {fd \in View!Fd : asked[fd] # {}}
    BY AskedType DEF Fd, View!Fd
  <2>3. PICK S \in SUBSET {fd \in Fd : interest[fd] # {}} :
          /\ S # {}
          /\ \E order \in SetToSeqs(S), m \in [S -> SUBSET Kinds] :
               /\ \A fd \in S : m[fd] \in Reportable(fd)
               /\ fired' = [j \in DOMAIN order |->
                              [fd |-> order[j], mask |-> m[order[j]],
                               due |-> m[order[j]] \cap events[order[j]].mask]]
    BY <1>11 DEF PollFires
  <2>4. SetToSeqs(S) = View!SetToSeqs(S)
    <3>1. Cardinality(S) = View!Cardinality(S)
      BY Zenon DEF Cardinality, View!Cardinality
    <3> QED BY <3>1 DEF SetToSeqs, View!SetToSeqs
  <2>5. \E order \in View!SetToSeqs(S), m \in [S -> SUBSET Kinds] :
          /\ \A fd \in S : m[fd] \in View!Reportable(fd)
          /\ fired' = [j \in DOMAIN order |->
                         [fd |-> order[j], mask |-> m[order[j]],
                          due |-> m[order[j]] \cap events[order[j]].mask]]
    BY <2>1, <2>3, <2>4
  <2>6. S \in SUBSET {fd \in View!Fd : asked[fd] # {}} /\ S # {}
    BY <2>2, <2>3
  <2>7. /\ pc = "poll" /\ pc' = "fired" /\ timeout' = 0
        /\ UNCHANGED <<timeVars, walkVars, pass, stop, jumps, inMain, flags, rfired>>
    BY <1>11 DEF PollFires
  <2>8. View!PollFires
    BY <2>5, <2>6, <2>7 DEF View!PollFires, View!Kinds, Kinds
  <2> QED BY <2>8 DEF View!Next, View!Kernel
<1> QED
  BY <1>3, <1>4, <1>5, <1>6, <1>7, <1>8, <1>9, <1>10, <1>11 DEF LoopAlone, LoopStep

(* The accept that closes the listening socket is nothing to the loop.     *)
LEMMA FailIsStutter ==
  ASSUME CoreInv, EchoInv, sock[ListenFd] = "listen", NEW c,
         NEW cfd \in AllFds, cfd # ListenFd, FailsToRegister(cfd, c)
  PROVE  UNCHANGED View!vars
<1>1. UNCHANGED <<events, maxfd, timeVars, batchVars, walkVars, pass, pc, stop, jumps>>
  BY DEF FailsToRegister
<1>2. \A fd \in Fd : asked[fd] = events[fd].mask
  BY AskedType DEF EchoInv, AskedOK, InterestIsMask
<1>3. sock'[ListenFd] = "free"
  BY Descriptors DEF FailsToRegister, EchoInv, SockOK
<1>4. interest \in [Fd -> SUBSET Kinds]
  BY AskedType
<1>5. \A fd \in Fd : fd # ListenFd => interest'[fd] = interest[fd]
  BY <1>4 DEF FailsToRegister
<1>6. \A fd \in Fd : asked'[fd] = asked[fd]
  BY <1>1, <1>2, <1>3, <1>5, AskedType DEF asked
<1>7. asked' = asked
  BY <1>6 DEF asked
<1> QED BY <1>1, <1>7
  DEF View!vars, View!fileVars, View!timeVars, timeVars, View!batchVars, batchVars,
      View!walkVars, walkVars

(* Every step of the server is one of that loop, or nothing to it.         *)
LEMMA StepIsViewStep ==
  CoreInv /\ EchoInv /\ [EchoNext]_AllVars => [View!Next]_(View!vars)
<1> SUFFICES ASSUME CoreInv, EchoInv, [EchoNext]_AllVars PROVE [View!Next]_(View!vars)
  OBVIOUS
<1>1. CASE UNCHANGED <<vars, sock>>
  <2>1. UNCHANGED asked
    BY <1>1 DEF asked, vars, fileVars
  <2> QED BY <1>1, <2>1
    DEF vars, fileVars, View!vars, View!fileVars, View!timeVars, timeVars, View!batchVars,
        batchVars, View!walkVars, walkVars
<1>2. CASE LoopAlone /\ UNCHANGED sock
  BY <1>2, AloneIsView
<1>3. ASSUME NEW fd \in FdArgs, fd = ListenFd => sock[fd] = "listen", Calls(fd),
             sock'[ListenFd] = sock[ListenFd]
      PROVE  View!Next
  <2>1. PICK m \in (SUBSET Kinds) \ {{}} :
             \/ \E proc \in Handlers, d \in Data : CreateFileEvent(fd, m, proc, d)
             \/ DeleteFileEvent(fd, m)
    BY <1>3 DEF Calls
  <2>2. CASE DeleteFileEvent(fd, m)
    BY <1>3, <2>2, DeleteIsView DEF View!Next, View!Api, View!Kinds, Kinds
  <2>3. ASSUME NEW proc \in Handlers, NEW d \in Data, CreateFileEvent(fd, m, proc, d)
        PROVE  View!Next
    <3>1. proc \in Procs
      BY EchoAssumption DEF Handlers
    <3> QED BY <1>3, <2>3, <3>1, CreateIsView DEF View!Next, View!Api, View!Kinds, Kinds
  <2> QED BY <2>1, <2>2, <2>3
<1>4. ASSUME sock[ListenFd] = "listen", NEW c \in Clients,
             NEW cfd \in AllFds, cfd # ListenFd, FailsToRegister(cfd, c)
      PROVE  UNCHANGED View!vars
  BY <1>4, FailIsStutter
<1> QED BY <1>1, <1>2, <1>3, <1>4, StepCases DEF UsesLoop

(* echoServer.c:45-49, 83-146: whatever the server and its clients do is a *)
(* behaviour of the event loop: what AeLoop_proofs shows of the loop with  *)
(* any handlers holds of the loop with these, the epoll set being what was *)
(* asked of the kernel.                                                    *)
THEOREM ImplementsLoopTheorem == EchoSpec => ImplementsLoop
<1>1. EchoInit => View!Init
  <2>1. EchoInit => Init /\ asked = interest
    BY EchoAssumption, Descriptors DEF EchoInit, Init, FileInit, asked
  <2> QED BY <2>1
    DEF Init, FileInit, TimeInit, View!Init, View!FileInit, View!TimeInit, View!Fd, Fd,
        View!Sec, Sec, View!NoTimer, NoTimer, View!NoPass, NoPass
<1>2. EchoSpec => [](CoreInv /\ EchoInv)
  BY EchoInvariance
<1> QED BY <1>1, <1>2, StepIsViewStep, PTL DEF EchoSpec, ImplementsLoop, View!Spec

(* echoServer.c:45-49, 122-128: the events of a connection are deleted     *)
(* before it is closed and an open one is watched for input, but for the   *)
(* one whose registration failed, with which the server stops listening.   *)
THEOREM OpenIffWatchedTheorem == EchoSpec => []OpenIffWatched
<1>1. CoreInv /\ EchoInv => OpenIffWatched
  BY DEF EchoInv, WatchOK, Watches, OneForgotten, OpenIffWatched
<1>2. EchoSpec => [](CoreInv /\ EchoInv)
  BY EchoInvariance
<1> QED BY <1>1, <1>2, PTL

-----------------------------------------------------------------------------
(* The bytes, client by client.                                            *)

(* A client waits for the echo, and what it sends altogether fits in a     *)
(* struct: the bytes echoed do not make room (echoServer.c:82).            *)
OneBuffer == PeersWait /\ MaxBytes <= BufSize

(* What the operators of the two handlers return.                          *)
Filled(b, g, n) == [i \in DOMAIN b |-> IF i - g \in 0 .. n - 1 THEN g + 1 + i - g ELSE b[i]]

(* A buffer holds the bytes that were read into it.                        *)
LEMMA FilledBuffer ==
  ASSUME NEW b \in Buffers, NEW g \in Nat, NEW n \in Nat, g + n <= BufSize
  PROVE  /\ Filled(b, g, n) \in Buffers
         /\ \A i \in g .. g + n - 1 : Filled(b, g, n)[i] = i + 1
<1> DEFINE f == Filled(b, g, n)
<1> USE EchoAssumption DEF Buffers
<1>1. ASSUME NEW i \in 0 .. BufSize - 1
      PROVE  (IF i - g \in 0 .. n - 1 THEN g + 1 + i - g ELSE b[i]) \in Nat
  <2>1. CASE i - g \in 0 .. n - 1
    BY <2>1
  <2>2. CASE i - g \notin 0 .. n - 1
    BY <2>2
  <2> QED BY <2>1, <2>2
<1>2. f \in [0 .. BufSize - 1 -> Nat]
  BY <1>1 DEF Filled
<1>3. ASSUME NEW i \in g .. g + n - 1 PROVE f[i] = i + 1
  <2>1. i \in 0 .. BufSize - 1 /\ i - g \in 0 .. n - 1 /\ g + 1 + i - g = i + 1
    BY <1>3
  <2>2. f[i] = IF i - g \in 0 .. n - 1 THEN g + 1 + i - g ELSE b[i]
    BY <2>1 DEF Filled
  <2> QED BY <2>1, <2>2
<1> QED BY <1>2, <1>3

(* What a struct holds.                                                    *)
LEMMA ClientFields ==
  ASSUME NEW r \in EchoClient
  PROVE  r.pos \in Int /\ r.size \in Int /\ r.buf \in Buffers
BY DEF EchoClient

(* A struct whose bytes were all written.                                  *)
LEMMA WrittenOK ==
  ASSUME NEW c, client[c] \in EchoClient
  PROVE  /\ Written(c) \in EchoClient
         /\ Written(c).pos = client[c].pos + client[c].size /\ Written(c).size = 0
<1>1. PICK r \in EchoClient : r = client[c]
  OBVIOUS
<1>2. PICK p \in Int, s \in Int : p = r.pos + r.size /\ s = 0
  BY ClientFields
<1>3. Written(c) = [r EXCEPT !.pos = p, !.size = s]
  BY <1>1, <1>2, Zenon DEF Written
<1>4. [r EXCEPT !.pos = p, !.size = s] \in EchoClient
  BY DEF EchoClient
<1>5. Written(c).pos = p /\ Written(c).size = s
  BY <1>3 DEF EchoClient
<1> QED BY <1>1, <1>2, <1>3, <1>4, <1>5

(* A struct after a write that failed.                                     *)
LEMMA Failing ==
  ASSUME NEW r \in EchoClient
  PROVE  [r EXCEPT !.mutex = "destroyed", !.pos = @ - 1, !.size = @ + 1] \in EchoClient
<1>1. PICK p \in Int, s \in Int : p = r.pos - 1 /\ s = r.size + 1
  BY ClientFields
<1>2. [r EXCEPT !.mutex = "destroyed", !.pos = p, !.size = s] \in EchoClient
  BY DEF EchoClient
<1> QED BY <1>1, <1>2

(* A struct with the bytes that were just read, behind those echoed.       *)
LEMMA ReceivedOK ==
  ASSUME NEW c, client[c] \in EchoClient, got[c] \in Nat, NEW n \in Nat,
         client[c].pos = got[c], client[c].size = 0, got[c] + n <= BufSize
  PROVE  /\ Received(c, n) \in EchoClient
         /\ Received(c, n).pos = got[c] /\ Received(c, n).size = n
         /\ \A i \in got[c] .. got[c] + n - 1 : Received(c, n).buf[i] = i + 1
<1>1. PICK r \in EchoClient : r = client[c]
  OBVIOUS
<1>2. r.buf \in Buffers
  BY ClientFields
<1>3. PICK f \in Buffers : /\ f = Filled(r.buf, got[c], n)
                           /\ \A i \in got[c] .. got[c] + n - 1 : f[i] = i + 1
  BY <1>1, <1>2, FilledBuffer
<1>4. PICK s \in Int : s = n
  OBVIOUS
<1>5. Received(c, n) = [r EXCEPT !.buf = f, !.size = s]
  <2>1. Received(c, n) = [r EXCEPT !.buf = Filled(r.buf, got[c], n), !.size = r.size + n]
    BY <1>1 DEF Received, Filled
  <2>2. r.size + n = s
    BY <1>1, <1>4
  <2> QED BY <1>3, <2>1, <2>2, Zenon
<1>6. [r EXCEPT !.buf = f, !.size = s] \in EchoClient
  BY DEF EchoClient
<1>7. Received(c, n).buf = f /\ Received(c, n).size = s /\ Received(c, n).pos = r.pos
  BY <1>5 DEF EchoClient
<1> QED BY <1>1, <1>3, <1>4, <1>5, <1>6, <1>7

(* What is left to be written are the bytes read and not yet echoed.       *)
LEMMA UnsentOK ==
  ASSUME NEW c, client[c] \in EchoClient, got[c] \in Nat, NEW k \in Nat,
         client[c].pos = k, client[c].size = got[c] - k, k <= got[c], got[c] <= BufSize,
         \A i \in k .. got[c] - 1 : client[c].buf[i] = i + 1
  PROVE  /\ Unsent(c) \in Seq(Nat) /\ Len(Unsent(c)) = got[c] - k
         /\ \A i \in 1 .. got[c] - k : Unsent(c)[i] = k + i
<1>1. ASSUME NEW i \in 1 .. got[c] - k
      PROVE  /\ k + i - 1 \in k .. got[c] - 1 /\ k + i - 1 < BufSize
             /\ (k + i - 1) + 1 = k + i
  BY <1>1, EchoAssumption
<1>2. \A i \in 1 .. got[c] - k : client[c].buf[k + i - 1] = k + i
  BY <1>1
<1>3. Unsent(c) = [i \in 1 .. got[c] - k |-> k + i]
  BY <1>1, <1>2 DEF Unsent
<1>4. PICK m \in Nat : m = got[c] - k
  OBVIOUS
<1>5. PICK s : s = Unsent(c)
  OBVIOUS
<1>6. s = [i \in 1 .. m |-> k + i]
  BY <1>3, <1>4, <1>5
<1>7. s \in Seq(Nat) /\ Len(s) = m /\ \A i \in 1 .. m : s[i] = k + i
  BY <1>6
<1> QED BY <1>4, <1>5, <1>7

(* The numbers from 1 to n, and those of them behind k.                    *)
FirstOf(s, n) == Len(s) = n /\ \A i \in 1 .. n : s[i] = i
NextOf(t, k, n) == Len(t) = n - k /\ \A i \in 1 .. n - k : t[i] = k + i

(* Appending the next numbers to the first ones.                           *)
LEMMA Counted ==
  ASSUME NEW s \in Seq(Nat), NEW g \in Nat, Len(s) <= g, NEW t \in Seq(Nat),
         FirstOf(s, Len(s)), NextOf(t, Len(s), g)
  PROVE  s \o t \in Seq(Nat) /\ FirstOf(s \o t, g)
<1> USE DEF FirstOf, NextOf
<1>2. ASSUME NEW i \in 1 .. g PROVE (s \o t)[i] = i
  <2>1. CASE i <= Len(s)
    BY <2>1
  <2>2. CASE i > Len(s)
    <3>1. i - Len(s) \in 1 .. g - Len(s) /\ Len(s) + (i - Len(s)) = i
      BY <2>2
    <3>2. t[i - Len(s)] = i
      BY <3>1
    <3>3. (s \o t)[i] = t[i - Len(s)]
      BY <2>2
    <3> QED BY <3>2, <3>3
  <2> QED BY <2>1, <2>2
<1> QED BY <1>2

(* A step that leaves the bytes of a client alone leaves them right.       *)
LEMMA SameBytes ==
  ASSUME NEW d \in Clients, BytesOK(d), Live(d)' => Live(d),
         sent'[d] = sent[d], got'[d] = got[d], taken'[d] = taken[d],
         echoed'[d] = echoed[d], client'[d] = client[d],
         peer'[d] \in {"out", "pending"} => peer[d] \in {"out", "pending"}
  PROVE  BytesOK(d)'
BY DEF BytesOK, EchoOK, StructOK, Unused

(* A descriptor that changes hands does not change the other clients'.     *)
LEMMA OthersLive ==
  ASSUME NEW fd, NEW s, sock \in [AllFds -> {"listen", "free"} \cup Clients],
         sock' = [sock EXCEPT ![fd] = s], NEW d \in Clients, d # s
  PROVE  Live(d)' => Live(d)
BY DEF Live

(* The peers' side: a client sends, takes what it got, and leaves.         *)
LEMMA PeerKeepsBytes ==
  ASSUME OneBuffer, EchoInv, BytesInv, Peer PROVE BytesInv'
<1> USE EchoAssumption DEF BytesInv
<1>1. PICK c \in Clients : Connect(c) \/ Send(c) \/ Take(c) \/ Leave(c)
  BY DEF Peer
<1>2. UNCHANGED <<sock, client, got, echoed>> /\ \A d \in Clients : Live(d)' <=> Live(d)
  BY <1>1 DEF Connect, Send, Take, Leave, Live, netVars
<1>3. /\ sent' \in [Clients -> Nat] /\ taken' \in [Clients -> Nat]
      /\ \A d \in Clients : d # c => /\ sent'[d] = sent[d] /\ taken'[d] = taken[d]
                                     /\ peer'[d] = peer[d]
  <2>1. CASE Connect(c)
    BY <2>1 DEF Connect, netVars, BytesTypeOK, EchoInv, SockOK
  <2>2. CASE Send(c)
    BY <2>2 DEF Send, BytesTypeOK
  <2>3. CASE Take(c)
    BY <2>3 DEF Take, BytesTypeOK
  <2>4. CASE Leave(c)
    BY <2>4 DEF Leave, netVars, BytesTypeOK, EchoInv, SockOK
  <2> QED BY <1>1, <2>1, <2>2, <2>3, <2>4
<1>4. BytesTypeOK'
  BY <1>2, <1>3 DEF BytesTypeOK
<1>5. BytesOK(c)'
  <2>1. CASE Connect(c)
    BY <1>2, <2>1, SameBytes DEF Connect, netVars
  <2>2. CASE Send(c)
    <3>1. PICK n \in 1 .. MaxBytes - sent[c] : sent' = [sent EXCEPT ![c] = @ + n]
      BY <2>2 DEF Send
    <3>2. sent'[c] = sent[c] + n /\ sent'[c] <= MaxBytes /\ taken[c] = sent[c]
      BY <2>2, <3>1 DEF Send, BytesTypeOK, OneBuffer
    <3>3. UNCHANGED <<taken, peer>> /\ BytesOK(c)
      BY <2>2 DEF Send
    <3>4. EchoOK(c)'
      BY <1>2, <3>1, <3>2, <3>3 DEF BytesOK, EchoOK, BytesTypeOK
    <3>5. ASSUME Live(c)' PROVE StructOK(c)'
      BY <1>2, <3>2, <3>3, <3>5 DEF BytesOK, StructOK, EchoOK, BytesTypeOK
    <3>6. peer'[c] \in {"out", "pending"} => Unused(c)'
      BY <1>2, <3>3 DEF BytesOK, Unused
    <3> QED BY <3>4, <3>5, <3>6 DEF BytesOK
  <2>3. CASE Take(c)
    <3>1. taken'[c] = Len(echoed[c]) /\ UNCHANGED <<sent, peer>> /\ BytesOK(c)
      BY <2>3 DEF Take, BytesTypeOK
    <3> QED BY <1>2, <3>1 DEF BytesOK, EchoOK, StructOK, Unused, BytesTypeOK
  <2>4. CASE Leave(c)
    <3>1. peer'[c] = "gone" /\ UNCHANGED <<sent, taken>>
      BY <2>4 DEF Leave, netVars, EchoInv, SockOK
    <3> QED BY <1>2, <3>1, SameBytes
  <2> QED BY <1>1, <2>1, <2>2, <2>3, <2>4
<1>6. \A d \in Clients : d # c => BytesOK(d)'
  BY <1>2, <1>3, SameBytes
<1> QED BY <1>4, <1>5, <1>6

(* Steps of the loop and an accept: a fresh client has a fresh struct.     *)
LEMMA AcceptKeepsBytes ==
  ASSUME CoreInv, EchoInv, BytesInv, acceptTcpHandler PROVE BytesInv'
<1> USE DEF BytesInv
<1>1. UNCHANGED netVars
  BY AcceptCases
<1>3. CASE UNCHANGED <<sock, peer, client>>
  <2>1. \A d \in Clients : Live(d)' <=> Live(d)
    BY <1>3 DEF Live
  <2>2. BytesTypeOK'
    BY <1>1, <1>3 DEF BytesTypeOK, netVars
  <2> QED BY <1>1, <1>3, <2>1, <2>2, SameBytes DEF netVars
<1>4. ASSUME NEW c \in Clients, NEW cfd \in AllFds, sock[cfd] = "free", cfd # ListenFd,
             peer[c] = "pending", Registers(cfd, c) \/ FailsToRegister(cfd, c)
      PROVE  BytesInv'
  <2>1. /\ SockOK' /\ sock'[cfd] = c
        /\ \A g \in AllFds : g # cfd /\ g # ListenFd => sock'[g] = sock[g]
    BY <1>4, AcceptSockets
  <2>2. /\ client' = client \/ client' = [client EXCEPT ![c].mutex = "destroyed"]
        /\ peer'[c] = "open"
        /\ \A d \in Clients : d # c => peer'[d] = peer[d] \/ peer'[d] = "gone"
        /\ sock'[ListenFd] \in {"listen", "free"}
    BY <1>4, <2>1 DEF Registers, FailsToRegister, EchoInv, SockOK
  <2>3. BytesTypeOK' /\ \A d \in Clients : d # c => client'[d] = client[d]
    BY <1>1, <2>2 DEF BytesTypeOK, EchoClient, netVars
  <2>4. \A d \in Clients : d # c => BytesOK(d)'
    <3> SUFFICES ASSUME NEW d \in Clients, d # c PROVE BytesOK(d)'
      OBVIOUS
    <3>1. Live(d)' => Live(d)
      BY <2>1, <2>2, EchoAssumption DEF Live
    <3> QED BY <1>1, <2>2, <2>3, <3>1, SameBytes DEF netVars
  <2>5. Unused(c) /\ EchoOK(c) /\ client[c] \in EchoClient
    BY <1>4 DEF BytesOK, BytesTypeOK
  <2>6. BytesOK(c)'
    <3>1. EchoOK(c)' /\ got'[c] = 0 /\ Len(echoed'[c]) = 0
      BY <1>1, <2>5 DEF netVars, Unused, EchoOK
    <3>2. client'[c].pos = 0 /\ client'[c].size = 0
      BY <2>2, <2>5 DEF Unused, init_client, EchoClient, BytesTypeOK
    <3>3. StructOK(c)'
      BY <3>1, <3>2 DEF StructOK
    <3> QED BY <2>2, <3>1, <3>3 DEF BytesOK
  <2> QED BY <2>3, <2>4, <2>6
<1> QED BY <1>3, <1>4, AcceptCases DEF vars

(* A handler of a connection: what it does to its own client.              *)
LEMMA OwnClient ==
  ASSUME CoreInv, EchoInv, BytesInv, NEW c,
         Handler("rcb", "onReadPrepared") \/ Handler("wcb", "onWritePrepared"),
         c = Fe.clientData
  PROVE  /\ c \in Clients /\ Entry.fd \in AllFds /\ sock[Entry.fd] = c
         /\ Live(c) /\ BytesOK(c) /\ StructOK(c) /\ EchoOK(c)
         /\ peer[c] \notin {"out", "pending"}
<1>1. c \in Clients /\ sock[Entry.fd] = c
  BY ServesClient
<1>2. Entry.fd \in AllFds
  BY AtEntry DEF Handler
<1>3. Live(c)
  BY <1>1, <1>2 DEF Live
<1>4. peer[c] \notin {"out", "pending"}
  BY <1>1, <1>2 DEF EchoInv, SockOK
<1> QED BY <1>1, <1>2, <1>3, <1>4 DEF BytesInv, BytesOK

(* Once closed a connection's client has no other.                         *)
LEMMA ClosedIsDead ==
  ASSUME EchoInv, NEW c \in Clients, NEW fd \in AllFds, sock[fd] = c,
         sock' = [sock EXCEPT ![fd] = "free"]
  PROVE  ~Live(c)' /\ \A d \in Clients : Live(d)' => Live(d)
BY EchoAssumption DEF EchoInv, SockOK, Live

(* onReadPrepared: nothing was left to echo when there is something to     *)
(* read, and all of it fits behind what is in the buffer.                  *)
LEMMA ReadKeepsBytes ==
  ASSUME OneBuffer, CoreInv, EchoInv, BytesInv, onReadPrepared PROVE BytesInv'
<1> DEFINE c == Fe.clientData
           n == NumRead(c)
<1>1. Handler("rcb", "onReadPrepared") /\ UNCHANGED <<peer, sent, echoed, taken>>
  BY DEF onReadPrepared
<1>2. /\ c \in Clients /\ Entry.fd \in AllFds /\ sock[Entry.fd] = c
      /\ StructOK(c) /\ EchoOK(c) /\ peer[c] \notin {"out", "pending"}
  BY <1>1, OwnClient
<1>3. \/ /\ close_client(c) /\ UNCHANGED got
         /\ client' = [client EXCEPT ![c].mutex = "destroyed"]
      \/ /\ n > 0 /\ UNCHANGED sock
         /\ client' = [client EXCEPT ![c] = Received(c, n)]
         /\ got' = [got EXCEPT ![c] = @ + n]
  BY DEF onReadPrepared
<1> HIDE DEF c
<1>4. PICK e \in Clients : e = c
  BY <1>2
<1>5. CASE close_client(c) /\ UNCHANGED got /\ client' = [client EXCEPT ![c].mutex = "destroyed"]
  <2>1. sock' = [sock EXCEPT ![Entry.fd] = "free"]
    BY <1>5 DEF close_client
  <2>2. ~Live(e)' /\ \A d \in Clients : Live(d)' => Live(d)
    <3>1. PICK fd \in AllFds : fd = Entry.fd
      BY <1>2
    <3>2. sock[fd] = e /\ sock' = [sock EXCEPT ![fd] = "free"]
      BY <1>2, <1>4, <2>1, <3>1
    <3> QED BY <1>1, <3>2, ClosedIsDead
  <2>3. BytesTypeOK'
    BY <1>1, <1>2, <1>5 DEF BytesInv, BytesTypeOK, EchoClient
  <2>4. \A d \in Clients : d # e => BytesOK(d)'
    BY <1>1, <1>4, <1>5, <2>2, SameBytes DEF BytesInv
  <2>5. BytesOK(e)'
    BY <1>1, <1>2, <1>4, <1>5, <2>2 DEF BytesOK, EchoOK
  <2> QED BY <2>3, <2>4, <2>5 DEF BytesInv
<1>6. CASE /\ n > 0 /\ UNCHANGED sock
           /\ client' = [client EXCEPT ![c] = Received(c, n)]
           /\ got' = [got EXCEPT ![c] = @ + n]
  <2>1. /\ client[e].size = 0 /\ client[e].pos = got[e] /\ Len(echoed[e]) = got[e]
        /\ n = sent[e] - got[e] /\ n \in Nat
    BY <1>2, <1>4, <1>6, EchoAssumption
    DEF NumRead, StructOK, EchoOK, OneBuffer, BytesInv, BytesTypeOK, EchoClient
  <2> HIDE DEF n
  <2>0. PICK m \in Nat : m = n
    BY <2>1
  <2>2. /\ client' = [client EXCEPT ![e] = Received(e, m)]
        /\ client'[e] = Received(e, m) /\ got'[e] = sent[e] /\ got' \in [Clients -> Nat]
        /\ \A d \in Clients : d # e => client'[d] = client[d] /\ got'[d] = got[d]
    <3>1. /\ client' = [client EXCEPT ![e] = Received(e, m)]
          /\ got' = [got EXCEPT ![e] = @ + m] /\ m = sent[e] - got[e]
      BY <1>4, <1>6, <2>0, <2>1, Zenon
    <3> QED BY <3>1 DEF BytesInv, BytesTypeOK
  <2>3. /\ Received(e, m) \in EchoClient
        /\ Received(e, m).pos = got[e] /\ Received(e, m).size = m
        /\ \A i \in got[e] .. sent[e] - 1 : Received(e, m).buf[i] = i + 1
    <3>1. client[e] \in EchoClient /\ got[e] \in Nat /\ sent[e] \in Nat
      BY DEF BytesInv, BytesTypeOK
    <3>2. got[e] + m = sent[e] /\ sent[e] <= BufSize
      BY <1>2, <1>4, <2>0, <2>1, <3>1, EchoAssumption DEF EchoOK, OneBuffer
    <3>3. client[e].pos = got[e] /\ client[e].size = 0
      BY <2>1
    <3>4. /\ Received(e, m) \in EchoClient
          /\ Received(e, m).pos = got[e] /\ Received(e, m).size = m
          /\ \A i \in got[e] .. got[e] + m - 1 : Received(e, m).buf[i] = i + 1
      BY <3>1, <3>2, <3>3, ReceivedOK
    <3>5. got[e] .. got[e] + m - 1 = got[e] .. sent[e] - 1
      BY <3>1, <3>2
    <3> QED BY <3>4, <3>5, Zenon
  <2>4. BytesTypeOK'
    <3>1. client' \in [Clients -> EchoClient]
      BY <2>2, <2>3 DEF BytesInv, BytesTypeOK
    <3> QED BY <1>1, <2>2, <3>1 DEF BytesInv, BytesTypeOK
  <2>5. \A d \in Clients : Live(d)' <=> Live(d)
    BY <1>6 DEF Live
  <2>6. \A d \in Clients : d # e => BytesOK(d)'
    BY <1>1, <2>2, <2>5, SameBytes DEF BytesInv
  <2>7. EchoOK(e)'
    <3>1. /\ EchoOK(e) /\ UNCHANGED <<sent, echoed, taken>>
          /\ sent[e] \in Nat /\ got[e] \in Nat /\ Len(echoed[e]) = got[e]
      BY <1>1, <1>2, <1>4, <2>1 DEF BytesInv, BytesTypeOK
    <3> QED BY <2>2, <3>1 DEF EchoOK
  <2>8. StructOK(e)'
    BY <1>1, <2>0, <2>1, <2>2, <2>3 DEF StructOK, BytesInv, BytesTypeOK
  <2>9. BytesOK(e)'
    BY <1>1, <1>2, <1>4, <2>7, <2>8 DEF BytesOK
  <2> QED BY <2>4, <2>6, <2>9 DEF BytesInv
<1> QED BY <1>3, <1>5, <1>6

(* onWritePrepared: what goes out is what was read and not echoed.         *)
LEMMA WriteKeepsBytes ==
  ASSUME OneBuffer, CoreInv, EchoInv, BytesInv, onWritePrepared PROVE BytesInv'
<1> DEFINE c == Fe.clientData
<1>1. Handler("wcb", "onWritePrepared") /\ UNCHANGED <<peer, sent, got, taken>>
  BY DEF onWritePrepared
<1>2. /\ c \in Clients /\ Entry.fd \in AllFds /\ sock[Entry.fd] = c
      /\ StructOK(c) /\ EchoOK(c) /\ peer[c] \notin {"out", "pending"}
  BY <1>1, OwnClient
<1>3. WriteSucceeds(c) \/ WriteFails(c) \/ WriteKills(c)
  BY DEF onWritePrepared
<1> HIDE DEF c
<1>4. PICK e \in Clients : e = c
  BY <1>2
<1>5. CASE WriteSucceeds(c)
  <2>1. /\ client' = [client EXCEPT ![e] = Written(e)]
        /\ echoed' = [echoed EXCEPT ![e] = @ \o Unsent(e)] /\ UNCHANGED sock
    BY <1>4, <1>5 DEF WriteSucceeds
  <2> DEFINE k == Len(echoed[e])
  <2>2. /\ k \in Nat /\ echoed[e] \in Seq(Nat) /\ got[e] \in Nat /\ client[e] \in EchoClient
        /\ client[e].pos = k /\ client[e].size = got[e] - k /\ k <= got[e]
        /\ got[e] <= sent[e] /\ got[e] <= BufSize /\ taken[e] <= k /\ sent[e] <= MaxBytes
    BY <1>2, <1>4, EchoAssumption
    DEF StructOK, EchoOK, OneBuffer, BytesInv, BytesTypeOK
  <2> HIDE DEF k
  <2>3. /\ Unsent(e) \in Seq(Nat) /\ Len(Unsent(e)) = got[e] - k
        /\ \A i \in 1 .. got[e] - k : Unsent(e)[i] = k + i
    <3>1. \A i \in k .. got[e] - 1 : client[e].buf[i] = i + 1
      BY <1>2, <1>4 DEF StructOK, k
    <3> QED BY <2>2, <3>1, UnsentOK
  <2>4. /\ echoed'[e] = echoed[e] \o Unsent(e)
        /\ \A d \in Clients : d # e => echoed'[d] = echoed[d] /\ client'[d] = client[d]
    BY <2>1 DEF BytesInv, BytesTypeOK
  <2>5. /\ echoed'[e] \in Seq(Nat) /\ Len(echoed'[e]) = got[e]
        /\ \A i \in 1 .. got[e] : echoed'[e][i] = i
    <3>1. \A i \in 1 .. Len(echoed[e]) : echoed[e][i] = i
      BY <1>2, <1>4 DEF EchoOK
    <3>2. PICK s \in Seq(Nat), t \in Seq(Nat) : s = echoed[e] /\ t = Unsent(e)
      BY <2>2, <2>3
    <3>3. /\ Len(s) <= got[e] /\ got[e] \in Nat /\ Len(t) = got[e] - Len(s)
          /\ \A i \in 1 .. got[e] - Len(s) : t[i] = Len(s) + i
          /\ \A i \in 1 .. Len(s) : s[i] = i
      BY <2>2, <2>3, <3>1, <3>2 DEF k
    <3>4. FirstOf(s, Len(s)) /\ NextOf(t, Len(s), got[e])
      BY <3>3 DEF FirstOf, NextOf
    <3>5. s \o t \in Seq(Nat) /\ FirstOf(s \o t, got[e])
      BY <3>3, <3>4, Counted
    <3>6. echoed'[e] = s \o t
      BY <2>4, <3>2
    <3> QED BY <3>5, <3>6 DEF FirstOf
  <2>6. client'[e] = Written(e) /\ Written(e) \in EchoClient
        /\ Written(e).pos = got[e] /\ Written(e).size = 0
    <3>1. client'[e] = Written(e)
      BY <2>1 DEF BytesInv, BytesTypeOK
    <3>2. client[e].pos + client[e].size = got[e]
      BY <2>2
    <3>3. client[e] \in EchoClient
      BY <2>2
    <3> QED BY <3>1, <3>2, <3>3, WrittenOK
  <2>7. BytesTypeOK'
    BY <1>1, <2>1, <2>5, <2>4, <2>6 DEF BytesInv, BytesTypeOK
  <2>8. \A d \in Clients : Live(d)' <=> Live(d)
    BY <2>1 DEF Live
  <2>9. \A d \in Clients : d # e => BytesOK(d)'
    BY <1>1, <2>4, <2>8, SameBytes DEF BytesInv
  <2>10. EchoOK(e)'
    BY <1>1, <2>2, <2>5 DEF EchoOK, BytesInv, BytesTypeOK
  <2>11. StructOK(e)'
    BY <1>1, <2>2, <2>5, <2>6 DEF StructOK
  <2>12. BytesOK(e)'
    BY <1>1, <1>2, <1>4, <2>10, <2>11 DEF BytesOK
  <2> QED BY <2>7, <2>9, <2>12 DEF BytesInv
<1>6. CASE WriteFails(c)
  <2>1. /\ sock' = [sock EXCEPT ![Entry.fd] = "free"] /\ UNCHANGED echoed
        /\ client' = [client EXCEPT ![e].mutex = "destroyed",
                                    ![e].pos = @ - 1, ![e].size = @ + 1]
    BY <1>4, <1>6 DEF WriteFails, close_client
  <2>2. ~Live(e)' /\ \A d \in Clients : Live(d)' => Live(d)
    <3>1. PICK fd \in AllFds : fd = Entry.fd
      BY <1>2
    <3>2. sock[fd] = e /\ sock' = [sock EXCEPT ![fd] = "free"]
      BY <1>2, <1>4, <2>1, <3>1
    <3> QED BY <1>1, <3>2, ClosedIsDead
  <2>3. PICK r \in EchoClient : client' = [client EXCEPT ![e] = r]
    <3>1. client[e] \in EchoClient
      BY DEF BytesInv, BytesTypeOK
    <3> DEFINE r == [client[e] EXCEPT !.mutex = "destroyed", !.pos = @ - 1, !.size = @ + 1]
    <3>2. r \in EchoClient
      BY <3>1, Failing
    <3>3. client' = [client EXCEPT ![e] = r]
      BY <2>1 DEF BytesInv, BytesTypeOK
    <3> QED BY <3>2, <3>3
  <2>4. BytesTypeOK' /\ \A d \in Clients : d # e => BytesOK(d)'
    <3>1. BytesTypeOK'
      BY <1>1, <2>1, <2>3 DEF BytesInv, BytesTypeOK
    <3>2. \A d \in Clients : d # e => client'[d] = client[d]
      BY <2>3 DEF BytesInv, BytesTypeOK
    <3> QED BY <1>1, <2>1, <2>2, <3>1, <3>2, SameBytes DEF BytesInv
  <2>5. BytesOK(e)'
    BY <1>1, <1>2, <1>4, <2>1, <2>2 DEF BytesOK, EchoOK
  <2> QED BY <2>4, <2>5 DEF BytesInv
<1>7. CASE WriteKills(c)
  <2>1. UNCHANGED <<sock, client, echoed>>
    BY <1>7 DEF WriteKills
  <2>2. \A d \in Clients : Live(d)' <=> Live(d)
    BY <2>1 DEF Live
  <2>3. BytesTypeOK'
    BY <1>1, <2>1 DEF BytesInv, BytesTypeOK
  <2> QED BY <1>1, <2>1, <2>2, <2>3, SameBytes DEF BytesInv
<1> QED BY <1>3, <1>5, <1>6, <1>7

(* Every step keeps the bytes of every client in place.                    *)
LEMMA BytesStepOK ==
  ASSUME OneBuffer, CoreInv, EchoInv, BytesInv, [EchoNext]_AllVars PROVE BytesInv'
<1>1. CASE Main \/ Poll \/ Loop \/ UNCHANGED AllVars
  <2>1. UNCHANGED <<sock, client, peer, sent, got, echoed, taken>>
    BY <1>1 DEF Main, Poll, Loop, AllVars, echoVars, netVars
  <2>2. \A d \in Clients : Live(d)' <=> Live(d)
    BY <2>1 DEF Live
  <2> QED BY <2>1, <2>2, SameBytes DEF BytesInv, BytesTypeOK
<1> QED
  BY <1>1, PeerKeepsBytes, AcceptKeepsBytes, ReadKeepsBytes, WriteKeepsBytes
  DEF EchoNext, Server

(* At first no byte is sent.                                               *)
LEMMA BytesInitOK == ASSUME EchoInit PROVE BytesInv
<1>1. /\ init_client \in EchoClient /\ Len(<<>>) = 0
      /\ init_client.pos = 0 /\ init_client.size = 0
  BY EchoAssumption DEF init_client, EchoClient, Buffers, Junk
<1>2. BytesTypeOK
  BY <1>1 DEF EchoInit, BytesTypeOK
<1>3. ASSUME NEW c \in Clients PROVE BytesOK(c)
  <2>1. ~Live(c)
    BY EchoAssumption DEF EchoInit, Live
  <2> QED BY <2>1, EchoAssumption DEF EchoInit, BytesOK, EchoOK, Unused
<1> QED BY <1>2, <1>3 DEF BytesInv

(* echoServer.c:1-3, "a echo server": a client gets back the bytes it      *)
(* sent, in order, each once.                                              *)
THEOREM EchoesInOrderTheorem ==
  ASSUME OneBuffer PROVE EchoSpec => []EchoesInOrder
<1>1. EchoInit => BytesInv
  BY BytesInitOK
<1>2. CoreInv /\ EchoInv /\ BytesInv /\ [EchoNext]_AllVars => BytesInv'
  BY BytesStepOK
<1>3. BytesInv => EchoesInOrder
  <2> SUFFICES ASSUME BytesInv, NEW c \in Clients
               PROVE  /\ echoed[c] = [i \in 1 .. Len(echoed[c]) |-> i]
                      /\ Len(echoed[c]) <= sent[c]
    BY DEF EchoesInOrder
  <2>1. echoed[c] \in Seq(Nat) /\ EchoOK(c) /\ sent[c] \in Nat /\ got[c] \in Nat
    BY DEF BytesInv, BytesTypeOK, BytesOK
  <2>2. Len(echoed[c]) <= got[c] /\ got[c] <= sent[c]
    BY <2>1 DEF EchoOK
  <2>3. PICK s \in Seq(Nat) : s = echoed[c]
    BY <2>1
  <2>4. \A i \in 1 .. Len(s) : s[i] = i
    BY <2>1, <2>3 DEF EchoOK
  <2>5. s = [i \in 1 .. Len(s) |-> i]
    BY <2>4
  <2>6. Len(s) \in Nat
    OBVIOUS
  <2> QED BY <2>1, <2>2, <2>3, <2>5, <2>6
<1>4. EchoSpec => [](CoreInv /\ EchoInv)
  BY EchoInvariance
<1> QED BY <1>1, <1>2, <1>3, <1>4, PTL DEF EchoSpec
=============================================================================
