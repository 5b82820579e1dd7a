----------------------------- MODULE EchoServer -----------------------------
(***************************************************************************)
(* The echo server of Clang/aio/ae/echoServer.c, running on AeLoop: its    *)
(* three handlers, the sockets they serve and the clients at the other     *)
(* end.  The handlers of AeLoop, which call the API as they like, are      *)
(* replaced by the server's: every step here is a step of AeLoop or one    *)
(* that AeLoop does not see, like the accept that closes the listening     *)
(* socket while it is registered.                                          *)
(*                                                                         *)
(* A client sends the bytes 1, 2, 3, ...; what it gets back can then be    *)
(* compared with what it sent.  A handler runs as one step (ran), between  *)
(* its call and its return: the loop is single threaded.                   *)
(***************************************************************************)
EXTENDS AeLoop

CONSTANTS
  Clients,    (* clients, each of which connects once                      *)
  NULL,
  FdLimit,    (* bound: descriptors of the process (RLIMIT_NOFILE)         *)
  BufSize,    (* BUF_SIZE                                                  *)
  SndBuf,     (* bytes a socket holds that its client has not taken        *)
  MaxBytes,   (* bound: bytes a client sends                               *)
  PeersWait   (* a client waits for the echo before it sends more          *)

ASSUME EchoAssumption ==
  /\ Procs = {"acceptTcpHandler", "onReadPrepared", "onWritePrepared"}
  /\ Data = Clients \cup {NULL} /\ NULL \notin Clients
  /\ Clients \cap {"listen", "free"} = {}
  /\ Fd \cup {0} \subseteq FdArgs
  /\ FdLimit \in Nat \ {0} /\ BufSize \in Nat \ {0} /\ SndBuf \in Nat \ {0}
  /\ MaxBytes \in Nat /\ PeersWait \in BOOLEAN

VARIABLES
  sock,    (* what each descriptor is: "free", "listen" or a client        *)
  client,  (* the EchoClient structs: buf, pos, size, mutex                *)
  peer,    (* each client: "out", "pending" in the backlog, "open", "gone" *)
  sent,    (* bytes each client sent                                       *)
  got,     (* bytes of each client the server read                         *)
  echoed,  (* bytes the server wrote to each client                        *)
  taken,   (* how many of them the client took                             *)
  ran,     (* the handler that was called did its work                     *)
  down     (* SIGPIPE killed the server                                    *)

netVars  == <<sent, got, echoed, taken>>
echoVars == <<sock, client, peer, netVars, ran, down>>

ListenFd  == 0
AllFds    == 0 .. FdLimit - 1
Junk      == 0                 \* a byte of memory outside buf, or unset
InFlight(c) == Len(echoed[c]) - taken[c]

init_client == [buf |-> [i \in 0 .. BufSize - 1 |-> Junk],
                pos |-> 0, size |-> 0, mutex |-> "free"]

EchoInit ==
  /\ Init
  /\ sock = [fd \in AllFds |-> IF fd = ListenFd THEN "listen" ELSE "free"]
  /\ client = [c \in Clients |-> init_client]
  /\ peer = [c \in Clients |-> "out"]
  /\ sent = [c \in Clients |-> 0] /\ got = [c \in Clients |-> 0]
  /\ echoed = [c \in Clients |-> <<>>] /\ taken = [c \in Clients |-> 0]
  /\ ran = FALSE /\ down = FALSE

-----------------------------------------------------------------------------
(* The clients.                                                            *)

Connect(c) ==
  /\ peer[c] = "out" /\ sock[ListenFd] = "listen"
  /\ peer' = [peer EXCEPT ![c] = "pending"]
  /\ UNCHANGED <<vars, sock, client, netVars, ran, down>>

Send(c) ==
  /\ peer[c] \in {"pending", "open"}
  /\ PeersWait => taken[c] = sent[c]
  /\ \E n \in 1 .. MaxBytes - sent[c] : sent' = [sent EXCEPT ![c] = @ + n]
  /\ UNCHANGED <<vars, sock, client, peer, got, echoed, taken, ran, down>>

Take(c) ==
  /\ peer[c] = "open" /\ InFlight(c) > 0
  /\ taken' = [taken EXCEPT ![c] = Len(echoed[c])]
  /\ UNCHANGED <<vars, sock, client, peer, sent, got, echoed, ran, down>>

Leave(c) ==
  /\ peer[c] = "open"
  /\ peer' = [peer EXCEPT ![c] = "gone"]
  /\ UNCHANGED <<vars, sock, client, netVars, ran, down>>

-----------------------------------------------------------------------------
(* The event loop, as the server drives it.                                *)

Served == sock[Entry.fd]

(* main registers the listening socket and enters the loop.                *)
Main ==
  /\ pc = "app" /\ ~inMain
  /\ \/ /\ maxfd = -1
        /\ CreateFileEvent(ListenFd, {"R"}, "acceptTcpHandler", NULL)
        /\ maxfd' = ListenFd
     \/ maxfd # -1 /\ aeMain
  /\ UNCHANGED echoVars

Ready(fd) ==
  CASE sock[fd] = "listen"     -> {k \in {"R"} : \E c \in Clients : peer[c] = "pending"}
    [] sock[fd] \in Clients    ->
         LET c == sock[fd] IN
         {k \in Kinds : \/ peer[c] = "gone"
                        \/ k = "R" /\ got[c] < sent[c]
                        \/ k = "W" /\ InFlight(c) < SndBuf}
    [] OTHER -> {}

(* epoll_wait is level triggered and reports everything that is ready; it  *)
(* can be interrupted only while nothing is.                               *)
ReadyFds == {fd \in Fd \cap AllFds : Ready(fd) \cap interest[fd] # {}}

Poll ==
  /\ PollFires
  /\ \A j \in DOMAIN fired' :
       fired'[j].mask = Ready(fired'[j].fd) \cap interest[fired'[j].fd]
  /\ {fired'[j].fd : j \in DOMAIN fired'} = ReadyFds
  /\ UNCHANGED echoVars

Loop ==
  \/ LoopStep /\ ran' = FALSE /\ UNCHANGED <<sock, client, peer, netVars, down>>
  \/ PollInterrupted /\ ReadyFds = {} /\ UNCHANGED echoVars
  \/ ran /\ (ReadHandlerReturns \/ WriteHandlerReturns)
     /\ UNCHANGED <<sock, client, peer, netVars, ran, down>>

-----------------------------------------------------------------------------
(* The handlers.                                                           *)

Handler(at, proc) ==
  /\ pc = at /\ ~ran /\ ran' = TRUE
  /\ proc = IF at = "rcb" THEN Fe.rfileProc ELSE Fe.wfileProc

LowestFree == {fd \in AllFds : /\ sock[fd] = "free"
                               /\ \A g \in 0 .. fd - 1 : sock[g] # "free"}

(* aeCreateFileEvent succeeds.                                             *)
Registers(cfd, c) ==
  /\ cfd \in Fd /\ CreateFileEvent(cfd, {"R"}, "onReadPrepared", c)
  /\ events' # events
  /\ sock' = [sock EXCEPT ![cfd] = c]
  /\ peer' = [peer EXCEPT ![c] = "open"]
  /\ UNCHANGED client

(* aeCreateFileEvent returns AE_ERR: cfd is beyond the table, or the       *)
(* kernel refuses the ADD.  The struct is freed, and the listening socket  *)
(* is closed instead of cfd, which stays open and unwatched; the kernel    *)
(* takes the closed one out of the epoll set and resets its backlog.       *)
FailsToRegister(cfd, c) ==
  /\ sock' = [sock EXCEPT ![cfd] = c, ![ListenFd] = "free"]
  /\ interest' = [interest EXCEPT ![ListenFd] = {}]
  /\ peer' = [d \in Clients |-> IF d = c THEN "open"
                                ELSE IF peer[d] = "pending" THEN "gone" ELSE peer[d]]
  /\ client' = [client EXCEPT ![c].mutex = "destroyed"]
  /\ UNCHANGED <<events, maxfd, timeVars, batchVars, walkVars, pass, pc, stop, jumps>>

acceptTcpHandler ==
  /\ Handler("rcb", "acceptTcpHandler")
  /\ \/ \E c \in Clients, cfd \in LowestFree :
          /\ peer[c] = "pending"
          /\ Registers(cfd, c) \/ FailsToRegister(cfd, c)
     \/ LowestFree = {} /\ UNCHANGED <<vars, sock, peer, client>>   \* accept fails
  /\ UNCHANGED <<netVars, down>>

\* Mutant: only the readable event is deleted before the socket is closed.
close_client_ReadOnly(c) ==
  /\ DeleteFileEvent(Entry.fd, {"R"})
  /\ sock' = [sock EXCEPT ![Entry.fd] = "free"]

\* Mutant: the socket is closed, the events stay in the table.
close_client_NoDelete(c) ==
  /\ sock' = [sock EXCEPT ![Entry.fd] = "free"]
  /\ interest' = [interest EXCEPT ![Entry.fd] = {}]
  /\ UNCHANGED <<events, maxfd, timeVars, batchVars, walkVars, pass, pc, stop, jumps>>

(* Both events are deleted before the socket is closed; the struct, its    *)
(* mutex destroyed, is never freed.                                        *)
close_client(c) ==
  /\ DeleteFileEvent(Entry.fd, Kinds)
  /\ sock' = [sock EXCEPT ![Entry.fd] = "free"]

(* What read puts at buf + pos: nothing when buf is full or the peer left. *)
NumRead(c) ==
  LET room == BufSize - client[c].pos
      left == sent[c] - got[c]
  IN  IF left < room THEN left ELSE room

\* Mutant: the writable event is not created.
AsksToWrite_Never(c) == UNCHANGED vars

(* The descriptor is in the epoll set already: MOD is not refused.         *)
AsksToWrite(c) ==
  /\ CreateFileEvent(Entry.fd, {"W"}, "onWritePrepared", c)
  /\ "W" \in events'[Entry.fd].mask

Received(c, n) ==
  [client[c] EXCEPT
     !.buf = [i \in DOMAIN @ |-> IF i - client[c].pos \in 0 .. n - 1
                                 THEN got[c] + 1 + i - client[c].pos ELSE @[i]],
     !.size = @ + n]

onReadPrepared ==
  /\ Handler("rcb", "onReadPrepared")
  /\ \E c \in {Fe.clientData} : \E n \in {NumRead(c)} :
       \/ /\ n = 0 /\ close_client(c)
          /\ client' = [client EXCEPT ![c].mutex = "destroyed"]
          /\ UNCHANGED got
       \/ /\ n > 0 /\ AsksToWrite(c)
          /\ client' = [client EXCEPT ![c] = Received(c, n)]
          /\ got' = [got EXCEPT ![c] = @ + n]
          /\ UNCHANGED sock
  /\ UNCHANGED <<peer, sent, echoed, taken, down>>

(* The size bytes at buf + pos, whatever lies beyond buf included.         *)
Unsent(c) == [i \in 1 .. client[c].size |->
                LET at == client[c].pos + i - 1
                IN  IF at < BufSize THEN client[c].buf[at] ELSE Junk]

\* Mutant: size is not reduced by what was written.
Written_KeepsSize(c) == [client[c] EXCEPT !.pos = @ + client[c].size]

Written(c) == [client[c] EXCEPT !.pos = @ + client[c].size, !.size = 0]

DoneWriting(c) == DeleteFileEvent(Entry.fd, {"W"})

(* The socket blocks: write returns when all of it went out, which the     *)
(* client's taking makes possible.  To a client that left it may still     *)
(* succeed, fail, or raise SIGPIPE.                                        *)
WriteSucceeds(c) ==
  /\ \/ peer[c] = "gone"
     \/ InFlight(c) = 0 \/ InFlight(c) + client[c].size <= SndBuf
  /\ client' = [client EXCEPT ![c] = Written(c)]
  /\ echoed' = [echoed EXCEPT ![c] = @ \o Unsent(c)]
  /\ DoneWriting(c)
  /\ UNCHANGED <<sock, down>>

(* close_client, but the handler goes on with nwrite = -1.                 *)
WriteFails(c) ==
  /\ peer[c] = "gone"
  /\ close_client(c)
  /\ client' = [client EXCEPT ![c].mutex = "destroyed",
                              ![c].pos = @ - 1, ![c].size = @ + 1]
  /\ UNCHANGED <<echoed, down>>

WriteKills(c) ==
  /\ peer[c] = "gone"
  /\ down' = TRUE
  /\ UNCHANGED <<vars, sock, client, echoed>>

onWritePrepared ==
  /\ Handler("wcb", "onWritePrepared")
  /\ \E c \in {Fe.clientData} : WriteSucceeds(c) \/ WriteFails(c) \/ WriteKills(c)
  /\ UNCHANGED <<peer, sent, got, taken>>

-----------------------------------------------------------------------------

Peer   == \E c \in Clients : Connect(c) \/ Send(c) \/ Take(c) \/ Leave(c)
Server == ~down /\ (Main \/ Poll \/ Loop
                    \/ acceptTcpHandler \/ onReadPrepared \/ onWritePrepared)

EchoNext == Peer \/ Server

AllVars  == <<vars, echoVars>>
EchoSpec == EchoInit /\ [][EchoNext]_AllVars

(* The server's thread runs and clients take what they are sent.           *)
EchoFairness == WF_AllVars(Server) /\ \A c \in Clients : WF_AllVars(Take(c))

EchoFairSpec == EchoSpec /\ EchoFairness

-----------------------------------------------------------------------------

(* What the loop asked the kernel to watch: of the listening socket, which *)
(* is closed while it is registered, the kernel has forgotten it.          *)
asked == [fd \in Fd |-> IF fd = ListenFd /\ sock[fd] = "free"
                       THEN events[fd].mask ELSE interest[fd]]

View == INSTANCE AeLoop WITH interest <- asked

(* echoServer.c as a user of ae.c: whatever the server and its clients do, *)
(* the loop is used as any handlers may use it, and but for the failing    *)
(* accept no socket is closed behind its back.                             *)
ImplementsLoop == View!Spec

(* Connections that are open and no event of which is registered.          *)
Unwatched == {fd \in AllFds : sock[fd] \in Clients /\ ~(fd \in Fd /\ Registered(fd))}

(* echoServer.c:45-49, 122-128: the events of a connection are deleted     *)
(* before it is closed, so that no dead registration meets a recycled      *)
(* descriptor, and an open one is watched for input.  The one exception is *)
(* the connection whose registration failed: it stays open and unwatched,  *)
(* and since the listening socket was closed there is never another.       *)
OpenIffWatched ==
  maxfd # -1 =>
    /\ \A fd \in Fd : Registered(fd) =>
         "R" \in events[fd].mask /\ (fd = ListenFd \/ (fd \in AllFds /\ sock[fd] \in Clients))
    /\ IF sock[ListenFd] = "listen" THEN Unwatched = {}
       ELSE \E fd \in AllFds : Unwatched = {fd}

(* echoServer.c:1-3, "a echo server": a client gets back the bytes it      *)
(* sent, in order, each once.                                              *)
EchoesInOrder ==
  \A c \in Clients : echoed[c] = [i \in 1 .. Len(echoed[c]) |-> i]
                     /\ Len(echoed[c]) <= sent[c]

Forgotten(c) == \E fd \in Unwatched : sock[fd] = c

(* echoServer.c:72-75: all that a client sends comes back, unless it left, *)
(* the server died, or its registration failed.                            *)
EveryByteEchoed ==
  \A c \in Clients : \A n \in 1 .. MaxBytes :
    (peer[c] = "open" /\ sent[c] = n)
      ~> (Len(echoed[c]) >= n \/ peer[c] = "gone" \/ Forgotten(c) \/ down)

(* echoServer.c:98-100, "When a new client connect to this server,         *)
(* acceptTcpHandler() method will be invoked": a client in the backlog is  *)
(* accepted.                                                               *)
ClientsAreAccepted ==
  \A c \in Clients : peer[c] = "pending" ~> (peer[c] = "open" \/ down)
=============================================================================
