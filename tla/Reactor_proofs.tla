---------------------------- MODULE Reactor_proofs ---------------------------
(***************************************************************************)
(* Theorems about Reactor, for any connections, timers and descriptors:    *)
(* m_fdmap agrees with what epoll was asked for, and neither it nor the    *)
(* loop holds a handler that is deleted or of another socket.              *)
(***************************************************************************)
EXTENDS Reactor, FiniteSetTheorems, TLAPS

-----------------------------------------------------------------------------
(* The inductive invariant.                                                *)

Kinds == {"IN", "OUT"}

(* A handler set in step with epoll.                                       *)
InStep(r) ==
  /\ DOMAIN r = {"map", "epoll", "failed"}
  /\ DOMAIN r.map \subseteq DOMAIN r.epoll
  /\ \A fd \in DOMAIN r.epoll : r.epoll[fd] = TypeOf(r, fd)
  /\ \A fd \in DOMAIN r.map :
       r.map[fd] \in [type : (SUBSET Kinds) \ {{}}, handler : Handlers]

(* What a descriptor is, for each handler.                                 *)
SocketOf(h) == CASE h = "server" -> "listen" [] h = "fifo" -> "fifo" [] OTHER -> h

(* Only the FIFO is asked for writing, connections are for a moment.       *)
HandlersOK ==
  /\ InStep(reg) /\ DOMAIN reg.epoll \subseteq AllFds
  /\ \A fd \in DOMAIN reg.map :
       /\ sock[fd] = SocketOf(reg.map[fd].handler)
       /\ reg.map[fd].handler # "fifo" => reg.map[fd].type = {"IN"}

States == {"out", "pending", "open", "data", "closed", "reset", "finreset"}

SocketTypes ==
  /\ sock \in [AllFds -> {"free", "listen", "fifo"} \cup Conns]
  /\ peer \in [Conns -> States] /\ deleted \subseteq Conns

(* The listening socket and the FIFO stay where they are, a connection has *)
(* one descriptor.                                                         *)
OneDescriptor ==
  /\ \A fd \in AllFds : /\ sock[fd] = "listen" <=> fd = ListenFd
                        /\ sock[fd] = "fifo" <=> fd = FifoFd
  /\ \A f, g \in AllFds : sock[f] = sock[g] /\ sock[f] \in Conns => f = g

(* It has it from its accept to its deletion.                              *)
OpenIsAlive ==
  /\ \A fd \in AllFds : sock[fd] \in Conns =>
       sock[fd] \notin deleted /\ peer[sock[fd]] \notin {"out", "pending"}
  /\ \A c \in deleted : peer[c] \notin {"out", "pending"}

SocketsOK == SocketTypes /\ OneDescriptor /\ OpenIsAlive

(* The place of the first event of the batch that no handler has seen.     *)
Serving == pc \in {"read", "write", "err"}
Unseen  == IF pc \in {"write", "err", "killed"} THEN 2 ELSE 1

WasReset(c) == c \in Conns /\ peer[c] \in {"reset", "finreset"}

Events == [fd : AllFds, mask : SUBSET {"IN", "OUT", "ERR"}]

(* What an event says of its descriptor.                                   *)
Holds(e, s, p) ==
  /\ "OUT" \in e.mask => e.fd = FifoFd
  /\ "ERR" \in e.mask => s[e.fd] \in Conns /\ p[s[e.fd]] \in {"reset", "finreset"}

Tells(e) == Holds(e, sock, peer)

(* An event not looked at is still about the socket it was reported for:   *)
(* each descriptor has one event, and only its handler closes it.          *)
BatchOK ==
  /\ batch \in Seq(Events)
  /\ \A k, l \in 1 .. Len(batch) : batch[k].fd = batch[l].fd => k = l
  /\ \A k \in Unseen .. Len(batch) : Tells(batch[k])

(* The event that is served, and the handler that was found for it.        *)
ServedOK ==
  Serving =>
    /\ batch # <<>> /\ pBase.fd = Event.fd
    /\ pBase.fd \in AllFds /\ pBase.handler \in Handlers
    /\ pc = "read" => /\ Has(reg.map, pBase.fd)
                      /\ reg.map[pBase.fd].handler = pBase.handler
    /\ pBase.handler \in Conns \ deleted => sock[pBase.fd] = pBase.handler
    /\ "OUT" \in Event.mask => pBase.handler = "fifo"
    /\ "ERR" \in Event.mask => WasReset(pBase.handler)

IInv == HandlersOK /\ SocketsOK /\ BatchOK /\ ServedOK

(* Who is gone when the error is looked at read the end of the stream: a   *)
(* reset alone makes the read fail, and a handler whose read fails does    *)
(* not close.                                                              *)
GoneHadEnded ==
  Serving /\ "ERR" \in Event.mask /\ pBase.handler \in deleted =>
    peer[pBase.handler] = "finreset"

-----------------------------------------------------------------------------
(* The handler set.                                                        *)

Entry == [type : (SUBSET Kinds) \ {{}}, handler : Handlers]

(* Registering asks epoll for one kind more, or fails and changes nothing. *)
LEMMA RegisterInStep ==
  ASSUME NEW r, InStep(r), NEW h \in Handlers, NEW fd, NEW k \in Kinds,
         NEW n, n = RegisterEvent(r, h, fd, k)
  PROVE  /\ InStep(n) /\ DOMAIN n.epoll \subseteq DOMAIN r.epoll \cup {fd}
         /\ DOMAIN r.map \subseteq DOMAIN n.map
         /\ \A g \in DOMAIN n.map : g # fd => g \in DOMAIN r.map /\ n.map[g] = r.map[g]
         /\ fd \in DOMAIN n.map =>
              \/ fd \in DOMAIN r.map /\ n.map[fd] = r.map[fd]
              \/ n.map[fd] = [type |-> TypeOf(r, fd) \cup {k}, handler |-> h]
<1> USE DEF InStep, Has, TypeOf
<1>1. CASE Has(r.map, fd) # Has(r.epoll, fd)
  BY <1>1 DEF RegisterEvent, Fails
<1>2. CASE Has(r.map, fd) = Has(r.epoll, fd)
  <2> DEFINE e == [type |-> TypeOf(r, fd) \cup {k}, handler |-> h]
  <2>0. AddFDEventHandler(r.map, h, fd, {k}) = Set(r.map, fd, e)
    <3>1. {k} \cup TypeOf(r, fd) = TypeOf(r, fd) \cup {k}
      OBVIOUS
    <3> QED BY <3>1 DEF AddFDEventHandler
  <2>1. /\ DOMAIN n = {"map", "epoll", "failed"}
        /\ n.map = Set(r.map, fd, e) /\ n.epoll = Set(r.epoll, fd, e.type)
    BY <1>2, <2>0 DEF RegisterEvent
  <2>2. e \in Entry
    <3>1. TypeOf(r, fd) \subseteq Kinds
      <4>1. CASE fd \in DOMAIN r.map
        <5>1. r.map[fd] \in Entry
          BY <4>1 DEF Entry
        <5>2. r.map[fd].type \in SUBSET Kinds
          BY <5>1 DEF Entry
        <5>3. TypeOf(r, fd) = r.map[fd].type
          BY <4>1
        <5> QED BY <5>2, <5>3
      <4> QED BY <4>1
    <3>2. TypeOf(r, fd) \cup {k} \in (SUBSET Kinds) \ {{}}
      BY <3>1
    <3> QED BY <3>2 DEF Entry
  <2>3. /\ DOMAIN n.map = DOMAIN r.map \cup {fd} /\ n.map[fd] = e
        /\ \A g \in DOMAIN r.map : g # fd => n.map[g] = r.map[g]
    BY <2>1 DEF Set
  <2>4. /\ DOMAIN n.epoll = DOMAIN r.epoll \cup {fd} /\ n.epoll[fd] = e.type
        /\ \A g \in DOMAIN r.epoll : g # fd => n.epoll[g] = r.epoll[g]
    BY <2>1 DEF Set
  <2>5. \A g \in DOMAIN n.epoll : n.epoll[g] = TypeOf(n, g)
    <3> HIDE DEF e
    <3> SUFFICES ASSUME NEW g \in DOMAIN n.epoll PROVE n.epoll[g] = TypeOf(n, g)
      OBVIOUS
    <3>1. CASE g = fd
      BY <2>3, <2>4, <3>1
    <3>2. CASE g # fd
      BY <2>3, <2>4, <3>2
    <3> QED BY <3>1, <3>2
  <2>6. \A g \in DOMAIN n.map : n.map[g] \in Entry
    <3> HIDE DEF e
    <3> QED BY <2>2, <2>3 DEF Entry
  <2> QED BY <2>1, <2>3, <2>4, <2>5, <2>6 DEF Entry
<1> QED BY <1>1, <1>2

(* Unregistering asks for one kind less, of this descriptor only.          *)
LEMMA UnRegisterInStep ==
  ASSUME NEW r, InStep(r), NEW fd, NEW k \in Kinds,
         NEW n, n = UnRegisterEvent(r, fd, k)
  PROVE  /\ InStep(n) /\ DOMAIN n.epoll \subseteq DOMAIN r.epoll
         /\ DOMAIN n.map \subseteq DOMAIN r.map
         /\ \A g \in DOMAIN n.map : g # fd => n.map[g] = r.map[g]
         /\ fd \in DOMAIN n.map =>
              /\ n.map[fd].handler = r.map[fd].handler
              /\ n.map[fd].type = r.map[fd].type \ {k}
<1> USE DEF InStep, Has, TypeOf
<1>1. CASE ~Has(r.epoll, fd)
  BY <1>1 DEF UnRegisterEvent, Fails
<1>2. CASE Has(r.epoll, fd) /\ ~Has(r.map, fd)
  BY <1>2 DEF UnRegisterEvent, DelFDEventHandler, Drop
<1>3. CASE Has(r.epoll, fd) /\ Has(r.map, fd)
  <2>1. /\ DOMAIN n = {"map", "epoll", "failed"}
        /\ n.map = DelFDEventHandler(r.map, fd, {k})
        /\ n.epoll = [r.epoll EXCEPT ![fd] = TypeOf(r, fd) \ {k}]
    BY <1>3 DEF UnRegisterEvent
  <2>2. /\ DOMAIN n.epoll = DOMAIN r.epoll /\ n.epoll[fd] = r.map[fd].type \ {k}
        /\ \A g \in DOMAIN r.epoll : g # fd => n.epoll[g] = r.epoll[g]
    BY <1>3, <2>1
  <2>3. CASE r.map[fd].type \subseteq {k}
    <3>1. n.map = Drop(r.map, fd)
      BY <1>3, <2>1, <2>3 DEF DelFDEventHandler
    <3>2. /\ DOMAIN n.map = DOMAIN r.map \ {fd}
          /\ \A g \in DOMAIN n.map : n.map[g] = r.map[g]
      BY <3>1 DEF Drop
    <3>3. r.map[fd].type \ {k} = {}
      BY <2>3
    <3> QED BY <1>3, <2>1, <2>2, <3>2, <3>3
  <2>4. CASE ~(r.map[fd].type \subseteq {k})
    <3>1. n.map = [r.map EXCEPT ![fd].type = @ \ {k}]
      BY <1>3, <2>1, <2>4 DEF DelFDEventHandler
    <3>2. /\ DOMAIN n.map = DOMAIN r.map
          /\ \A g \in DOMAIN n.map : g # fd => n.map[g] = r.map[g]
          /\ n.map[fd] = [r.map[fd] EXCEPT !.type = @ \ {k}]
      BY <1>3, <3>1
    <3>3. r.map[fd] \in Entry
      BY <1>3 DEF Entry
    <3>4. /\ n.map[fd].handler = r.map[fd].handler
          /\ n.map[fd].type = r.map[fd].type \ {k}
          /\ n.map[fd] \in Entry
      BY <2>4, <3>2, <3>3 DEF Entry
    <3>5. n.map[fd] \in [type : (SUBSET Kinds) \ {{}}, handler : Handlers]
      BY <3>4 DEF Entry
    <3>6. \A g \in DOMAIN n.map : n.map[g] \in [type : (SUBSET Kinds) \ {{}}, handler : Handlers]
      BY <3>2, <3>5
    <3>7. \A g \in DOMAIN n.epoll : n.epoll[g] = TypeOf(n, g)
      <4>1. ASSUME NEW g \in DOMAIN n.epoll, g # fd
            PROVE  n.epoll[g] = TypeOf(r, g) /\ TypeOf(n, g) = TypeOf(r, g)
        BY <2>2, <3>2, <4>1
      <4>2. n.epoll[fd] = TypeOf(n, fd)
        BY <1>3, <2>2, <3>2, <3>4
      <4> QED BY <4>1, <4>2
    <3>8. InStep(n)
      BY <1>3, <2>1, <2>2, <3>2, <3>6, <3>7
    <3> QED BY <2>2, <3>2, <3>4, <3>8
  <2> QED BY <2>3, <2>4
<1> QED BY <1>1, <1>2, <1>3

(* A closed descriptor is known neither to the set nor to epoll.           *)
LEMMA CloseInStep ==
  ASSUME NEW r, InStep(r), NEW fd, NEW n, n = CloseFd(UnRegisterBoth(r, fd), fd)
  PROVE  /\ InStep(n) /\ DOMAIN n.epoll \subseteq DOMAIN r.epoll \ {fd}
         /\ DOMAIN n.map \subseteq DOMAIN r.map
         /\ \A g \in DOMAIN n.map : g # fd /\ n.map[g] = r.map[g]
<1> DEFINE r1 == UnRegisterEvent(r, fd, "IN")
           r2 == UnRegisterEvent(r1, fd, "OUT")
<1>1. /\ InStep(r1) /\ DOMAIN r1.epoll \subseteq DOMAIN r.epoll
      /\ DOMAIN r1.map \subseteq DOMAIN r.map
      /\ \A g \in DOMAIN r1.map : g # fd => r1.map[g] = r.map[g]
      /\ fd \in DOMAIN r1.map => r1.map[fd].type = r.map[fd].type \ {"IN"}
  BY UnRegisterInStep DEF Kinds
<1>2. /\ InStep(r2) /\ DOMAIN r2.epoll \subseteq DOMAIN r1.epoll
      /\ DOMAIN r2.map \subseteq DOMAIN r1.map
      /\ \A g \in DOMAIN r2.map : g # fd => r2.map[g] = r1.map[g]
      /\ fd \in DOMAIN r2.map => r2.map[fd].type = r1.map[fd].type \ {"OUT"}
  <2> HIDE DEF r1
  <2> QED BY <1>1, UnRegisterInStep DEF Kinds
<1>3. n = [r2 EXCEPT !.epoll = Drop(@, fd)]
  BY DEF CloseFd, UnRegisterBoth
<1> HIDE DEF r1, r2
<1>4. fd \notin DOMAIN r2.map
  <2> SUFFICES ASSUME fd \in DOMAIN r2.map PROVE FALSE
    OBVIOUS
  <2>1. r2.map[fd].type = (r.map[fd].type \ {"IN"}) \ {"OUT"}
    BY <1>1, <1>2
  <2>2. r.map[fd] \in Entry /\ r2.map[fd] \in Entry
    BY <1>1, <1>2 DEF InStep, Entry
  <2>3. r.map[fd].type \in SUBSET Kinds /\ r2.map[fd].type # {}
    BY <2>2 DEF Entry
  <2> QED BY <2>1, <2>3 DEF Kinds
<1>5. /\ DOMAIN n = {"map", "epoll", "failed"} /\ n.map = r2.map
      /\ DOMAIN n.epoll = DOMAIN r2.epoll \ {fd}
      /\ \A g \in DOMAIN n.epoll : n.epoll[g] = r2.epoll[g]
  <2>1. DOMAIN r2 = {"map", "epoll", "failed"}
    BY <1>2 DEF InStep
  <2>2. /\ DOMAIN n = DOMAIN r2 /\ n.map = r2.map /\ n.epoll = Drop(r2.epoll, fd)
    BY <1>3, <2>1
  <2> QED BY <2>1, <2>2 DEF Drop
<1>6. \A g \in DOMAIN n.epoll : n.epoll[g] = TypeOf(n, g)
  BY <1>2, <1>5 DEF InStep, TypeOf, Has
<1>7. InStep(n)
  BY <1>2, <1>4, <1>5, <1>6 DEF InStep
<1> QED BY <1>1, <1>2, <1>4, <1>5, <1>7

-----------------------------------------------------------------------------
(* What the handlers do to the set and to the sockets.                     *)

World == HandlersOK /\ SocketsOK

(* The two fixed descriptors and the names of handlers and sockets are     *)
(* told apart.                                                             *)
LEMMA Names ==
  /\ ListenFd \in AllFds /\ FifoFd \in AllFds /\ ListenFd # FifoFd
  /\ {"server", "fifo"} \cap Conns = {} /\ {"listen", "free", "fifo"} \cap Conns = {}
  /\ \A h \in Handlers : SocketOf(h) \in {"listen", "fifo"} \cup Conns
  /\ \A h \in Handlers : SocketOf(h) \in Conns <=> h \in Conns
  /\ \A c \in Conns : SocketOf(c) = c /\ c \in Handlers
  /\ \A h \in Handlers : SocketOf(h) = "fifo" <=> h = "fifo"
BY ReactorAssumption DEF AllFds, ListenFd, FifoFd, SocketOf, Handlers

(* Another socket, and a connection that was reset, are left as they are.  *)
Steady(fd) ==
  /\ \A f \in AllFds : sock[f] \in Conns /\ f # fd => sock'[f] = sock[f]
  /\ \A c \in Conns : WasReset(c) => WasReset(c)'

(* An accept gives a connection its one descriptor.                        *)
LEMMA AcceptsWorld ==
  ASSUME World, NEW c \in Conns, Accepts(c)
  PROVE  World' /\ \A fd : Steady(fd)
<1> USE DEF World
<1>1. PICK fd \in AllFds :
        /\ sock[fd] = "free" /\ peer[c] = "pending"
        /\ reg' = RegisterEvent(reg, c, fd, "IN")
        /\ sock' = [sock EXCEPT ![fd] = c]
        /\ peer' = [peer EXCEPT ![c] = "open"]
        /\ UNCHANGED deleted
  BY DEF Accepts, LowestFree
<1>2. fd \notin DOMAIN reg.map
  <2> SUFFICES ASSUME fd \in DOMAIN reg.map PROVE FALSE
    OBVIOUS
  <2>1. reg.map[fd].handler \in Handlers /\ sock[fd] = SocketOf(reg.map[fd].handler)
    BY DEF HandlersOK, InStep
  <2> QED BY <1>1, <2>1, Names
<1>3. /\ InStep(reg') /\ DOMAIN reg'.epoll \subseteq DOMAIN reg.epoll \cup {fd}
      /\ \A g \in DOMAIN reg'.map : g # fd => g \in DOMAIN reg.map /\ reg'.map[g] = reg.map[g]
      /\ fd \in DOMAIN reg'.map =>
           reg'.map[fd] = [type |-> TypeOf(reg, fd) \cup {"IN"}, handler |-> c]
  <2> DEFINE n == reg'
  <2>1. /\ InStep(reg) /\ c \in Handlers /\ "IN" \in Kinds
        /\ n = RegisterEvent(reg, c, fd, "IN")
    BY <1>1, Names DEF HandlersOK, Kinds
  <2> HIDE DEF n
  <2>2. /\ InStep(n) /\ DOMAIN n.epoll \subseteq DOMAIN reg.epoll \cup {fd}
        /\ \A g \in DOMAIN n.map : g # fd => g \in DOMAIN reg.map /\ n.map[g] = reg.map[g]
        /\ fd \in DOMAIN n.map =>
             \/ fd \in DOMAIN reg.map /\ n.map[fd] = reg.map[fd]
             \/ n.map[fd] = [type |-> TypeOf(reg, fd) \cup {"IN"}, handler |-> c]
    BY <2>1, RegisterInStep
  <2> QED BY <1>2, <2>2 DEF n
<1>4. TypeOf(reg, fd) = {}
  BY <1>2 DEF TypeOf, Has
<1>5. HandlersOK'
  <2>1. \A g \in DOMAIN reg'.map : g \in AllFds
    BY <1>1, <1>3 DEF InStep, HandlersOK
  <2>2. ASSUME NEW g \in DOMAIN reg'.map
        PROVE  /\ sock'[g] = SocketOf(reg'.map[g].handler)
               /\ reg'.map[g].handler # "fifo" => reg'.map[g].type = {"IN"}
    <3>1. CASE g = fd
      BY <1>1, <1>3, <1>4, <3>1, Names
      DEF SocketsOK, SocketTypes, OneDescriptor, OpenIsAlive
    <3>2. CASE g # fd
      BY <1>1, <1>3, <2>1, <3>2
      DEF HandlersOK, SocketsOK, SocketTypes, OneDescriptor, OpenIsAlive
    <3> QED BY <3>1, <3>2
  <2> QED BY <1>1, <1>3, <2>2 DEF HandlersOK
<1>6. SocketsOK'
  BY <1>1, Names DEF SocketsOK, SocketTypes, OneDescriptor, OpenIsAlive, States
<1>7. \A g : Steady(g)
  BY <1>1, Names
  DEF SocketsOK, SocketTypes, OneDescriptor, OpenIsAlive, Steady, WasReset
<1> QED BY <1>5, <1>6, <1>7

(* A handler that closes takes its descriptor out of the map, out of       *)
(* epoll and out of use.                                                   *)
LEMMA CloseWorld ==
  ASSUME World, NEW c \in Conns, CloseConn(c)
  PROVE  /\ World' /\ deleted' = deleted \cup {c}
         /\ \A fd \in AllFds : sock[fd] = c => Steady(fd)
<1> USE DEF World
<1>1. PICK fd \in AllFds :
        /\ sock[fd] = c /\ UNCHANGED peer
        /\ reg' = CloseFd(UnRegisterBoth(reg, fd), fd)
        /\ sock' = [sock EXCEPT ![fd] = "free"]
        /\ deleted' = deleted \cup {c}
  BY DEF CloseConn, FdOf
<1>2. /\ InStep(reg') /\ DOMAIN reg'.epoll \subseteq DOMAIN reg.epoll
      /\ DOMAIN reg'.map \subseteq DOMAIN reg.map
      /\ \A g \in DOMAIN reg'.map : g # fd /\ reg'.map[g] = reg.map[g]
  BY <1>1, CloseInStep DEF HandlersOK
<1>3. HandlersOK'
  <2>1. \A g \in DOMAIN reg'.map : g \in AllFds
    BY <1>1, <1>2 DEF InStep, HandlersOK
  <2> QED BY <1>1, <1>2, <2>1
  DEF HandlersOK, SocketsOK, SocketTypes, OneDescriptor, OpenIsAlive
<1>4. SocketsOK'
  <2>1. \A g \in AllFds : sock[g] = c => g = fd
    BY <1>1 DEF SocketsOK, SocketTypes, OneDescriptor, OpenIsAlive
  <2>2. \A g \in AllFds : sock'[g] = IF g = fd THEN "free" ELSE sock[g]
    BY <1>1 DEF SocketsOK, SocketTypes, OneDescriptor, OpenIsAlive
  <2>3. peer[c] \notin {"out", "pending"}
    BY <1>1 DEF SocketsOK, SocketTypes, OneDescriptor, OpenIsAlive
  <2>4. sock' \in [AllFds -> {"free", "listen", "fifo"} \cup Conns]
    BY <1>1 DEF SocketsOK, SocketTypes, OneDescriptor, OpenIsAlive
  <2>5. \A g \in AllFds : sock'[g] \in Conns =>
          g # fd /\ sock'[g] = sock[g] /\ sock'[g] # c
    BY <1>1, <2>1, <2>2, Names
  <2>6. SocketTypes'
    BY <1>1, <2>4 DEF SocketsOK, SocketTypes
  <2>7. OneDescriptor'
    BY <1>1, <2>2, <2>5, Names DEF SocketsOK, OneDescriptor
  <2>8. OpenIsAlive'
    BY <1>1, <2>3, <2>5 DEF SocketsOK, OpenIsAlive
  <2> QED BY <2>6, <2>7, <2>8 DEF SocketsOK
<1>5. \A g \in AllFds : sock[g] = c => Steady(g)
  BY <1>1 DEF SocketsOK, SocketTypes, OneDescriptor, OpenIsAlive, Steady, WasReset
<1> QED BY <1>1, <1>3, <1>4, <1>5

(* The decoder of a connection that is there asks for writing and takes it *)
(* back.                                                                   *)
LEMMA ProcessWorld ==
  ASSUME World, NEW c \in Conns, OnProcess(c),
         Has(reg.map, pBase.fd), reg.map[pBase.fd].handler = c
  PROVE  World' /\ UNCHANGED deleted /\ \A fd : Steady(fd)
<1> USE DEF World
<1> DEFINE fd == pBase.fd
           r  == RegisterEvent(reg, c, fd, "OUT")
<1>1. fd \in DOMAIN reg.map /\ reg.map[fd].handler = c /\ reg.map[fd].type = {"IN"}
  BY Names DEF HandlersOK, Has
<1>2. /\ reg' = UnRegisterEvent(r, fd, "OUT") /\ UNCHANGED <<sock, deleted>>
      /\ peer' = [peer EXCEPT ![c] = IF @ = "data" THEN "open" ELSE @]
  BY DEF OnProcess
<1> HIDE DEF fd
<1>3. /\ InStep(r) /\ DOMAIN r.epoll \subseteq DOMAIN reg.epoll \cup {fd}
      /\ \A g \in DOMAIN r.map : g # fd => g \in DOMAIN reg.map /\ r.map[g] = reg.map[g]
      /\ fd \in DOMAIN r.map => /\ r.map[fd].handler = c
                                /\ r.map[fd].type \in {{"IN"}, {"IN", "OUT"}}
  <2>1. TypeOf(reg, fd) = {"IN"}
    BY <1>1 DEF TypeOf, Has
  <2>2. TypeOf(reg, fd) \cup {"OUT"} = {"IN", "OUT"}
    BY <2>1
  <2>3. c \in Handlers /\ "OUT" \in Kinds /\ InStep(reg)
    BY Names DEF HandlersOK, Kinds
  <2>4. /\ InStep(r) /\ DOMAIN r.epoll \subseteq DOMAIN reg.epoll \cup {fd}
        /\ \A g \in DOMAIN r.map : g # fd => g \in DOMAIN reg.map /\ r.map[g] = reg.map[g]
        /\ fd \in DOMAIN r.map =>
              \/ fd \in DOMAIN reg.map /\ r.map[fd] = reg.map[fd]
              \/ r.map[fd] = [type |-> TypeOf(reg, fd) \cup {"OUT"}, handler |-> c]
    BY <2>3, RegisterInStep
  <2> QED BY <1>1, <2>2, <2>4
<1> HIDE DEF r
<1>4. /\ InStep(reg') /\ DOMAIN reg'.epoll \subseteq DOMAIN r.epoll
      /\ DOMAIN reg'.map \subseteq DOMAIN r.map
      /\ \A g \in DOMAIN reg'.map : g # fd => reg'.map[g] = r.map[g]
      /\ fd \in DOMAIN reg'.map =>
           /\ reg'.map[fd].handler = r.map[fd].handler
           /\ reg'.map[fd].type = r.map[fd].type \ {"OUT"}
  BY <1>2, <1>3, UnRegisterInStep DEF Kinds
<1>5. fd \in AllFds
  BY <1>1 DEF HandlersOK, InStep
<1>6. ASSUME NEW g \in DOMAIN reg'.map
      PROVE  /\ g \in DOMAIN reg.map /\ reg'.map[g].handler = reg.map[g].handler
             /\ reg'.map[g].handler # "fifo" => reg'.map[g].type = {"IN"}
  <2>1. CASE g = fd
    BY <1>1, <1>3, <1>4, <2>1
  <2>2. CASE g # fd
    BY <1>3, <1>4, <2>2 DEF HandlersOK
  <2> QED BY <2>1, <2>2
<1>7. HandlersOK'
  BY <1>2, <1>3, <1>4, <1>5, <1>6 DEF HandlersOK
<1>8. SocketsOK' /\ \A g : Steady(g)
  <2>1. peer[c] \notin {"out", "pending"}
    BY <1>1, <1>5, Names
    DEF HandlersOK, SocketsOK, SocketTypes, OneDescriptor, OpenIsAlive
  <2> QED BY <1>2, <2>1
  DEF SocketsOK, SocketTypes, OneDescriptor, OpenIsAlive, States, Steady, WasReset
<1> QED BY <1>2, <1>7, <1>8

(* What the FIFO asks for changes nothing but its own entry.               *)
LEMMA FifoWorld ==
  ASSUME World, NEW k \in Kinds,
         reg' = RegisterEvent(reg, "fifo", FifoFd, k) \/ reg' = UnRegisterEvent(reg, FifoFd, k),
         UNCHANGED <<sock, peer, deleted>>
  PROVE  World' /\ \A fd : Steady(fd)
<1> USE DEF World
<1>1. InStep(reg) /\ "fifo" \in Handlers
  BY DEF HandlersOK, Handlers
<1>2. /\ InStep(reg') /\ DOMAIN reg'.epoll \subseteq DOMAIN reg.epoll \cup {FifoFd}
      /\ \A g \in DOMAIN reg'.map : g # FifoFd => g \in DOMAIN reg.map /\ reg'.map[g] = reg.map[g]
      /\ FifoFd \in DOMAIN reg'.map =>
           \/ reg'.map[FifoFd].handler = "fifo"
           \/ FifoFd \in DOMAIN reg.map /\ reg'.map[FifoFd].handler = reg.map[FifoFd].handler
  <2>1. CASE reg' = RegisterEvent(reg, "fifo", FifoFd, k)
    <3> DEFINE n == reg'
    <3>1. n = RegisterEvent(reg, "fifo", FifoFd, k)
      BY <2>1
    <3> HIDE DEF n
    <3>2. /\ InStep(n) /\ DOMAIN n.epoll \subseteq DOMAIN reg.epoll \cup {FifoFd}
          /\ \A g \in DOMAIN n.map :
               g # FifoFd => g \in DOMAIN reg.map /\ n.map[g] = reg.map[g]
          /\ FifoFd \in DOMAIN n.map =>
               \/ FifoFd \in DOMAIN reg.map /\ n.map[FifoFd] = reg.map[FifoFd]
               \/ n.map[FifoFd] = [type |-> TypeOf(reg, FifoFd) \cup {k}, handler |-> "fifo"]
      BY <1>1, <3>1, RegisterInStep
    <3> QED BY <3>2 DEF n
  <2>2. CASE reg' = UnRegisterEvent(reg, FifoFd, k)
    BY <1>1, <2>2, UnRegisterInStep
  <2> QED BY <2>1, <2>2
<1>3. FifoFd \in DOMAIN reg.map => reg.map[FifoFd].handler = "fifo"
  <2> SUFFICES ASSUME FifoFd \in DOMAIN reg.map PROVE reg.map[FifoFd].handler = "fifo"
    OBVIOUS
  <2>1. reg.map[FifoFd].handler \in Handlers /\ SocketOf(reg.map[FifoFd].handler) = "fifo"
    BY Names DEF HandlersOK, InStep, SocketsOK, SocketTypes, OneDescriptor, OpenIsAlive
  <2> QED BY <2>1, Names
<1>4. HandlersOK'
  <2>1. SocketOf("fifo") = "fifo" /\ sock[FifoFd] = "fifo"
    BY Names DEF SocketOf, SocketsOK, SocketTypes, OneDescriptor, OpenIsAlive
  <2> QED BY <1>2, <1>3, <2>1, Names DEF HandlersOK
<1> QED BY <1>4 DEF SocketsOK, SocketTypes, OneDescriptor, OpenIsAlive, Steady, WasReset

-----------------------------------------------------------------------------
(* The steps.                                                              *)

(* A step of the loop or of a timer that leaves the descriptors alone.     *)
Quiet ==
  /\ UNCHANGED fdVars
  /\ \/ UNCHANGED pc
     \/ pc \notin {"write", "err", "killed"} /\ pc' \notin {"read", "write", "err"}
     \/ pc' = "killed"

(* The steps that matter to the handlers and sockets, and the quiet        *)
(* ones.                                                                   *)
LEMMA StepCases ==
  ASSUME [Next]_vars
  PROVE  \/ Quiet \/ Peers \/ EpollReturns \/ FindHandler
         \/ ServeRead \/ ServeWrite \/ ServeError
         \/ \E type \in Kinds : RegisterFifo(type)
<1> USE DEF Quiet, GoTo
<1>1. CASE UNCHANGED vars
  BY <1>1 DEF vars
<1>2. CASE UserCode
  <2>1. CASE \E type \in {"IN", "OUT"} : RegisterFifo(type)
    BY <2>1 DEF Kinds
  <2>2. CASE Stop
    BY <2>2 DEF Stop
  <2>3. ASSUME NEW t \in Timers, NEW m \in Msecs, NEW again \in BOOLEAN,
               RegisterTimer(t, m, again)
        PROVE  Quiet
    BY <2>3 DEF RegisterTimer
  <2>4. ASSUME NEW t \in Timers, RegisterTimerAgain(t) \/ UnRegisterTimer(t)
        PROVE  Quiet
    BY <2>4 DEF RegisterTimerAgain, UnRegisterTimer
  <2> QED BY <1>2, <2>1, <2>2, <2>3, <2>4 DEF UserCode
<1>3. CASE Tick \/ Run \/ RunReturns \/ WriteKills \/ DeletedKills \/ EndBatch
  BY <1>3 DEF Tick, Run, RunReturns, WriteKills, DeletedKills, EndBatch
<1>4. CASE TakeMinTime \/ EndScan \/ CallOnTimeOut \/ OnTimeOutReturns \/ NextTime
  BY <1>4 DEF TakeMinTime, EndScan, CallOnTimeOut, OnTimeOutReturns, NextTime
<1> QED BY <1>1, <1>2, <1>3, <1>4 DEF Next, Loop

(* What epoll reports holds when it is reported.                           *)
LEMMA ReportedTells ==
  ASSUME World, NEW fd \in DOMAIN reg.epoll, NEW fifo \in SUBSET Kinds
  PROVE  /\ Reported(fd, fifo) \subseteq {"IN", "OUT", "ERR"} /\ fd \in AllFds
         /\ Tells([fd |-> fd, mask |-> Reported(fd, fifo)])
<1> USE DEF World
<1>1. fd \in AllFds /\ reg.epoll[fd] = TypeOf(reg, fd)
  BY DEF HandlersOK, InStep
<1>2. /\ Ready(fd, fifo) \subseteq {"IN", "OUT", "ERR"}
      /\ "ERR" \in Ready(fd, fifo) => WasReset(sock[fd])
  BY <1>1, Names DEF Ready, Kinds, WasReset
<1>3. "OUT" \in reg.epoll[fd] => fd = FifoFd
  <2> SUFFICES ASSUME "OUT" \in reg.epoll[fd] PROVE fd = FifoFd
    OBVIOUS
  <2>1. fd \in DOMAIN reg.map /\ "OUT" \in reg.map[fd].type
    BY <1>1 DEF TypeOf, Has
  <2>2. reg.map[fd].handler = "fifo"
    BY <2>1 DEF HandlersOK
  <2>3. sock[fd] = "fifo"
    BY <2>1, <2>2, Names DEF HandlersOK, SocketOf
  <2> QED BY <1>1, <2>3 DEF SocketsOK, OneDescriptor
<1> QED BY <1>1, <1>2, <1>3 DEF Reported, Tells, Holds, WasReset

(* A new batch has one event of each descriptor, and each holds.           *)
LEMMA EpollBatch ==
  ASSUME World, EpollReturns
  PROVE  /\ batch' \in Seq(Events)
         /\ \A k, l \in 1 .. Len(batch') : batch'[k].fd = batch'[l].fd => k = l
         /\ \A k \in 1 .. Len(batch') : Tells(batch'[k])
<1> USE DEF World
<1>1. PICK fifo \in SUBSET Kinds :
        \E fds \in SetToSeqs({fd \in DOMAIN reg.epoll : Reported(fd, fifo) # {}}) :
          batch' = [i \in DOMAIN fds |-> [fd |-> fds[i], mask |-> Reported(fds[i], fifo)]]
  BY DEF EpollReturns, Kinds
<1> DEFINE S == {fd \in DOMAIN reg.epoll : Reported(fd, fifo) # {}}
<1>2. PICK fds \in SetToSeqs(S) :
        batch' = [i \in DOMAIN fds |-> [fd |-> fds[i], mask |-> Reported(fds[i], fifo)]]
  BY <1>1
<1>3. Cardinality(S) \in Nat
  <2>1. 0 \in Int /\ FdLimit - 1 \in Int
    BY ReactorAssumption
  <2>2. IsFiniteSet(AllFds)
    BY <2>1, FS_Interval DEF AllFds
  <2>3. S \subseteq AllFds
    BY DEF HandlersOK
  <2>4. IsFiniteSet(S)
    BY <2>2, <2>3, FS_Subset
  <2> HIDE DEF S
  <2> QED BY <2>4, FS_CardinalityType
<1>4. /\ fds \in [1 .. Cardinality(S) -> S]
      /\ \A i, j \in 1 .. Cardinality(S) : i # j => fds[i] # fds[j]
  <2> HIDE DEF S
  <2> QED BY <1>2 DEF SetToSeqs
<1>5. \A fd \in S : /\ fd \in AllFds /\ Reported(fd, fifo) \subseteq {"IN", "OUT", "ERR"}
                    /\ Tells([fd |-> fd, mask |-> Reported(fd, fifo)])
  BY ReportedTells
<1> HIDE DEF S
<1> DEFINE n == Cardinality(S)
           e(i) == [fd |-> fds[i], mask |-> Reported(fds[i], fifo)]
<1>6. \A i \in 1 .. n : e(i) \in Events /\ Tells(e(i)) /\ e(i).fd = fds[i]
  BY <1>4, <1>5 DEF Events
<1>7. batch' = [i \in 1 .. n |-> e(i)]
  BY <1>2, <1>4
<1>8. n \in Nat
  BY <1>3
<1> HIDE DEF e, n
<1>9. batch' \in Seq(Events) /\ Len(batch') = n /\ \A i \in 1 .. n : batch'[i] = e(i)
  BY <1>6, <1>7, <1>8
<1> QED BY <1>4, <1>6, <1>9 DEF n

(* An event of another descriptor than the one a step is about still       *)
(* holds.                                                                  *)
LEMMA TellsStill ==
  ASSUME World, NEW e \in Events, Tells(e), NEW fd, Steady(fd), e.fd # fd
  PROVE  Holds(e, sock', peer')
<1>1. e.fd \in AllFds
  BY DEF Events
<1> QED BY <1>1, Names DEF Tells, Holds, Steady, WasReset

(* Who is served is there when the first handler is called.                *)
LEMMA ServedIsThere ==
  ASSUME World, ServedOK, pc = "read"
  PROVE  /\ pBase.fd \in AllFds /\ sock[pBase.fd] = SocketOf(pBase.handler)
         /\ pBase.handler \in Conns => sock[pBase.fd] = pBase.handler
<1>1. pBase.fd \in DOMAIN reg.map /\ reg.map[pBase.fd].handler = pBase.handler
  BY DEF ServedOK, Serving, Has
<1>2. pBase.fd \in AllFds /\ sock[pBase.fd] = SocketOf(pBase.handler)
  BY <1>1 DEF World, HandlersOK, InStep
<1> QED BY <1>2, Names

(* A served handler leaves other sockets alone, and closes its own only    *)
(* together with itself.                                                   *)
LEMMA ServeWorld ==
  ASSUME World, ServedOK, ServeRead \/ ServeWrite \/ ServeError
  PROVE  /\ World' /\ Steady(pBase.fd)
         /\ pBase.handler \in Conns \ deleted' => sock'[pBase.fd] = pBase.handler
<1>0. CASE UNCHANGED <<reg, sock, peer, deleted>> /\ Serving
  <2>1. pBase.handler \in Conns \ deleted => sock[pBase.fd] = pBase.handler
    BY <1>0 DEF ServedOK
  <2> QED BY <1>0, <2>1
    DEF World, HandlersOK, SocketsOK, SocketTypes, OneDescriptor, OpenIsAlive, Steady, WasReset
<1>1. CASE ServeRead /\ "IN" \in Event.mask
  <2>1. OnFDRead(pBase.handler) /\ pc = "read"
    BY <1>1 DEF ServeRead
  <2>2. /\ pBase.fd \in AllFds /\ sock[pBase.fd] = SocketOf(pBase.handler)
        /\ pBase.handler \in Conns => sock[pBase.fd] = pBase.handler
    BY <2>1, ServedIsThere
  <2>3. CASE pBase.handler = "server" /\ \E c \in Conns : Accepts(c)
    BY <2>3, AcceptsWorld, Names
  <2>4. CASE pBase.handler = "server" /\ AcceptFails
    <3>1. UNCHANGED <<reg, sock, peer, deleted>> /\ Serving
      BY <2>1, <2>4 DEF AcceptFails, Serving
    <3> QED BY <1>0, <3>1
  <2>5. CASE pBase.handler = "fifo" /\ FifoDone("IN")
    BY <2>5, FifoWorld, Names DEF FifoDone, Kinds
  <2>6. CASE pBase.handler \in Conns /\ CloseConn(pBase.handler)
    BY <2>2, <2>6, CloseWorld
  <2>7. CASE pBase.handler \in Conns /\ OnProcess(pBase.handler)
    <3>1. Has(reg.map, pBase.fd) /\ reg.map[pBase.fd].handler = pBase.handler
      BY <2>1 DEF ServedOK, Serving
    <3>2. UNCHANGED sock
      BY <2>7 DEF OnProcess
    <3> QED BY <2>2, <2>7, <3>1, <3>2, ProcessWorld
  <2> QED BY <2>1, <2>3, <2>4, <2>5, <2>6, <2>7 DEF OnFDRead, ConnRead
<1>2. CASE ServeWrite /\ "OUT" \in Event.mask
  <2>1. pBase.handler = "fifo"
    BY <1>2 DEF ServeWrite, ServedOK, Serving
  <2>2. FifoDone("OUT")
    BY <1>2 DEF ServeWrite, OnFDWrite
  <2> QED BY <2>1, <2>2, FifoWorld, Names DEF FifoDone, Kinds
<1>3. CASE ServeError /\ "ERR" \in Event.mask /\ pBase.handler \notin deleted
  <2>1. pBase.handler \in Conns /\ sock[pBase.fd] = pBase.handler /\ CloseConn(pBase.handler)
    BY <1>3 DEF ServeError, ServedOK, Serving, WasReset
  <2>2. pBase.fd \in AllFds
    BY <1>3 DEF ServeError, ServedOK, Serving
  <2> QED BY <2>1, <2>2, CloseWorld
<1> QED BY <1>0, <1>1, <1>2, <1>3 DEF ServeRead, ServeWrite, ServeError, Serving

(* Every other step leaves the sockets alone.                              *)
LEMMA OtherWorld ==
  ASSUME World,
         \/ Quiet \/ Peers \/ EpollReturns \/ FindHandler
         \/ \E type \in Kinds : RegisterFifo(type)
  PROVE  World' /\ \A fd : Steady(fd)
<1>1. CASE Quiet \/ EpollReturns \/ FindHandler
  <2>1. UNCHANGED <<reg, sock, peer, deleted>>
    BY <1>1 DEF Quiet, fdVars, EpollReturns, FindHandler
  <2> QED BY <2>1
    DEF World, HandlersOK, SocketsOK, SocketTypes, OneDescriptor, OpenIsAlive, Steady, WasReset
<1>2. CASE Peers
  <2>1. PICK c \in Conns :
          \E from, to :
            /\ PeerStep(c, from, to)
            /\ \/ from \subseteq {"open", "data", "closed"} /\ to \in States \ {"out", "pending"}
               \/ from = {"out"} /\ to = "pending"
    <3>1. PICK c \in Conns :
            \/ PeerStep(c, {"out"}, "pending") \/ PeerStep(c, {"open"}, "data")
            \/ PeerStep(c, {"open"}, "closed")
            \/ PeerStep(c, ResetFrom \ {"closed"}, "reset")
            \/ PeerStep(c, ResetFrom \cap {"closed"}, "finreset")
      BY <1>2 DEF Peers
    <3>2. /\ ResetFrom \ {"closed"} \subseteq {"open", "data", "closed"}
          /\ ResetFrom \cap {"closed"} \subseteq {"open", "data", "closed"}
          /\ {"open"} \subseteq {"open", "data", "closed"}
      BY ReactorAssumption
    <3>3. {"data", "closed", "reset", "finreset"} \subseteq States \ {"out", "pending"}
      BY DEF States
    <3> QED BY <3>1, <3>2, <3>3
  <2>2. /\ UNCHANGED <<reg, sock, deleted>>
        /\ \/ /\ peer[c] \in {"open", "data", "closed"}
              /\ \E to \in States \ {"out", "pending"} : peer' = [peer EXCEPT ![c] = to]
           \/ /\ peer[c] = "out" /\ peer' = [peer EXCEPT ![c] = "pending"]
    BY <2>1 DEF PeerStep
  <2>3. HandlersOK'
    BY <2>2 DEF World, HandlersOK
  <2>4. peer \in [Conns -> States] /\ WasReset(c) = FALSE
    BY <2>2 DEF World, SocketsOK, SocketTypes, WasReset
  <2>5. SocketTypes' /\ OneDescriptor'
    BY <2>2, <2>4 DEF World, SocketsOK, SocketTypes, OneDescriptor, States
  <2>6. OpenIsAlive'
    BY <2>2, <2>4 DEF World, SocketsOK, SocketTypes, OpenIsAlive, States
  <2>7. \A fd : Steady(fd)
    BY <2>2, <2>4 DEF Steady, WasReset
  <2> QED BY <2>3, <2>5, <2>6, <2>7 DEF World, SocketsOK
<1>3. ASSUME NEW type \in Kinds, RegisterFifo(type)
      PROVE  World' /\ \A fd : Steady(fd)
  BY <1>3, FifoWorld DEF RegisterFifo
<1> QED BY <1>1, <1>2, <1>3

-----------------------------------------------------------------------------
(* The batch and the event that is served.                                 *)

(* A batch and what is left of it when its first event is served.          *)
LEMMA FirstAndRest ==
  ASSUME NEW s \in Seq(Events), s # <<>>
  PROVE  /\ Len(s) \in Nat /\ 1 \in 1 .. Len(s) /\ Head(s) = s[1] /\ s[1] \in Events
         /\ Tail(s) \in Seq(Events) /\ Len(Tail(s)) = Len(s) - 1
         /\ \A k \in 1 .. Len(Tail(s)) : k + 1 \in 2 .. Len(s) /\ Tail(s)[k] = s[k + 1]
<1>1. Len(s) \in Nat /\ 1 \in 1 .. Len(s) /\ Head(s) = s[1] /\ s[1] \in Events
  OBVIOUS
<1>2. Tail(s) \in Seq(Events) /\ Len(Tail(s)) = Len(s) - 1
  BY <1>1
<1>3. \A k \in 1 .. Len(Tail(s)) : k + 1 \in 2 .. Len(s) /\ Tail(s)[k] = s[k + 1]
  BY <1>1, <1>2
<1> QED BY <1>1, <1>2, <1>3

(* Every step keeps what is known of the events to come.                   *)
LEMMA BatchStep ==
  ASSUME IInv, [Next]_vars PROVE BatchOK'
<1> USE DEF IInv
<1>1. /\ World /\ ServedOK /\ batch \in Seq(Events)
      /\ \A k, l \in 1 .. Len(batch) : batch[k].fd = batch[l].fd => k = l
      /\ \A k \in Unseen .. Len(batch) : Tells(batch[k])
      /\ Len(batch) \in Nat /\ \A k \in 1 .. Len(batch) : batch[k] \in Events
  BY DEF World, BatchOK
<1> SUFFICES /\ batch' \in Seq(Events)
             /\ \A k, l \in 1 .. Len(batch') : batch'[k].fd = batch'[l].fd => k = l
             /\ \A k \in Unseen' .. Len(batch') : Holds(batch'[k], sock', peer')
  BY DEF BatchOK, Tells
<1>2. CASE EpollReturns
  <2>1. Unseen' = 1 /\ UNCHANGED <<sock, peer>>
    BY <1>2 DEF EpollReturns, Unseen, GoTo
  <2> QED BY <1>1, <1>2, <2>1, EpollBatch DEF Tells
<1>3. CASE Quiet \/ Peers \/ \E type \in Kinds : RegisterFifo(type)
  <2>1. UNCHANGED batch /\ Unseen' \in {Unseen, 2} /\ Unseen \in {1, 2}
    BY <1>3 DEF Quiet, fdVars, Peers, PeerStep, RegisterFifo, Unseen
  <2>2. \A fd : Steady(fd)
    BY <1>1, <1>3, OtherWorld
  <2>3. ASSUME NEW k \in Unseen .. Len(batch) PROVE Holds(batch[k], sock', peer')
    <3>1. batch[k] \in Events /\ Tells(batch[k])
      BY <1>1 DEF Unseen
    <3>2. PICK fd \in {ListenFd, FifoFd} : batch[k].fd # fd
      <4>1. batch[k].fd # ListenFd \/ batch[k].fd # FifoFd
        BY Names
      <4> QED BY <4>1
    <3>3. PICK e \in Events : e = batch[k]
      BY <3>1
    <3>4. World /\ Tells(e) /\ Steady(fd) /\ e.fd # fd
      BY <1>1, <2>2, <3>1, <3>2, <3>3
    <3>5. Holds(e, sock', peer')
      BY <3>4, TellsStill
    <3> QED BY <3>3, <3>5
  <2> QED BY <1>1, <2>1, <2>3
<1>4. CASE FindHandler
  <2>1. /\ pc = "batch" /\ batch # <<>> /\ UNCHANGED <<sock, peer>>
        /\ \/ UNCHANGED batch /\ pc' = "read"
           \/ batch' = Tail(batch) /\ pc' = "batch"
    BY <1>4 DEF FindHandler, GoTo
  <2>2. Unseen = 1 /\ Unseen' = 1
    BY <2>1 DEF Unseen
  <2>3. CASE UNCHANGED batch
    BY <1>1, <2>1, <2>2, <2>3 DEF Tells
  <2>4. CASE batch' = Tail(batch)
    BY <1>1, <2>1, <2>2, <2>4, FirstAndRest DEF Tells
  <2> QED BY <2>1, <2>3, <2>4
<1>5. CASE ServeRead \/ ServeWrite \/ ServeError
  <2>1. /\ Serving
        /\ \/ UNCHANGED batch /\ Unseen' = 2
           \/ batch' = Tail(batch) /\ Unseen' = 1
    <3>1. CASE ServeRead \/ ServeWrite
      BY <3>1 DEF ServeRead, ServeWrite, GoTo, Unseen, Serving
    <3>2. CASE ServeError
      BY <3>2 DEF ServeError, GoTo, Unseen, Serving
    <3> QED BY <1>5, <3>1, <3>2
  <2>2. batch # <<>> /\ pBase.fd = batch[1].fd
    BY <1>1, <2>1, FirstAndRest DEF ServedOK, Event
  <2>3. ASSUME NEW k \in 2 .. Len(batch) PROVE Holds(batch[k], sock', peer')
    <3>1. batch[k] \in Events /\ Tells(batch[k]) /\ batch[k].fd # pBase.fd
      <4>1. k \in 1 .. Len(batch) /\ 1 \in 1 .. Len(batch) /\ k # 1
        BY <1>1
      <4>2. k \in Unseen .. Len(batch)
        BY <1>1 DEF Unseen
      <4> QED BY <1>1, <2>2, <4>1, <4>2
    <3> QED BY <1>1, <1>5, <3>1, ServeWorld, TellsStill
  <2>4. CASE UNCHANGED batch /\ Unseen' = 2
    BY <1>1, <2>3, <2>4
  <2>5. CASE batch' = Tail(batch) /\ Unseen' = 1
    <3>1. /\ Tail(batch) \in Seq(Events) /\ Len(Tail(batch)) = Len(batch) - 1
          /\ \A k \in 1 .. Len(Tail(batch)) :
               k + 1 \in 2 .. Len(batch) /\ Tail(batch)[k] = batch[k + 1]
      BY <1>1, <2>2, FirstAndRest
    <3>2. ASSUME NEW k \in 1 .. Len(Tail(batch)), NEW l \in 1 .. Len(Tail(batch)),
                 Tail(batch)[k].fd = Tail(batch)[l].fd
          PROVE  k = l
      <4>1. k + 1 \in 1 .. Len(batch) /\ l + 1 \in 1 .. Len(batch)
        BY <3>1
      <4>2. k + 1 = l + 1
        BY <1>1, <3>1, <3>2, <4>1
      <4> QED BY <4>2
    <3> QED BY <2>3, <2>5, <3>1, <3>2
  <2> QED BY <2>1, <2>4, <2>5
<1> QED BY <1>2, <1>3, <1>4, <1>5, StepCases

(* Every step keeps what is known of the event that is served.             *)
LEMMA ServedStep ==
  ASSUME IInv, [Next]_vars PROVE ServedOK'
<1> USE DEF IInv, Event
<1>1. World /\ ServedOK
  BY DEF World
<1> SUFFICES ASSUME Serving'
             PROVE  ServedOK'
  BY DEF ServedOK
<1>2. CASE EpollReturns \/ ServeError
  BY <1>2 DEF EpollReturns, ServeError, GoTo, Serving
<1>3. CASE Quiet
  BY <1>1, <1>3 DEF Quiet, fdVars, ServedOK, Serving, WasReset
<1>4. ASSUME NEW type \in Kinds, RegisterFifo(type) PROVE FALSE
  BY <1>4 DEF RegisterFifo, InUserCode, Serving
<1>5. CASE Peers
  <2>1. UNCHANGED <<pc, reg, batch, pBase, sock, deleted>>
    BY <1>5 DEF Peers, PeerStep
  <2>2. \A c : WasReset(c) => WasReset(c)'
    BY <1>1, <1>5, OtherWorld DEF Steady, WasReset
  <2> QED BY <1>1, <2>1, <2>2 DEF ServedOK, Serving
<1>6. CASE FindHandler
  <2>1. /\ pc = "batch" /\ pc' = "read" /\ batch # <<>>
        /\ UNCHANGED <<batch, reg, sock, peer, deleted>> /\ Head(batch).fd \in DOMAIN reg.map
        /\ pBase' = [fd |-> Head(batch).fd, handler |-> reg.map[Head(batch).fd].handler]
    BY <1>6 DEF FindHandler, GoTo, Serving, Has
  <2> DEFINE e == Head(batch)
  <2>2. e \in Events /\ Tells(e)
    BY <2>1, FirstAndRest DEF BatchOK, Unseen
  <2> HIDE DEF e
  <2>3. /\ e.fd \in AllFds /\ reg.map[e.fd].handler \in Handlers
        /\ sock[e.fd] = SocketOf(reg.map[e.fd].handler)
    BY <2>1, <2>2 DEF HandlersOK, InStep, Events, e
  <2>4. "OUT" \in e.mask => reg.map[e.fd].handler = "fifo"
    BY <2>2, <2>3, Names DEF Tells, Holds, SocketsOK, OneDescriptor
  <2>5. "ERR" \in e.mask => WasReset(reg.map[e.fd].handler)
    BY <2>2, <2>3, Names DEF Tells, Holds, WasReset
  <2>6. reg.map[e.fd].handler \in Conns => sock[e.fd] = reg.map[e.fd].handler
    BY <2>3, Names
  <2>7. /\ batch' = batch /\ Head(batch') = e /\ pBase'.fd = e.fd
        /\ pBase'.handler = reg.map[e.fd].handler /\ Has(reg'.map, pBase'.fd)
    BY <2>1 DEF e, Has
  <2> QED BY <2>1, <2>3, <2>4, <2>5, <2>6, <2>7 DEF ServedOK, WasReset
<1>7. CASE ServeRead \/ ServeWrite
  <2>1. /\ Serving /\ pc' # "read" /\ UNCHANGED <<batch, pBase>>
    BY <1>7 DEF ServeRead, ServeWrite, GoTo, Serving
  <2>2. /\ Steady(pBase.fd)
        /\ pBase.handler \in Conns \ deleted' => sock'[pBase.fd] = pBase.handler
    BY <1>1, <1>7, ServeWorld
  <2>3. WasReset(pBase.handler) => WasReset(pBase.handler)'
    BY <2>1, <2>2 DEF Steady, WasReset
  <2> QED BY <1>1, <2>1, <2>2, <2>3 DEF ServedOK
<1> QED BY <1>2, <1>3, <1>4, <1>5, <1>6, <1>7, StepCases

(* Every step keeps handlers and sockets in step.                          *)
LEMMA WorldStep ==
  ASSUME IInv, [Next]_vars PROVE World'
<1>1. World /\ ServedOK
  BY DEF IInv, World
<1>2. CASE ServeRead \/ ServeWrite \/ ServeError
  BY <1>1, <1>2, ServeWorld
<1>3. CASE \/ Quiet \/ Peers \/ EpollReturns \/ FindHandler
           \/ \E type \in Kinds : RegisterFifo(type)
  BY <1>1, <1>3, OtherWorld
<1> QED BY <1>2, <1>3, StepCases

(* Whoever is gone when the error is looked at closed at an end of stream. *)
LEMMA GoneStep ==
  ASSUME IInv, GoneHadEnded, [Next]_vars PROVE GoneHadEnded'
<1> USE DEF GoneHadEnded, Event
<1>0. World /\ ServedOK /\ peer \in [Conns -> States]
  BY DEF IInv, World, SocketsOK, SocketTypes
<1>1. CASE Quiet
  BY <1>1 DEF Quiet, fdVars, Serving
<1>2. ASSUME NEW type \in Kinds, RegisterFifo(type) PROVE GoneHadEnded'
  BY <1>2 DEF RegisterFifo, InUserCode, Serving
<1>3. CASE EpollReturns
  BY <1>3 DEF EpollReturns, GoTo, Serving
<1>4. CASE Peers
  <2>1. UNCHANGED <<pc, batch, pBase, deleted>>
    BY <1>4 DEF Peers, PeerStep
  <2>2. \A c \in Conns : peer[c] = "finreset" => peer'[c] = "finreset"
    <3>1. PICK c \in Conns, from \in SUBSET {"out", "open", "data", "closed"}, to \in States :
            peer[c] \in from /\ peer' = [peer EXCEPT ![c] = to]
      BY <1>4, ReactorAssumption DEF Peers, PeerStep, States
    <3> QED BY <1>0, <3>1
  <2>3. deleted \subseteq Conns
    BY DEF IInv, SocketsOK, SocketTypes
  <2> QED BY <2>1, <2>2, <2>3 DEF Serving
<1>5. CASE FindHandler
  <2>1. UNCHANGED <<sock, peer, deleted>>
    BY <1>5 DEF FindHandler
  <2>2. ServedOK' /\ World'
    BY ServedStep, WorldStep
  <2>3. ASSUME Serving', "ERR" \in Event'.mask PROVE pBase'.handler \notin deleted
    <3>1. pBase'.handler \in Conns /\ pBase'.fd \in AllFds /\ pc' = "read"
      BY <1>5, <2>2, <2>3 DEF ServedOK, WasReset, FindHandler, GoTo, Serving
    <3>2. sock[pBase'.fd] = SocketOf(pBase'.handler)
      BY <2>1, <2>2, <3>1 DEF ServedOK, World, HandlersOK, Serving, Has
    <3> QED BY <1>0, <3>1, <3>2, Names DEF World, SocketsOK, OpenIsAlive
  <2> QED BY <2>1, <2>3
<1>6. CASE ServeRead
  <2>1. Serving /\ UNCHANGED <<batch, pBase>> /\ pc = "read"
    BY <1>6 DEF ServeRead, Serving
  <2>2. SUFFICES ASSUME "ERR" \in Event.mask, pBase.handler \in deleted'
                 PROVE  peer'[pBase.handler] = "finreset"
    BY <2>1
  <2>3. pBase.handler \in Conns /\ peer[pBase.handler] \in {"reset", "finreset"}
    BY <1>0, <2>1, <2>2 DEF ServedOK, WasReset
  <2>4. pBase.handler \notin {"server", "fifo"}
    BY <2>3, Names
  <2>5. UNCHANGED <<peer, deleted>> \/ ConnRead(pBase.handler)
    BY <1>6, <2>4 DEF ServeRead, OnFDRead
  <2>6. CASE UNCHANGED <<peer, deleted>>
    BY <2>1, <2>2, <2>6
  <2>7. CASE ConnRead(pBase.handler) /\ peer[pBase.handler] = "finreset"
    BY <2>7 DEF ConnRead, CloseConn
  <2>8. CASE ConnRead(pBase.handler) /\ peer[pBase.handler] = "reset"
    <3>1. UNCHANGED deleted /\ peer' = [peer EXCEPT ![pBase.handler] = "reset"]
      BY <2>8 DEF ConnRead, OnProcess
    <3>2. UNCHANGED peer
      BY <1>0, <2>8, <3>1
    <3> QED BY <2>1, <2>2, <3>1, <3>2
  <2> QED BY <2>3, <2>5, <2>6, <2>7, <2>8
<1>7. CASE ServeWrite
  BY <1>7 DEF ServeWrite, OnFDWrite, FifoDone, Serving
<1>8. CASE ServeError
  BY <1>8 DEF ServeError, GoTo, Serving
<1> QED BY <1>1, <1>2, <1>3, <1>4, <1>5, <1>6, <1>7, <1>8, StepCases

-----------------------------------------------------------------------------
(* Safety.                                                                 *)

(* At first only the listening socket and the FIFO are there.              *)
LEMMA InitOK == Init => IInv /\ GoneHadEnded
<1> SUFFICES ASSUME Init PROVE IInv /\ GoneHadEnded
  OBVIOUS
<1>1. /\ InStep(NoHandlers) /\ DOMAIN NoHandlers.epoll = {} /\ DOMAIN NoHandlers.map = {}
  BY DEF InStep, NoHandlers
<1>2. /\ "server" \in Handlers /\ "IN" \in Kinds
      /\ reg = RegisterEvent(NoHandlers, "server", ListenFd, "IN")
  BY DEF Init, Handlers, Kinds
<1>3. /\ InStep(reg) /\ DOMAIN reg.epoll \subseteq {ListenFd}
      /\ ListenFd \in DOMAIN reg.map =>
           reg.map[ListenFd] = [type |-> TypeOf(NoHandlers, ListenFd) \cup {"IN"}, handler |-> "server"]
  <2> DEFINE n == reg
  <2>1. n = RegisterEvent(NoHandlers, "server", ListenFd, "IN")
    BY <1>2
  <2> HIDE DEF n
  <2>2. /\ InStep(n) /\ DOMAIN n.epoll \subseteq DOMAIN NoHandlers.epoll \cup {ListenFd}
        /\ ListenFd \in DOMAIN n.map =>
             \/ ListenFd \in DOMAIN NoHandlers.map /\ n.map[ListenFd] = NoHandlers.map[ListenFd]
             \/ n.map[ListenFd] = [type |-> TypeOf(NoHandlers, ListenFd) \cup {"IN"},
                                   handler |-> "server"]
    BY <1>1, <1>2, <2>1, RegisterInStep
  <2> QED BY <1>1, <2>2 DEF n
<1>4. TypeOf(NoHandlers, ListenFd) = {}
  BY <1>1 DEF TypeOf, Has
<1>5. SocketsOK
  BY Names DEF Init, SocketsOK, SocketTypes, OneDescriptor, OpenIsAlive, States
<1>6. sock[ListenFd] = SocketOf("server")
  BY Names DEF Init, SocketOf
<1>7. HandlersOK
  BY <1>3, <1>4, <1>6, Names DEF HandlersOK, InStep
<1>8. BatchOK
  BY DEF Init, BatchOK, Unseen
<1>9. ServedOK /\ GoneHadEnded
  BY DEF Init, ServedOK, GoneHadEnded, Serving
<1> QED BY <1>5, <1>7, <1>8, <1>9 DEF IInv

(* The invariant of the sockets, their handlers and the batch.             *)
THEOREM Invariance == Spec => []IInv
<1>1. IInv /\ [Next]_vars => IInv'
  BY WorldStep, BatchStep, ServedStep DEF IInv, World
<1> QED BY <1>1, InitOK, PTL DEF Spec

(* reactor.cpp:108-193: m_fdmap says what epoll was asked for.             *)
THEOREM InterestTheorem == Spec => []MapIsInterest
<1>1. IInv => MapIsInterest
  BY DEF IInv, HandlersOK, InStep, MapIsInterest, Has
<1> QED BY <1>1, Invariance, PTL

(* A handler in the map has its socket, and so was not deleted.            *)
LEMMA AllAlive == IInv => HandlersAreAlive
<1> SUFFICES ASSUME IInv, NEW fd \in DOMAIN reg.map
             PROVE  /\ reg.map[fd].handler \notin deleted
                    /\ sock[fd] = SocketOf(reg.map[fd].handler)
  BY DEF HandlersAreAlive, SocketOf
<1>1. /\ fd \in AllFds /\ reg.map[fd].handler \in Handlers
      /\ sock[fd] = SocketOf(reg.map[fd].handler)
  BY DEF IInv, HandlersOK, InStep
<1> QED BY <1>1, Names DEF IInv, SocketsOK, SocketTypes, OpenIsAlive

(* tcp_test.cpp:4: whatever the peers do, a handler in the set belongs to  *)
(* the socket its descriptor is now.                                       *)
THEOREM AliveTheorem == Spec => []HandlersAreAlive
  BY AllAlive, Invariance, PTL

(* reactor.cpp:66-82: whatever the peers do, the loop asks no handler that *)
(* is not of the socket its event was reported for, and one that deleted   *)
(* itself only about the error of a peer that had ended its stream.        *)
THEOREM NoStaleTheorem == Spec => []NoStaleHandler
<1>1. ASSUME IInv, GoneHadEnded PROVE ServesItsOwn
  <2>1. ServedOK /\ deleted \subseteq Conns
    BY <1>1 DEF IInv, SocketsOK, SocketTypes
  <2>2. pc = "write" /\ "OUT" \in Event.mask => pBase.handler \notin deleted
    BY <2>1, Names DEF ServedOK, Serving
  <2>3. ASSUME pc = "err", "ERR" \in Event.mask
        PROVE  \/ pBase.handler \in deleted /\ peer[pBase.handler] = "finreset"
               \/ sock[Event.fd] = pBase.handler /\ peer[pBase.handler] \in {"reset", "finreset"}
    BY <1>1, <2>1, <2>3 DEF ServedOK, Serving, WasReset, GoneHadEnded
  <2> QED BY <2>2, <2>3 DEF ServesItsOwn
<1>2. IInv /\ GoneHadEnded /\ [Next]_vars => GoneHadEnded'
  BY GoneStep
<1>3. IInv /\ GoneHadEnded => NoStaleHandler
  BY <1>1, AllAlive DEF NoStaleHandler
<1> QED BY <1>2, <1>3, InitOK, Invariance, PTL DEF Spec
=============================================================================
