---------------------------- MODULE AeFileEvents ----------------------------
(***************************************************************************)
(* The file-event half of the ae event loop (Clang/aio/ae/ae.c) on top of  *)
(* its epoll backend (ae_epoll.c): the table events[0..setsize-1], the     *)
(* highest registered descriptor maxfd and the interest set the kernel     *)
(* holds for the epoll descriptor.                                         *)
(*                                                                         *)
(* A mask is a set of kinds: AE_NONE is {}, AE_READABLE is "R" and         *)
(* AE_WRITABLE is "W".  Handlers and their clientData are model values.    *)
(***************************************************************************)
EXTENDS Integers

CONSTANTS
  SetSize,   (* setsize of aeCreateEventLoop: descriptors are 0..SetSize-1 *)
  Procs,     (* file handlers (aeFileProc)                                 *)
  Data,      (* clientData pointers                                        *)
  Unset      (* what zmalloc left in a pointer nobody has assigned yet     *)

ASSUME FileAssumption == SetSize \in Nat /\ Unset \notin Procs

VARIABLES
  events,    (* eventLoop->events: one record per descriptor               *)
  maxfd,     (* eventLoop->maxfd: highest registered descriptor, or -1     *)
  interest   (* the kernel's epoll set: {} when the fd is not in it        *)

fileVars == <<events, maxfd, interest>>

Fd    == 0 .. SetSize - 1
Kinds == {"R", "W"}

aeFileEvent == [mask : SUBSET Kinds, rfileProc : Procs \cup {Unset},
                wfileProc : Procs \cup {Unset}, clientData : Data \cup {Unset}]

Registered(fd) == events[fd].mask # {}

-----------------------------------------------------------------------------

(* Only the masks are initialised.                                         *)
FileInit ==
  /\ events = [fd \in Fd |-> [mask |-> {}, rfileProc |-> Unset,
                              wfileProc |-> Unset, clientData |-> Unset]]
  /\ maxfd = -1
  /\ interest = [fd \in Fd |-> {}]

(* epoll_ctl: ADD needs a descriptor that is not in the set, MOD one that  *)
(* is; either may be refused for reasons of the kernel's own.              *)
EpollCtl(op, fd, m) ==
  /\ (op = "ADD") <=> (interest[fd] = {})
  /\ interest' = [interest EXCEPT ![fd] = m]

\* Mutant: the kinds already monitored are not merged into the MOD.
aeApiAddEvent_NoMerge(fd, m) ==
  EpollCtl(IF Registered(fd) THEN "MOD" ELSE "ADD", fd, m)

(* The old mask is merged into what is asked of the kernel.                *)
aeApiAddEvent(fd, m) ==
  EpollCtl(IF Registered(fd) THEN "MOD" ELSE "ADD", fd, events[fd].mask \cup m)

(* aeCreateFileEvent: AE_ERR leaves everything as it was (ERANGE, or the   *)
(* kernel refused); otherwise the mask grows, the handler of each kind of  *)
(* m and the clientData the two kinds share are replaced.                  *)
aeCreateFileEvent(fd, m, proc, d) ==
  \/ UNCHANGED fileVars
  \/ /\ fd \in Fd
     /\ aeApiAddEvent(fd, m)
     /\ events' = [events EXCEPT ![fd] =
          [mask       |-> @.mask \cup m,
           rfileProc  |-> IF "R" \in m THEN proc ELSE @.rfileProc,
           wfileProc  |-> IF "W" \in m THEN proc ELSE @.wfileProc,
           clientData |-> d]]
     /\ maxfd' = IF fd > maxfd THEN fd ELSE maxfd

(* aeApiDelEvent runs after the mask was reduced to left: MOD when         *)
(* something is left, DEL otherwise.                                       *)
aeApiDelEvent(fd, left) == interest' = [interest EXCEPT ![fd] = left]

\* Mutant: the downward scan takes the next lower descriptor unseen.
UpdateMaxfd_NoScan(fd, left) ==
  maxfd' = IF fd = maxfd /\ left = {} THEN maxfd - 1 ELSE maxfd

(* The downward scan for the next registered descriptor, which ends at -1. *)
UpdateMaxfd(fd, left) ==
  IF fd = maxfd /\ left = {}
  THEN \E j \in -1 .. maxfd - 1 :
         /\ j # -1 => Registered(j)
         /\ \A k \in j + 1 .. maxfd - 1 : ~Registered(k)
         /\ maxfd' = j
  ELSE UNCHANGED maxfd

aeDeleteFileEvent(fd, m) ==
  IF fd \notin Fd \/ (fd \in Fd /\ ~Registered(fd))
  THEN UNCHANGED fileVars
  ELSE LET left == events[fd].mask \ m IN
       /\ events' = [events EXCEPT ![fd].mask = left]
       /\ UpdateMaxfd(fd, left)
       /\ aeApiDelEvent(fd, left)

-----------------------------------------------------------------------------

FileTypeOK ==
  /\ events \in [Fd -> aeFileEvent]
  /\ maxfd \in Fd \cup {-1}
  /\ interest \in [Fd -> SUBSET Kinds]

(* ae.c:113,130-138: maxfd decides whether aeProcessEvents polls at all    *)
(* (ae.c:332), so it must be the highest registered descriptor, and -1     *)
(* exactly when nothing is registered, after any sequence of creations and *)
(* deletions.                                                              *)
MaxfdIsHighest ==
  /\ maxfd = -1 \/ Registered(maxfd)
  /\ \A fd \in Fd : Registered(fd) => fd <= maxfd

(* ae_epoll.c:66-101: what the kernel watches is what the table says, so   *)
(* that no registered handler sleeps through its event and epoll_wait does *)
(* not report a kind nobody handles; ADD and MOD are chosen from the mask  *)
(* alone, and this is what makes the choice right.                         *)
InterestIsMask == \A fd \in Fd : interest[fd] = events[fd].mask

(* ae.c:371-388: the handler pointers are garbage until the first creation *)
(* for their kind; aeProcessEvents may call through one only because a     *)
(* kind in the mask implies that its pointer was assigned.                 *)
HandlersAssigned ==
  \A fd \in Fd : /\ "R" \in events[fd].mask => events[fd].rfileProc \in Procs
                 /\ "W" \in events[fd].mask => events[fd].wfileProc \in Procs

FileInv == FileTypeOK /\ MaxfdIsHighest /\ InterestIsMask /\ HandlersAssigned
=============================================================================
