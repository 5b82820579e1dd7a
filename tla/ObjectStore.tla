----------------------------- MODULE ObjectStore ----------------------------
(***************************************************************************)
(* What a user of Connection in src/python/http/client.py may rely on.  A  *)
(* call acts on the store at one or several moments between its start and  *)
(* its end.  A call that returns has acted, and returns what it met; of a  *)
(* call that raises nothing is said.  A listing is not of one moment: it   *)
(* has each entry that was there all the time, once and in order, and none *)
(* that never was.                                                         *)
(***************************************************************************)
EXTENDS Naturals, Sequences, SequencesExt

CONSTANTS
  Names,           \* of objects; numbers, in the order of a listing
  Wanted(_),       \* what a put is to store
  EntryOf(_, _),   \* the entry of a call's listing that a name is shown in
  None, Ok

VARIABLES
  store,   \* of each name, the contents or None
  call,    \* the call under way, or None
  met,     \* the answers that were right when the call acted
  steady,  \* the entries that were there since the call began
  ever,    \* those that were there at some time since
  result   \* what the last call returned; None if it raised

storeVars == <<store, call, met, steady, ever, result>>

\* What a call that reads can find.
Entries(c, s) == {EntryOf(c, n) : n \in {m \in Names : c.op \in {"list", "get"} /\ s[m] # None}}
Ordered(l) == \A i, j \in DOMAIN l : i < j => l[i] < l[j]

\* What acting once does to a store, and what it then answers.
Stored(c, s) == CASE c.op = "put" -> [s EXCEPT ![c.name] = Wanted(c)]
                  [] c.op = "delete" -> [s EXCEPT ![c.name] = None]
                  [] OTHER -> s
Answer(c, s) == IF c.op = "get" THEN s[c.name] ELSE Ok
Possible(c, s) == c.op \in {"get", "delete"} => s[c.name] # None

Changes(s) ==
  /\ store' = s
  /\ IF call = None THEN UNCHANGED <<steady, ever>>
     ELSE steady' = steady \cap Entries(call, s) /\ ever' = ever \cup Entries(call, s)

StoreInit == store \in [Names -> {None}] /\ call = None /\ met = {} /\ steady = {} /\ ever = {} /\ result = None
Begin ==
  /\ call = None /\ call' # None
  /\ met' = {} /\ result' = None
  /\ steady' = Entries(call', store) /\ ever' = Entries(call', store)
  /\ UNCHANGED store
Act ==
  /\ call # None /\ Possible(call, store)
  /\ Changes(Stored(call, store))
  /\ met' = met \cup {Answer(call, store)}
  /\ UNCHANGED <<call, result>>
End == call # None /\ call' = None /\ met' = {} /\ steady' = {} /\ ever' = {} /\ UNCHANGED store
Return ==
  /\ End /\ result' # None
  /\ IF call.op = "list" THEN Ordered(result') /\ steady \subseteq ToSet(result') /\ ToSet(result') \subseteq ever
     ELSE result' \in met
Raise == End /\ result' = None
\* Somebody else puts or deletes an object.
Others ==
  /\ \E n \in Names : \A m \in Names \ {n} : store'[m] = store[m]
  /\ Changes(store')
  /\ UNCHANGED <<call, met, result>>

StoreNext == Begin \/ Act \/ Return \/ Raise \/ Others
StoreSpec == StoreInit /\ [][StoreNext]_storeVars
=============================================================================
