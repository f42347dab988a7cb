---------------------------- MODULE IpcBroadcast ----------------------------
(***************************************************************************)
(* What the library promises, without processes, threads, sockets or       *)
(* slots: a publisher numbers its broadcasts, and a subscriber is brought  *)
(* from one to the next, starting behind the last one there was when it    *)
(* joined, getting none twice and missing none but those that the          *)
(* publisher knows to have failed, until it leaves.                        *)
(*                                                                         *)
(* IpcServer implements this with "brought to" meaning written to the      *)
(* client's socket, IpcSystem with it meaning stored in the data pool of   *)
(* the client process.                                                     *)
(***************************************************************************)
EXTENDS Naturals

CONSTANT Subscribers

VARIABLES
  published, \* how many broadcasts there have been
  failed,    \* those of them that may not have reached every subscriber
  member,    \* the subscribers of today
  last       \* the broadcast each of them is at

vars == <<published, failed, member, last>>

Init ==
  /\ published = 0 /\ failed = {}
  /\ member = {}
  /\ last = [s \in Subscribers |-> 0]

Publish ==
  /\ published' = published + 1
  /\ UNCHANGED <<failed, member, last>>

\* Only the last broadcast can fail, and before there is another one.
Fail ==
  /\ published # 0
  /\ failed' = failed \cup {published}
  /\ UNCHANGED <<published, member, last>>

Join(s) ==
  /\ s \notin member
  /\ member' = member \cup {s}
  /\ last' = [last EXCEPT ![s] = published]
  /\ UNCHANGED <<published, failed>>

Deliver(s) ==
  /\ s \in member
  /\ \E k \in last[s] + 1 .. published :
       /\ last[s] + 1 .. k - 1 \subseteq failed
       /\ last' = [last EXCEPT ![s] = k]
  /\ UNCHANGED <<published, failed, member>>

Leave(S) ==
  /\ S \subseteq member
  /\ member' = member \ S
  /\ last' = [s \in Subscribers |-> IF s \in S THEN 0 ELSE last[s]]
  /\ UNCHANGED <<published, failed>>

Next ==
  \/ Publish \/ Fail
  \/ \E s \in Subscribers : Join(s) \/ Deliver(s)
  \/ \E S \in SUBSET Subscribers : Leave(S)

Spec == Init /\ [][Next]_vars
=============================================================================
