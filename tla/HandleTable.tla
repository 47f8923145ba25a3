---------------------------- MODULE HandleTable ----------------------------
(***************************************************************************)
(* What the credential cache server expects of a handle map, stated        *)
(* without slots, cursors or growth: a partial function from live handles  *)
(* to contents.  The handlers of procs.cxx use it in a fixed way: create a *)
(* handle, store the server object under it, look it up on later calls and *)
(* close it.  HandleMap implements this module.                            *)
(***************************************************************************)
EXTENDS Naturals

CONSTANTS
  Handle,       \* the values a handle may have
  Content       \* what a slot may hold, uninitialised storage included

VARIABLES
  live,         \* [live handles -> content]
  reply         \* outcome of the last call

vars == <<live, reply>>

Failure == { "HE_NO_MEM", "HE_MAX_SIZE" }

NoReply == [op |-> "none", err |-> "HE_NOERROR"]

Init ==
  /\ live = [h \in {} |-> {}]
  /\ reply = NoReply

Fail(op) ==
  /\ \E e \in Failure : reply' = [op |-> op, err |-> e]
  /\ UNCHANGED live

(* A new handle is one that no caller holds, whatever was closed before.   *)
Open ==
  \/ \E h \in Handle \ DOMAIN live, c \in Content :
       /\ live' = [g \in DOMAIN live \cup {h} |-> IF g = h THEN c ELSE live[g]]
       /\ reply' = [op |-> "create", err |-> "HE_NOERROR", handle |-> h]
  \/ Fail("create")

NotFound(op, h) ==
  /\ h \notin DOMAIN live
  /\ reply' = [op |-> op, err |-> "HE_NOT_FOUND"]
  /\ UNCHANGED live

Close(h) ==
  \/ /\ h \in DOMAIN live
     /\ live' = [g \in DOMAIN live \ {h} |-> live[g]]
     /\ reply' = [op |-> "close", err |-> "HE_NOERROR", handle |-> h]
  \/ NotFound("close", h)
  \/ DOMAIN live = {} /\ Fail("close")

Store(h, c) ==
  \/ /\ h \in DOMAIN live
     /\ live' = [live EXCEPT ![h] = c]
     /\ reply' = [op |-> "store", err |-> "HE_NOERROR", handle |-> h]
  \/ NotFound("store", h)
  \/ DOMAIN live = {} /\ Fail("store")

Lookup(h) ==
  \/ /\ h \in DOMAIN live
     /\ reply' = [op |-> "lookup", err |-> "HE_NOERROR",
                  handle |-> h, value |-> live[h]]
     /\ UNCHANGED live
  \/ NotFound("lookup", h)
  \/ DOMAIN live = {} /\ Fail("lookup")

Next ==
  \/ Open
  \/ \E h \in Handle : Close(h) \/ Lookup(h)
  \/ \E h \in Handle, c \in Content : Store(h, c)

Spec == Init /\ [][Next]_vars
============================================================================
