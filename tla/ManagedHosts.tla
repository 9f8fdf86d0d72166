---------------------------- MODULE ManagedHosts ----------------------------
(***************************************************************************)
(* What the tool promises about the Zabbix hosts it manages, whatever       *)
(* deployments, runs, orders, crashes and refused calls there are:          *)
(*                                                                         *)
(*   - a host it creates is linked to its source, or its run ended first    *)
(*     and the host is lost: no host is forgotten in any other way;         *)
(*   - a source is linked only while it has no link, and keeps its link     *)
(*     for as long as the host exists;                                      *)
(*   - it deletes a host only while some source is linked to it, or when    *)
(*     the host is one of the lost ones; a host that people created, or     *)
(*     that no source is linked to any more, is deleted by people alone.    *)
(*                                                                         *)
(* How sources, tags, calls and readings bring this about is the matter of  *)
(* SyncLifecycle, which implements this specification.                      *)
(***************************************************************************)
CONSTANTS Sources, Hosts, NoHost

VARIABLES
    link,     \* of a source: the host its custom field names
    host,     \* of a host: handed out, existing, deleted
    making,   \* the hosts created for a source that its link does not name yet
    lost,     \* hosts whose run ended before the link was saved
    byHand    \* hosts deleted by people

vars == <<link, host, making, lost, byHand>>

Init ==
    /\ link = [s \in Sources |-> NoHost]
    /\ host = [h \in Hosts |-> "unused"]
    /\ making = {} /\ lost = {} /\ byHand = {}

Becomes(h, old, new) == host[h] = old /\ host' = [host EXCEPT ![h] = new]

\* A new host for a source without one.
Create(s, h) ==
    /\ link[s] = NoHost
    /\ Becomes(h, "unused", "live")
    /\ making' = making \cup {<<s, h>>}
    /\ UNCHANGED <<link, lost, byHand>>

\* Its id reaches NetBox ...
Keep(s, h) ==
    /\ <<s, h>> \in making
    /\ link[s] = NoHost
    /\ link' = [link EXCEPT ![s] = h]
    /\ making' = making \ {<<s, h>>}
    /\ UNCHANGED <<host, lost, byHand>>

\* ... or never does.
Lose(s, h) ==
    /\ <<s, h>> \in making
    /\ making' = making \ {<<s, h>>}
    /\ lost' = lost \cup {h}
    /\ UNCHANGED <<link, host, byHand>>

\* A host found in Zabbix is taken over; it may be deleted while its link is saved.
Adopt(s, h) ==
    /\ link[s] = NoHost
    /\ host[h] # "unused"
    /\ link' = [link EXCEPT ![s] = h]
    /\ UNCHANGED <<host, making, lost, byHand>>

Delete(h) ==
    /\ h \in lost \/ \E s \in Sources : link[s] = h
    /\ Becomes(h, "live", "gone")
    /\ UNCHANGED <<link, making, lost, byHand>>

\* The link is emptied after the host is gone.
Unlink(s) ==
    /\ link[s] \in Hosts /\ host[link[s]] = "gone"
    /\ link' = [link EXCEPT ![s] = NoHost]
    /\ UNCHANGED <<host, making, lost, byHand>>

HandCreate(h) ==
    /\ Becomes(h, "unused", "live")
    /\ UNCHANGED <<link, making, lost, byHand>>

HandDelete(h) ==
    /\ Becomes(h, "live", "gone")
    /\ byHand' = byHand \cup {h}
    /\ UNCHANGED <<link, making, lost>>

Next ==
    \/ \E s \in Sources, h \in Hosts : Create(s, h) \/ Keep(s, h) \/ Lose(s, h) \/ Adopt(s, h)
    \/ \E s \in Sources : Unlink(s)
    \/ \E h \in Hosts : Delete(h) \/ HandCreate(h) \/ HandDelete(h)

Spec == Init /\ [][Next]_vars
=============================================================================
