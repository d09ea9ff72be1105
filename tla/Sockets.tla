------------------------------- MODULE Sockets -------------------------------
(***************************************************************************)
(* socket-programming: a TCP server that forks, two UDP echo servers, one  *)
(* of which does not block, the talker that writes to them, and showip.    *)
(***************************************************************************)
EXTENDS Threads

CONSTANTS Addresses,   \* what getaddrinfo gives for the port or the host
          Visitors,    \* connections to the TCP server, talkers of the UDP ones
          Long,        \* bytes of the longest message
          MaxBufLen    \* bytes of the buffer of an echoer (100)

Parent == 0
Visitor == 1 .. Visitors

\* A server gets its addresses and binds the first that it can; with none it
\* exits.  What it could not bind it has closed.
Exits(t) == Goes(t, at[t], "exited", mem)
getAddrInfo(t) == Goes(t, "start", "bind", [mem EXCEPT !.addr = 1])
                  \/ (at[t] = "start" /\ Exits(t))
bindSocket(t, to) ==
  \/ /\ mem.addr <= Addresses
     /\ \/ Goes(t, "bind", to, [mem EXCEPT !.open = @ + 1])
        \/ Goes(t, "bind", "bind", [mem EXCEPT !.addr = @ + 1])
  \/ mem.addr > Addresses /\ at[t] = "bind" /\ Exits(t)
-----------------------------------------------------------------------------
(* hellod.cpp.  open counts the parent's sockets; a child that has ended is*)
(* a zombie until the parent's handler of SIGCHLD has waited for it.       *)
HelloInit ==
  /\ demo = "hellod"
  /\ at = [t \in {Parent} \cup Visitor |-> IF t = Parent THEN "start" ELSE "idle"]
  /\ mem = Joined(Std, [addr |-> 0, open |-> 0, backlog |-> {}, fd |-> Nobody,
                        forked |-> {}, zombies |-> {}, sigchld |-> FALSE,
                        handling |-> FALSE, greeted |-> {}, dropped |-> {}])

\* setsockopt, listen and sigaction exit at a failure.
helloServer ==
  \/ getAddrInfo(Parent)
  \/ bindSocket(Parent, "listen")
  \/ at[Parent] \in {"bind", "listen"} /\ Exits(Parent)
  \/ Goes(Parent, "listen", "accept", mem)

\* A fork that fails is not told from the parent's side of one that works: the
\* client finds its connection closed.
service ==
  \/ \E v \in mem.backlog :
       Goes(Parent, "accept", "fork",
            [mem EXCEPT !.backlog = @ \ {v}, !.fd = v, !.open = @ + 1])
  \/ /\ at[Parent] = "fork"
     /\ at' = [at EXCEPT ![Parent] = "close", ![mem.fd] = "child"]
     /\ mem' = [mem EXCEPT !.forked = @ \cup {mem.fd}]
     /\ UNCHANGED demo
  \/ Goes(Parent, "fork", "close", [mem EXCEPT !.dropped = @ \cup {mem.fd}])
  \/ Goes(Parent, "close", "accept", [mem EXCEPT !.fd = Nobody, !.open = @ - 1])

child(v) ==
  \/ Goes(v, "child", "exit", [mem EXCEPT !.greeted = @ \cup {v}])
  \/ Goes(v, "child", "exit", [mem EXCEPT !.dropped = @ \cup {v}])
  \/ Goes(v, "exit", "done", [mem EXCEPT !.zombies = @ \cup {v}, !.sigchld = TRUE])

\* A mutant: one call of waitpid for each signal.
sigchildHandlerOnce ==
  /\ mem.sigchld /\ ~mem.handling
  /\ mem' = [mem EXCEPT !.sigchld = FALSE,
                        !.zombies = IF @ = {} THEN {} ELSE @ \ {CHOOSE v \in @ : TRUE}]
  /\ UNCHANGED <<demo, at>>

\* Signals of the same kind do not queue: one call takes every child there is.
sigchildHandler ==
  \/ /\ mem.sigchld /\ ~mem.handling
     /\ mem' = [mem EXCEPT !.sigchld = FALSE, !.handling = TRUE]
     /\ UNCHANGED <<demo, at>>
  \/ /\ mem.handling
     /\ mem' = IF mem.zombies = {} THEN [mem EXCEPT !.handling = FALSE]
               ELSE [mem EXCEPT !.zombies = @ \ {CHOOSE v \in @ : TRUE}]
     /\ UNCHANGED <<demo, at>>

Connects(v) ==
  /\ demo = "hellod" /\ at[v] = "idle" /\ at[Parent] \in {"accept", "fork", "close"}
  /\ at' = [at EXCEPT ![v] = "waits"]
  /\ mem' = [mem EXCEPT !.backlog = @ \cup {v}]
  /\ UNCHANGED demo
-----------------------------------------------------------------------------
(* listener.cpp, nonblocking.cpp and talker.cpp.  A datagram is who sent it*)
(* and its length; it may be lost, or overtaken.                           *)
Echoers == {"listener", "nonblocking"}
UdpInit ==
  \E name \in Echoers : Calls(name, {Parent} \cup Visitor,
    [addr |-> 0, open |-> 0, wire |-> {}, inbox |-> <<>>, sent |-> <<>>,
     replies |-> {}, got |-> Nobody])

\* The address is used after freeaddrinfo: the datagram goes where it should,
\* elsewhere, or nowhere.
Talker(v) ==
  \/ at[v] = "start" /\ Exits(v)
  \/ \E n \in {1, Long} :
       \/ Goes(v, "start", "done", [mem EXCEPT !.wire = @ \cup {[from |-> v, size |-> n]}])
       \/ Goes(v, "start", "done", mem)

\* recvfrom cuts a datagram to the buffer, less the zero that ends a string.
Cut(d) == [d EXCEPT !.size = Min({@, MaxBufLen - 1})]

echoerService ==
  \/ /\ mem.inbox # <<>>
     /\ Goes(Parent, "receive", "reply",
             [mem EXCEPT !.got = Cut(Head(mem.inbox)), !.inbox = Tail(@)])
  \/ at[Parent] \in {"receive", "reply"} /\ Exits(Parent)
  \/ Goes(Parent, "reply", "receive",
          [mem EXCEPT !.replies = @ \cup {mem.got}, !.got = Nobody])

nonblockingService ==
  \/ echoerService
  \/ mem.inbox = <<>> /\ Goes(Parent, "receive", "sleep", mem)
  \/ Goes(Parent, "sleep", "receive", mem)

Network ==
  /\ demo \in Echoers
  /\ \E d \in mem.wire :
       mem' \in {[mem EXCEPT !.wire = @ \ {d}],
                 [mem EXCEPT !.wire = @ \ {d}, !.inbox = Append(@, d)]}
  /\ UNCHANGED <<demo, at>>
-----------------------------------------------------------------------------
(* showip.cpp                                                              *)
ShowInit == Calls("showip", {Parent}, [addr |-> 0, printed |-> <<>>])
showip ==
  \/ getAddrInfo(Parent)
  \/ /\ mem.addr <= Addresses
     /\ \E ipver \in {"IPv4", "IPv6"} :
          Goes(Parent, "bind", "bind", [mem EXCEPT !.addr = @ + 1,
                                                   !.printed = Append(@, ipver)])
  \/ mem.addr > Addresses /\ Goes(Parent, "bind", "done", mem)

SocketStep(t) ==
  \/ /\ demo = "hellod"
     /\ \/ t = Parent /\ ~mem.handling /\ (helloServer \/ service)
        \/ t = Parent /\ sigchildHandler
        \/ t \in Visitor /\ child(t)
  \/ /\ demo \in Echoers
     /\ \/ t = Parent /\ (getAddrInfo(t) \/ bindSocket(t, "receive"))
        \/ t = Parent /\ demo = "listener" /\ echoerService
        \/ t = Parent /\ demo = "nonblocking" /\ nonblockingService
        \/ t \in Visitor /\ Talker(t)
  \/ demo = "showip" /\ showip
-----------------------------------------------------------------------------
\* Of hellod: a child that has ended is never forgotten, the parent keeps no
\* socket but its own and the one it has just accepted, and whoever it has
\* greeted had a child for itself.
Reaped ==
  demo = "hellod" =>
    /\ mem.zombies # {} => mem.sigchld \/ mem.handling
    /\ mem.open = Cardinality({p \in {"listen", "accept", "fork", "close"} :
                                at[Parent] = p})
                  + Cardinality({p \in {"fork", "close"} : at[Parent] = p})
       \/ at[Parent] = "exited"
    /\ mem.greeted \subseteq mem.forked
=============================================================================
