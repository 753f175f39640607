------------------------------ MODULE Smartid ------------------------------
(***************************************************************************)
(* The smartid daemon: start and stop (smartid_main.c, smartid_server.c),  *)
(* the connection table (smartid_conn.c) and the command handlers          *)
(* (SmartidCmd).  The daemon is one thread running a libevent loop, so     *)
(* each callback is one action; clients, the dive computers and SIGTERM    *)
(* interleave with the callbacks in any order.                             *)
(***************************************************************************)
EXTENDS SmartidCmd

CONSTANTS
  Conns,      \* heap blocks that can hold a smarti_conn_t
  ListHead,   \* g_conn_head, the sentinel of the connection list
  NULL,
  Fds,        \* descriptors the process may have open (RLIMIT_NOFILE)
  SentLines,  \* command lines clients send
  MaxLines,   \* bound: lines of one client not yet handled
  MaxOut      \* bound: a client waits once this many reply lines are unsent

ASSUME ConnsAssumption == ListHead \notin Conns /\ NULL \notin Conns /\ ListHead # NULL

ASSUME FdsAssumption == Fds \subseteq Nat /\ NULL \notin Fds

ASSUME LinesAssumption ==
  SentLines \subseteq Lines /\ MaxLines \in Nat \ {0} /\ MaxOut \in Nat

VARIABLES
  daemon,   \* phase of the process, or how it ended
  stop,     \* smartid_stop has asked the loop to exit
  evbase,   \* g_evloop: NULL, the live base, or a dangling pointer
  evconn,   \* g_evt_connect: likewise
  lfd,      \* listenfd
  list,     \* next and prev pointers of the connection list
  live,     \* connections allocated and not yet freed
  netfd,    \* net_fd of each connection
  irdafd,   \* the descriptor of its IrDA socket
  open,     \* descriptors open in the process
  sess,     \* device handle and IrDA link of each connection
  wire,     \* lines sent by the client that libevent has not read
  input,    \* lines in the bufferevent's input buffer
  out,      \* reply lines flushed to the bufferevent, not yet written
  peer      \* the client's end: "up", "gone" (closed), "reset"

connVars == <<list, live, netfd, irdafd, sess, wire, input, out, peer>>
procVars == <<stop, evbase, evconn, lfd>>
vars == <<daemon, procVars, connVars, open>>

Dead == {"segv", "abort", "sigpipe"}
Phases == {"boot", "init", "start", "run", "cleanup", "exited", "hung"} \cup Dead

NoFd == NULL

(* The kernel hands out the lowest descriptor that is free.                *)
LowestFree(fd, used) == fd \in Fds \ used /\ \A g \in Fds \ used : fd <= g

-----------------------------------------------------------------------------
(* The connection list: doubly linked, with a sentinel.  A free block's    *)
(* pointers are NULL, as the memset of the next allocation makes them.     *)

EmptyList == [next |-> [p \in Conns \cup {ListHead} |-> NULL],
              prev |-> [p \in Conns |-> NULL]]

(* Variant: the old first connection does not learn its new predecessor.   *)
AddWithoutBackLink(l, c) ==
  [next |-> [l.next EXCEPT ![c] = l.next[ListHead], ![ListHead] = c],
   prev |-> [l.prev EXCEPT ![c] = ListHead]]

conn_add(l, c) ==
  LET first == l.next[ListHead] IN
  [next |-> [l.next EXCEPT ![c] = first, ![ListHead] = c],
   prev |-> [p \in Conns |-> IF p = c THEN ListHead
                             ELSE IF p = first THEN c ELSE l.prev[p]]]

(* The block's pointers once it is freed.                                  *)
Forget(l, c) == [next |-> [l.next EXCEPT ![c] = NULL],
                 prev |-> [l.prev EXCEPT ![c] = NULL]]

(* Variant: the successor is lost (c->prev->next = 0).                     *)
UnlinkDropsTail(l, c) ==
  Forget([l EXCEPT !.next = [l.next EXCEPT ![l.prev[c]] = NULL]], c)

(* Variant: the two pointers are mixed up (c->prev->next = c->prev).       *)
UnlinkSwapped(l, c) ==
  Forget([l EXCEPT !.next = [l.next EXCEPT ![l.prev[c]] = l.prev[c]]], c)

(* The first part of smartid_conn_dispose, its two consistency checks      *)
(* ("Bug: Socket list is inconsistent") included.                          *)
Unlink(l, c) ==
  LET before == l.prev[c]
      after  == l.next[c]
      next1  == IF l.next[before] = c THEN [l.next EXCEPT ![before] = after] ELSE l.next
      prev1  == IF after # NULL /\ l.prev[after] = c
                THEN [l.prev EXCEPT ![after] = before] ELSE l.prev
  IN Forget([next |-> next1, prev |-> prev1], c)

(* Variant: the IrDA socket of a disposed connection stays open.           *)
DisposeLeaksIrda(c) ==
  /\ list' = Unlink(list, c)
  /\ live' = live \ {c}
  /\ open' = open \ {netfd[c]}
  /\ netfd' = [netfd EXCEPT ![c] = NoFd]
  /\ irdafd' = [irdafd EXCEPT ![c] = NoFd]
  /\ sess' = [sess EXCEPT ![c] = NewSession]
  /\ wire' = [wire EXCEPT ![c] = <<>>]
  /\ input' = [input EXCEPT ![c] = <<>>]
  /\ out' = [out EXCEPT ![c] = <<>>]
  /\ peer' = [peer EXCEPT ![c] = "up"]

(* Unlink, free the device handle and both buffers (what they hold is      *)
(* lost), close the IrDA socket and the client socket, free the block.     *)
smartid_conn_dispose(c) ==
  /\ list' = Unlink(list, c)
  /\ live' = live \ {c}
  /\ open' = open \ {netfd[c], irdafd[c]}
  /\ netfd' = [netfd EXCEPT ![c] = NoFd]
  /\ irdafd' = [irdafd EXCEPT ![c] = NoFd]
  /\ sess' = [sess EXCEPT ![c] = NewSession]
  /\ wire' = [wire EXCEPT ![c] = <<>>]
  /\ input' = [input EXCEPT ![c] = <<>>]
  /\ out' = [out EXCEPT ![c] = <<>>]
  /\ peer' = [peer EXCEPT ![c] = "up"]

-----------------------------------------------------------------------------
(* Start and stop *)

Init ==
  /\ daemon = "boot" /\ stop = FALSE
  /\ evbase = "null" /\ evconn = "null" /\ lfd = NoFd
  /\ list = EmptyList /\ live = {}
  /\ netfd = [c \in Conns |-> NoFd] /\ irdafd = [c \in Conns |-> NoFd]
  /\ open = {}
  /\ sess = [c \in Conns |-> NewSession]
  /\ wire = [c \in Conns |-> <<>>] /\ input = [c \in Conns |-> <<>>]
  /\ out = [c \in Conns |-> <<>>] /\ peer = [c \in Conns |-> "up"]

smartid_init ==
  /\ daemon = "boot"
  /\ \/ daemon' = "init" /\ evbase' = "live"
     \/ daemon' = "exited" /\ UNCHANGED evbase
  /\ UNCHANGED <<stop, evconn, lfd, connVars, open>>

(* smartid_run: getaddrinfo() fails; no address can be bound, or one       *)
(* cannot be set up; or the listening socket is bound.                     *)
smartid_run ==
  /\ daemon = "init"
  /\ \/ daemon' \in {"exited", "cleanup"} /\ UNCHANGED <<lfd, open>>
     \/ \E fd \in Fds : /\ LowestFree(fd, open)
                         /\ daemon' = "start" /\ lfd' = fd /\ open' = open \cup {fd}
  /\ UNCHANGED <<stop, evbase, evconn, connVars>>

(* Every failure frees the base that smartid_cleanup will free again; a    *)
(* failing event_add frees the connection event as well.                   *)
smartid_start ==
  /\ daemon = "start"
  /\ \/ daemon' = "run" /\ evconn' = "live" /\ UNCHANGED <<evbase, open>>
     \/ /\ daemon' = "cleanup" /\ evbase' = "dangling"
        /\ evconn' \in {"null", "dangling"} /\ open' = open \ {lfd}
  /\ UNCHANGED <<stop, lfd, connVars>>

(* SIGTERM or SIGINT: smartid_stop asks the base, if there is one yet, to  *)
(* leave the loop.  The handler also runs while a callback blocks.         *)
smartid_stop ==
  /\ daemon \in {"init", "start", "run", "hung"}
  /\ stop' = TRUE
  /\ UNCHANGED <<daemon, evbase, evconn, lfd, connVars, open>>

(* Variant: the loop ends only once no connection is left.                 *)
LoopExitWhenIdle ==
  /\ daemon = "run" /\ stop /\ live = {}
  /\ daemon' = "cleanup"
  /\ UNCHANGED <<procVars, connVars, open>>

LoopExit ==
  /\ daemon = "run" /\ stop
  /\ daemon' = "cleanup"
  /\ UNCHANGED <<procVars, connVars, open>>

(* One turn of the loop in smartid_conn_cleanup.                           *)
smartid_conn_cleanup ==
  /\ daemon = "cleanup"
  /\ list.next[ListHead] # NULL
  /\ smartid_conn_dispose(list.next[ListHead])
  /\ UNCHANGED <<daemon, procVars>>

(* Variant: smartid_cleanup without the call of smartid_conn_cleanup.      *)
CleanupSkipsConns ==
  /\ daemon = "cleanup" /\ daemon' = "exited"
  /\ evbase' = "null" /\ evconn' = "null"
  /\ open' = open \ {lfd} /\ lfd' = NoFd
  /\ UNCHANGED <<stop, connVars>>

(* The rest of smartid_cleanup, then close(listenfd).  Freeing a dangling  *)
(* event or base is undefined: the process aborts, or goes on.             *)
smartid_cleanup ==
  /\ daemon = "cleanup"
  /\ list.next[ListHead] = NULL
  /\ \/ daemon' = "exited"
     \/ "dangling" \in {evbase, evconn} /\ daemon' = "abort"
  /\ evbase' = "null" /\ evconn' = "null"
  /\ open' = open \ {lfd} /\ lfd' = NoFd
  /\ UNCHANGED <<stop, connVars>>

-----------------------------------------------------------------------------
(* The listener: serv_connect and smartid_conn_alloc *)

Accepted(c, fd, ifd) ==
  /\ live' = live \cup {c}
  /\ open' = open \cup {fd, ifd}
  /\ netfd' = [netfd EXCEPT ![c] = fd]
  /\ irdafd' = [irdafd EXCEPT ![c] = ifd]
  /\ list' = conn_add(list, c)
  /\ out' = [out EXCEPT ![c] = <<Status(READY, "ready")>>]
  /\ UNCHANGED <<sess, wire, input, peer>>

(* All of it succeeds, or a libevent call fails once the connection is in  *)
(* the list: dispose takes it out and closes both descriptors, then        *)
(* serv_connect closes the client's again.                                 *)
serv_connect(c) ==
  /\ daemon = "run" /\ c \notin live
  /\ \E fd, ifd \in Fds :
       /\ LowestFree(fd, open) /\ LowestFree(ifd, open \cup {fd})
       /\ \/ Accepted(c, fd, ifd)
          \/ /\ list' = Unlink(conn_add(list, c), c)
             /\ open' = ((open \cup {fd, ifd}) \ {fd, ifd}) \ {fd}
             /\ UNCHANGED <<live, netfd, irdafd, sess, wire, input, out, peer>>
  /\ UNCHANGED <<daemon, procVars>>

(* irda_socket_open fails (no IrDA in the kernel, no descriptor left, no   *)
(* memory): smartid_conn_dispose follows prev, still NULL.                 *)
serv_connect_no_irda ==
  /\ daemon = "run"
  /\ live # Conns
  /\ \E fd \in Fds : LowestFree(fd, open) /\ open' = open \cup {fd}
  /\ daemon' = "segv"
  /\ UNCHANGED <<procVars, connVars>>

-----------------------------------------------------------------------------
(* The client's end *)

Pending(c) == Len(wire[c]) + Len(input[c])

ClientSend(c) ==
  /\ c \in live /\ peer[c] = "up"
  /\ Pending(c) < MaxLines /\ Len(out[c]) <= MaxOut
  /\ \E line \in SentLines : wire' = [wire EXCEPT ![c] = Append(@, line)]
  /\ UNCHANGED <<daemon, procVars, open, list, live, netfd, irdafd, sess, input, out, peer>>

ClientClose(c) ==
  /\ c \in live /\ peer[c] = "up"
  /\ peer' = [peer EXCEPT ![c] = "gone"]
  /\ UNCHANGED <<daemon, procVars, open, list, live, netfd, irdafd, sess, wire, input, out>>

-----------------------------------------------------------------------------
(* Callbacks of a connection's bufferevent *)

(* libevent moves the first k lines (0: part of the next one) into the     *)
(* input buffer and calls conn_read once, which takes at most ONE line.    *)
Handle(c, lines, line) ==
  \E o \in smartid_cmd_process(line, sess[c]) :
    /\ sess' = [sess EXCEPT ![c] = o.s]
    /\ out' = [out EXCEPT ![c] = @ \o o.replies]
    /\ input' = [input EXCEPT ![c] = Tail(lines)]
    /\ daemon' = IF o.fate = "run" THEN daemon ELSE o.fate

conn_read(c, k) ==
  LET lines == input[c] \o SubSeq(wire[c], 1, k) IN
  /\ daemon = "run" /\ c \in live
  /\ wire[c] # <<>> /\ k <= Len(wire[c]) /\ lines # <<>>
  /\ wire' = [wire EXCEPT ![c] = SubSeq(@, k + 1, Len(@))]
  /\ Handle(c, lines, lines[1])
  /\ UNCHANGED <<procVars, open, list, live, netfd, irdafd, peer>>

(* Variant: conn_event returns early on end of file.                       *)
EventIgnoresEof(c) ==
  \/ peer[c] = "reset"
  \/ peer[c] = "up" /\ wire[c] = <<>>

(* End of file after the last line, an error once the client has reset the *)
(* connection, or 300 s without data.                                      *)
EventFires(c) ==
  \/ peer[c] = "gone" /\ wire[c] = <<>>
  \/ peer[c] = "reset"
  \/ peer[c] = "up" /\ wire[c] = <<>>

conn_event(c) ==
  /\ daemon = "run" /\ c \in live
  /\ EventFires(c)
  /\ smartid_conn_dispose(c)
  /\ UNCHANGED <<daemon, procVars>>

(* libevent writes the output, perhaps only part of it.  Writing to a      *)
(* client that has closed makes it reset; writing after the reset raises   *)
(* SIGPIPE, which smartid_setup_signals leaves at its default.             *)
WriteOut(c) ==
  /\ daemon = "run" /\ c \in live /\ out[c] # <<>>
  /\ \/ /\ peer[c] # "reset"
        /\ \E rest \in {<<>>, Tail(out[c])} : out' = [out EXCEPT ![c] = rest]
        /\ peer' = [peer EXCEPT ![c] = IF @ = "gone" THEN "reset" ELSE @]
        /\ UNCHANGED daemon
     \/ /\ peer[c] = "reset"
        /\ daemon' = "sigpipe"
        /\ UNCHANGED <<out, peer>>
  /\ UNCHANGED <<procVars, open, list, live, netfd, irdafd, sess, wire, input>>

-----------------------------------------------------------------------------
Next ==
  \/ smartid_init \/ smartid_run \/ smartid_start \/ smartid_stop
  \/ LoopExit \/ smartid_conn_cleanup \/ smartid_cleanup
  \/ serv_connect_no_irda
  \/ \E c \in Conns : \/ serv_connect(c)
                      \/ ClientSend(c) \/ ClientClose(c)
                      \/ \E k \in 0..MaxLines : conn_read(c, k)
                      \/ conn_event(c) \/ WriteOut(c)

Spec == Init /\ [][Next]_vars

(* The event loop serves whatever is ready: a connection with unread lines *)
(* is read, one at end of file is closed, a requested exit is taken, and   *)
(* the code after the loop runs.  Clients and signals owe nothing.         *)
Fairness ==
  /\ WF_vars(LoopExit) /\ WF_vars(smartid_conn_cleanup) /\ WF_vars(smartid_cleanup)
  /\ WF_vars(smartid_init) /\ WF_vars(smartid_run) /\ WF_vars(smartid_start)
  /\ \A c \in Conns :
       /\ WF_vars(\E k \in 1..MaxLines : conn_read(c, k))
       /\ WF_vars(peer[c] # "up" /\ conn_event(c))

FairSpec == Spec /\ Fairness

-----------------------------------------------------------------------------
(* Correctness *)

(* The type of every variable.                                             *)
TypeOK ==
  /\ daemon \in Phases /\ stop \in BOOLEAN
  /\ evbase \in {"null", "live", "dangling"} /\ evconn \in {"null", "live", "dangling"}
  /\ lfd \in Fds \cup {NoFd}
  /\ list \in [next : [Conns \cup {ListHead} -> Conns \cup {NULL}],
               prev : [Conns -> Conns \cup {ListHead, NULL}]]
  /\ live \subseteq Conns /\ open \subseteq Fds
  /\ netfd \in [Conns -> Fds \cup {NoFd}] /\ irdafd \in [Conns -> Fds \cup {NoFd}]
  /\ sess \in [Conns -> Sessions]
  /\ wire \in [Conns -> Seq(Lines)] /\ input \in [Conns -> Seq(Lines)]
  /\ out \in [Conns -> Seq(Replies)]
  /\ peer \in [Conns -> {"up", "gone", "reset"}]

(* Every connection of L is the successor of its predecessor.              *)
BackLinks(l, L) ==
  \A c \in L : l.prev[c] \in L \cup {ListHead} /\ l.next[l.prev[c]] = c

(* Every successor is a connection of L that knows its predecessor.        *)
ForwardLinks(l, L) ==
  \A c \in L \cup {ListHead} :
    l.next[c] # NULL => l.next[c] \in L /\ l.prev[l.next[c]] = c

(* The connection list is consistent whenever the loop waits: neither      *)
(* "Bug: Socket list is inconsistent" branch of smartid_conn_dispose can   *)
(* ever be taken, and no pointer leads to a freed connection, whatever the *)
(* order in which connections are accepted, fail half way, and end.        *)
ListConsistent == BackLinks(list, live) /\ ForwardLinks(list, live)

(* S holds the first connection and, with each connection, the next one.   *)
ClosedFromHead(l, S) ==
  \A c \in S \cup {ListHead} : l.next[c] \in S \cup {NULL}

ReachesAll(l, L) == \A S \in SUBSET L : ClosedFromHead(l, S) => S = L

(* Following next from g_conn_head meets every live connection, so the     *)
(* loop of smartid_conn_cleanup leaves none behind.                        *)
ListReachesAll == ReachesAll(list, live)

(* The listening socket, while an event is bound to it.                    *)
Listener == IF evconn = "live" THEN {lfd} ELSE {}

(* While the loop runs, the open descriptors are the listener's and those  *)
(* of the live connections, all different: dispose and the failure paths   *)
(* of smartid_conn_alloc leak none and close nobody else's.                *)
FdOwnership ==
  daemon \in {"run", "cleanup"} =>
    /\ open = {netfd[c] : c \in live} \cup {irdafd[c] : c \in live} \cup Listener
    /\ \A c \in live : /\ netfd[c] # irdafd[c] /\ {netfd[c], irdafd[c]} \cap Listener = {}
                        /\ \A d \in live \ {c} :
                             {netfd[c], irdafd[c]} \cap {netfd[d], irdafd[d]} = {}

(* Every connection's session is settled whenever the loop waits, after    *)
(* any sequence of commands, failures and reopenings.                      *)
DeviceIsSettled == \A c \in Conns : Settled(sess[c])

(* No reply carries the device's answer to an earlier, abandoned command.  *)
NoLateAnswer ==
  \A c \in Conns : \A i \in 1..Len(out[c]) : out[c][i].val # "late"

(* A daemon that reached its end has closed every descriptor and freed     *)
(* every connection.                                                       *)
CleanExit == daemon = "exited" => live = {} /\ open = {}

(* The line conn_read hands over next.                                     *)
NextLine(c) == (input[c] \o wire[c])[1]

(* A client that waits for a reply line by line is only ever left waiting  *)
(* by a word smartid_cmd_process does not know or by an XFER whose data    *)
(* could not be encoded, and neither costs it the device: every other line *)
(* taken off a connection that stays has a reply.                          *)
OnlySilentLinesUnanswered ==
  [][\A c \in live \cap live' :
       daemon' = "run" /\ Pending(c)' < Pending(c) =>
         \/ Len(out[c]') > Len(out[c])
         \/ /\ ~Known(NextLine(c)) \/ NextLine(c).word = "xfer"
            /\ sess[c].dev' = sess[c].dev]_vars

(* smartid_cmd.h promises "sending a reply to the client" for every line.  *)
EveryLineAnswered ==
  [][\A c \in live \cap live' :
       daemon' = "run" /\ Pending(c)' < Pending(c) => Len(out[c]') > Len(out[c])]_vars

(* When a client goes away its connection, with the IrDA socket it holds,  *)
(* is released, unless the process itself ends or hangs.                   *)
ClientGoneReleases ==
  \A c \in Conns : (c \in live /\ peer[c] # "up")
                     ~> (c \notin live \/ daemon \in Dead \cup {"hung"})

(* A stop request ends the process, cleanly or not, unless a handler hangs. *)
StopEnds == stop ~> daemon \in Dead \cup {"exited", "hung"}

(* smartid_server.h: "the event loop can be exited by calling              *)
(* smartid_stop()".                                                        *)
StopExits == stop ~> daemon \in Dead \cup {"exited"}
=============================================================================
