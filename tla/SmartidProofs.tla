--------------------------- MODULE SmartidProofs ---------------------------
(***************************************************************************)
(* Proofs about the smartid daemon, for any number of connections,         *)
(* descriptors, tokens, devices and lines.  The connection list comes      *)
(* first: conn_add and the unlinking in smartid_conn_dispose keep the two  *)
(* chains of pointers inverse to each other and everything reachable.      *)
(***************************************************************************)
EXTENDS Smartid, SmartidCmdProofs

Lists == [next : [Conns \cup {ListHead} -> Conns \cup {NULL}],
          prev : [Conns -> Conns \cup {ListHead, NULL}]]

ListOK(l, L) == BackLinks(l, L) /\ ForwardLinks(l, L) /\ ReachesAll(l, L)

(* conn_add leaves the list well typed.                                    *)
LEMMA AddType ==
  ASSUME NEW l \in Lists, NEW c \in Conns
  PROVE  conn_add(l, c) \in Lists
  BY ConnsAssumption DEF conn_add, Lists

(* The unlinking in smartid_conn_dispose leaves the list well typed.       *)
LEMMA UnlinkType ==
  ASSUME NEW l \in Lists, NEW c \in Conns,
         l.prev[c] \in Conns \cup {ListHead}
  PROVE  Unlink(l, c) \in Lists
  <1> DEFINE before == l.prev[c]
             after  == l.next[c]
             next1  == IF l.next[before] = c THEN [l.next EXCEPT ![before] = after] ELSE l.next
             prev1  == IF after # NULL /\ l.prev[after] = c
                       THEN [l.prev EXCEPT ![after] = before] ELSE l.prev
  <1>1. after \in Conns \cup {NULL} BY DEF Lists
  <1>2. next1 \in [Conns \cup {ListHead} -> Conns \cup {NULL}] BY <1>1 DEF Lists
  <1>3. prev1 \in [Conns -> Conns \cup {ListHead, NULL}] BY <1>1 DEF Lists
  <1> HIDE DEF next1, prev1
  <1>4. Unlink(l, c) = [next |-> [next1 EXCEPT ![c] = NULL], prev |-> [prev1 EXCEPT ![c] = NULL]]
    BY DEF Unlink, Forget, next1, prev1
  <1> QED BY <1>2, <1>3, <1>4 DEF Lists

(* conn_add keeps the list consistent when the connection is new.          *)
LEMMA AddKeepsList ==
  ASSUME NEW l \in Lists, NEW L \in SUBSET Conns, NEW c \in Conns \ L, ListOK(l, L)
  PROVE  ListOK(conn_add(l, c), L \cup {c})
  <1> DEFINE first == l.next[ListHead]
             m     == conn_add(l, c)
  <1> USE ConnsAssumption
  <1>1. first \in L \cup {NULL} /\ (first # NULL => l.prev[first] = ListHead)
    BY DEF ListOK, ForwardLinks
  <1>2. /\ m.next[c] = first /\ m.next[ListHead] = c
        /\ \A d \in L : m.next[d] = l.next[d]
    BY DEF conn_add, Lists
  <1>3. /\ m.prev[c] = ListHead
        /\ \A d \in L : m.prev[d] = IF d = first THEN c ELSE l.prev[d]
    BY DEF conn_add, Lists
  <1> HIDE DEF m, first
  <1>4. BackLinks(m, L \cup {c})
    BY <1>1, <1>2, <1>3 DEF BackLinks, ListOK, ForwardLinks, first
  <1>5. ForwardLinks(m, L \cup {c})
    BY <1>1, <1>2, <1>3 DEF BackLinks, ListOK, ForwardLinks, first
  <1>6. ReachesAll(m, L \cup {c})
    <2> SUFFICES ASSUME NEW S \in SUBSET (L \cup {c}), ClosedFromHead(m, S)
                 PROVE  S = L \cup {c}
      BY DEF ReachesAll
    <2>1. c \in S BY <1>2 DEF ClosedFromHead
    <2>2. ClosedFromHead(l, S \ {c})
      <3>1. l.next[ListHead] \in (S \ {c}) \cup {NULL}
        BY <1>1, <1>2, <2>1 DEF ClosedFromHead, first
      <3>2. \A d \in S \ {c} : l.next[d] \in (S \ {c}) \cup {NULL}
        BY <1>2 DEF ClosedFromHead, ListOK, ForwardLinks
      <3> QED BY <3>1, <3>2 DEF ClosedFromHead
    <2>3. S \ {c} = L BY <2>2 DEF ListOK, ReachesAll
    <2> QED BY <2>1, <2>3
  <1> QED BY <1>4, <1>5, <1>6 DEF ListOK, m

(* No connection of a consistent list is its own neighbour.                *)
LEMMA NoSelfLoop ==
  ASSUME NEW l \in Lists, NEW L \in SUBSET Conns, NEW c \in L, ListOK(l, L)
  PROVE  l.prev[c] # c /\ l.next[c] # c
  <1> USE ConnsAssumption
  <1> SUFFICES ASSUME l.prev[c] = c PROVE FALSE
    BY DEF ListOK, ForwardLinks
  <1>1. ClosedFromHead(l, L \ {c})
    BY DEF ClosedFromHead, ListOK, ForwardLinks
  <1> QED BY <1>1 DEF ListOK, ReachesAll

(* smartid_conn_dispose takes a connection out and keeps the rest.         *)
LEMMA UnlinkKeepsList ==
  ASSUME NEW l \in Lists, NEW L \in SUBSET Conns, NEW c \in L, ListOK(l, L)
  PROVE  ListOK(Unlink(l, c), L \ {c})
  <1> DEFINE before == l.prev[c]
             after  == l.next[c]
             m      == Unlink(l, c)
  <1> USE ConnsAssumption
  <1>1. before \in (L \ {c}) \cup {ListHead} /\ l.next[before] = c
    BY NoSelfLoop DEF ListOK, BackLinks
  <1>2. after \in (L \ {c}) \cup {NULL} /\ (after # NULL => l.prev[after] = c)
    BY NoSelfLoop DEF ListOK, ForwardLinks
  <1>3. /\ m.next[before] = after
        /\ \A d \in (L \cup {ListHead}) \ {c, before} : m.next[d] = l.next[d]
    BY <1>1 DEF Unlink, Forget, Lists
  <1>4. \A d \in L \ {c} : m.prev[d] = IF d = after THEN before ELSE l.prev[d]
    BY <1>1, <1>2 DEF Unlink, Forget, Lists
  <1> HIDE DEF m, before, after
  <1>5. BackLinks(m, L \ {c})
    BY <1>1, <1>2, <1>3, <1>4 DEF ListOK, BackLinks, ForwardLinks, before, after
  <1>6. ForwardLinks(m, L \ {c})
    BY <1>1, <1>2, <1>3, <1>4 DEF ListOK, BackLinks, ForwardLinks, before, after
  <1>7. ReachesAll(m, L \ {c})
    <2> SUFFICES ASSUME NEW S \in SUBSET (L \ {c}), ClosedFromHead(m, S)
                 PROVE  S = L \ {c}
      BY DEF ReachesAll
    <2>1. CASE before \in S \cup {ListHead}
      <3>1. ClosedFromHead(l, S \cup {c})
        BY <1>1, <1>2, <1>3, <2>1 DEF ClosedFromHead, after
      <3> QED BY <3>1 DEF ListOK, ReachesAll
    <2>2. CASE before \notin S \cup {ListHead}
      <3>1. ClosedFromHead(l, S) BY <1>3, <2>2 DEF ClosedFromHead
      <3> QED BY <3>1 DEF ListOK, ReachesAll
    <2> QED BY <2>1, <2>2
  <1> QED BY <1>5, <1>6, <1>7 DEF ListOK, m

-----------------------------------------------------------------------------
(* The sessions of the daemon. *)

SessionInv == \A c \in Conns : SessionOK(sess[c]) /\ out[c] \in Seq(NotLate)

-----------------------------------------------------------------------------
(* The inductive invariant. *)

Inv == TypeOK /\ ListOK(list, live) /\ SessionInv

(* It holds when the process starts.                                       *)
LEMMA InitInv == Init => Inv
  <1> SUFFICES ASSUME Init PROVE Inv
    OBVIOUS
  <1>1. SessionInv
    BY NewSessionOK DEF Init, SessionInv
  <1>2. ListOK(list, live)
    BY ConnsAssumption DEF Init, EmptyList, ListOK, BackLinks, ForwardLinks, ReachesAll, ClosedFromHead
  <1>3. list \in Lists
    BY DEF Init, EmptyList, Lists
  <1>4. sess \in [Conns -> Sessions] BY NewSessionOK DEF Init, SessionOK
  <1>5. /\ wire \in [Conns -> Seq(Lines)] /\ input \in [Conns -> Seq(Lines)]
        /\ out \in [Conns -> Seq(Replies)] /\ peer \in [Conns -> {"up", "gone", "reset"}]
    BY DEF Init
  <1>6. /\ netfd \in [Conns -> Fds \cup {NoFd}] /\ irdafd \in [Conns -> Fds \cup {NoFd}]
        /\ live \subseteq Conns /\ open \subseteq Fds /\ lfd \in Fds \cup {NoFd}
    BY DEF Init
  <1>7. TypeOK BY <1>3, <1>4, <1>5, <1>6 DEF Init, TypeOK, Lists, Phases
  <1> QED BY <1>1, <1>2, <1>7 DEF Inv

(* Disposing a live connection keeps it.                                   *)
LEMMA DisposeInv ==
  ASSUME Inv, NEW c \in live, smartid_conn_dispose(c), UNCHANGED <<daemon, procVars>>
  PROVE  Inv'
  <1> USE DEF Inv
  <1>0. c \in Conns /\ live \subseteq Conns /\ list \in Lists BY DEF TypeOK, Lists
  <1>1. list.prev[c] \in Conns \cup {ListHead}
    BY <1>0 DEF ListOK, BackLinks
  <1>2. list' \in Lists BY <1>0, <1>1, UnlinkType DEF smartid_conn_dispose
  <1>3. ListOK(list, live)'
    BY <1>0, UnlinkKeepsList DEF smartid_conn_dispose
  <1>4. NewSession \in Sessions BY NewSessionOK DEF SessionOK
  <1>5. /\ sess' \in [Conns -> Sessions] /\ wire' \in [Conns -> Seq(Lines)]
        /\ input' \in [Conns -> Seq(Lines)] /\ out' \in [Conns -> Seq(Replies)]
        /\ peer' \in [Conns -> {"up", "gone", "reset"}]
    BY <1>4 DEF smartid_conn_dispose, TypeOK
  <1>6. /\ netfd' \in [Conns -> Fds \cup {NoFd}] /\ irdafd' \in [Conns -> Fds \cup {NoFd}]
        /\ live' \subseteq Conns /\ open' \subseteq Fds
    BY DEF smartid_conn_dispose, TypeOK
  <1>7. TypeOK' BY <1>2, <1>5, <1>6 DEF TypeOK, Lists, procVars
  <1>8. SessionInv'
    BY <1>0, NewSessionOK DEF smartid_conn_dispose, SessionInv, TypeOK
  <1> QED BY <1>3, <1>7, <1>8

(* Accepting a client keeps it, whether or not the set-up succeeds.        *)
LEMMA AcceptInv ==
  ASSUME Inv, NEW c \in Conns, serv_connect(c)
  PROVE  Inv'
  <1> USE DEF Inv
  <1>0. live \subseteq Conns /\ list \in Lists /\ c \notin live BY DEF TypeOK, Lists, serv_connect
  <1>1. conn_add(list, c) \in Lists BY <1>0, AddType
  <1>2. ListOK(conn_add(list, c), live \cup {c}) BY <1>0, AddKeepsList
  <1>3. PICK fd \in Fds, ifd \in Fds :
          \/ Accepted(c, fd, ifd)
          \/ /\ list' = Unlink(conn_add(list, c), c)
             /\ open' = ((open \cup {fd, ifd}) \ {fd, ifd}) \ {fd}
             /\ UNCHANGED <<live, netfd, irdafd, sess, wire, input, out, peer>>
    BY DEF serv_connect
  <1>4. CASE Accepted(c, fd, ifd)
    <2>1. <<Status(READY, "ready")>> \in Seq(Replies) BY GreetingOK DEF NotLate
    <2>2. out' \in [Conns -> Seq(Replies)]
      BY <1>4, <2>1 DEF Accepted, TypeOK
    <2>3. /\ netfd' \in [Conns -> Fds \cup {NoFd}] /\ irdafd' \in [Conns -> Fds \cup {NoFd}]
          /\ live' \subseteq Conns /\ open' \subseteq Fds
      BY <1>4 DEF Accepted, TypeOK
    <2>4. TypeOK' BY <1>1, <1>4, <2>2, <2>3 DEF Accepted, TypeOK, Lists, serv_connect, procVars
    <2>5. ListOK(list, live)' BY <1>2, <1>4 DEF Accepted
    <2>6. SessionInv' BY <1>4, GreetingOK DEF Accepted, SessionInv, TypeOK
    <2> QED BY <2>4, <2>5, <2>6
  <1>5. CASE /\ list' = Unlink(conn_add(list, c), c)
             /\ open' = ((open \cup {fd, ifd}) \ {fd, ifd}) \ {fd}
             /\ UNCHANGED <<live, netfd, irdafd, sess, wire, input, out, peer>>
    <2>1. conn_add(list, c).prev[c] = ListHead BY DEF conn_add
    <2>2. list' \in Lists BY <1>1, <1>5, <2>1, UnlinkType
    <2>3. open' \subseteq Fds BY <1>5 DEF TypeOK
    <2>4. TypeOK' BY <1>5, <2>2, <2>3 DEF TypeOK, Lists, serv_connect, procVars
    <2>5. (live \cup {c}) \ {c} = live /\ live \cup {c} \in SUBSET Conns BY <1>0
    <2>6. ListOK(Unlink(conn_add(list, c), c), (live \cup {c}) \ {c})
      BY <1>1, <1>2, <2>5, UnlinkKeepsList
    <2>7. ListOK(list, live)' BY <1>5, <2>5, <2>6
    <2>8. SessionInv' BY <1>5 DEF SessionInv
    <2> QED BY <2>4, <2>7, <2>8
  <1> QED BY <1>3, <1>4, <1>5

(* Handling a line keeps it.                                               *)
LEMMA ReadInv ==
  ASSUME Inv, NEW c \in Conns, NEW k \in 0..MaxLines, conn_read(c, k)
  PROVE  Inv'
  <1> USE DEF Inv
  <1> DEFINE lines == input[c] \o SubSeq(wire[c], 1, k)
  <1>0. k \in Nat BY LinesAssumption
  <1>1. /\ wire[c] \in Seq(Lines) /\ input[c] \in Seq(Lines) /\ k <= Len(wire[c])
        /\ lines # <<>> /\ Handle(c, lines, lines[1])
    BY DEF conn_read, TypeOK
  <1>2. SubSeq(wire[c], 1, k) \in Seq(Lines) /\ SubSeq(wire[c], k + 1, Len(wire[c])) \in Seq(Lines)
    BY <1>0, <1>1
  <1>3. lines \in Seq(Lines) BY <1>1, <1>2
  <1> HIDE DEF lines
  <1>4. lines[1] \in Lines /\ Tail(lines) \in Seq(Lines) BY <1>1, <1>3
  <1>5. PICK o \in smartid_cmd_process(lines[1], sess[c]) :
          /\ sess' = [sess EXCEPT ![c] = o.s]
          /\ out' = [out EXCEPT ![c] = @ \o o.replies]
          /\ input' = [input EXCEPT ![c] = Tail(lines)]
          /\ daemon' = IF o.fate = "run" THEN daemon ELSE o.fate
    BY <1>1 DEF Handle
  <1>6. OutcomeOK(o) BY <1>4, <1>5, ProcessOK DEF SessionInv
  <1>7. out[c] \o o.replies \in Seq(NotLate) /\ out[c] \o o.replies \in Seq(Replies)
    <2>1. out[c] \in Seq(NotLate) /\ o.replies \in Seq(NotLate)
      BY <1>6 DEF OutcomeOK, SessionInv
    <2>2. out[c] \o o.replies \in Seq(NotLate) BY <2>1
    <2>3. \A q \in Seq(NotLate) : q \in Seq(Replies) BY DEF NotLate
    <2> QED BY <2>2, <2>3
  <1>8. SessionInv' BY <1>5, <1>6, <1>7 DEF SessionInv, OutcomeOK, TypeOK
  <1>9. TypeOK'
    <2>1. daemon' \in Phases BY <1>5, <1>6 DEF OutcomeOK, Fates, Phases, Dead, TypeOK
    <2>2. sess' \in [Conns -> Sessions] BY <1>5, <1>6 DEF OutcomeOK, SessionOK, TypeOK
    <2>3. out' \in [Conns -> Seq(Replies)] BY <1>5, <1>7 DEF TypeOK
    <2>4. input' \in [Conns -> Seq(Lines)] BY <1>4, <1>5 DEF TypeOK
    <2>5. wire' \in [Conns -> Seq(Lines)] BY <1>2 DEF conn_read, TypeOK
    <2> QED BY <2>1, <2>2, <2>3, <2>4, <2>5 DEF conn_read, TypeOK, procVars
  <1>10. ListOK(list, live)' BY DEF conn_read
  <1> QED BY <1>8, <1>9, <1>10

(* Every step keeps it.                                                    *)
LEMMA NextInv == Inv /\ [Next]_vars => Inv'
  <1> SUFFICES ASSUME Inv, [Next]_vars PROVE Inv'
    OBVIOUS
  <1> USE DEF Inv
  <1>1. ASSUME UNCHANGED <<connVars>>, open' \subseteq Fds,
               daemon' \in Phases, stop' \in BOOLEAN, lfd' \in Fds \cup {NoFd},
               evbase' \in {"null", "live", "dangling"},
               evconn' \in {"null", "live", "dangling"}
        PROVE  Inv'
    <2>1. TypeOK' BY <1>1 DEF TypeOK, connVars
    <2>2. SessionInv' BY <1>1 DEF SessionInv, connVars
    <2>3. ListOK(list, live)' BY <1>1 DEF connVars
    <2> QED BY <2>1, <2>2, <2>3
  <1>2. CASE smartid_init
    BY <1>1, <1>2 DEF smartid_init, TypeOK, Phases
  <1>3. CASE smartid_run
    BY <1>1, <1>3 DEF smartid_run, TypeOK, Phases
  <1>4. CASE smartid_start
    BY <1>1, <1>4 DEF smartid_start, TypeOK, Phases
  <1>5. CASE smartid_stop
    BY <1>1, <1>5 DEF smartid_stop, TypeOK
  <1>6. CASE LoopExit
    BY <1>1, <1>6 DEF LoopExit, TypeOK, procVars, Phases
  <1>7. CASE smartid_conn_cleanup
    <2>1. list.next[ListHead] \in live
      BY <1>7 DEF smartid_conn_cleanup, ListOK, ForwardLinks
    <2> QED BY <1>7, <2>1, DisposeInv DEF smartid_conn_cleanup
  <1>8. CASE smartid_cleanup
    BY <1>1, <1>8 DEF smartid_cleanup, TypeOK, Phases, Dead
  <1>9. CASE serv_connect_no_irda
    BY <1>1, <1>9 DEF serv_connect_no_irda, TypeOK, procVars, Phases, Dead
  <1>10. ASSUME NEW c \in Conns, serv_connect(c) PROVE Inv'
    BY <1>10, AcceptInv
  <1>11. ASSUME NEW c \in Conns, ClientSend(c) PROVE Inv'
    <2>1. PICK line \in SentLines : wire' = [wire EXCEPT ![c] = Append(@, line)]
      BY <1>11 DEF ClientSend
    <2>2. Append(wire[c], line) \in Seq(Lines) BY LinesAssumption DEF TypeOK
    <2>3. wire' \in [Conns -> Seq(Lines)] BY <2>1, <2>2 DEF TypeOK
    <2>4. TypeOK' BY <1>11, <2>3 DEF ClientSend, TypeOK, procVars
    <2>5. SessionInv' /\ ListOK(list, live)' BY <1>11 DEF ClientSend, SessionInv
    <2> QED BY <2>4, <2>5
  <1>12. ASSUME NEW c \in Conns, ClientClose(c) PROVE Inv'
    <2>1. peer' \in [Conns -> {"up", "gone", "reset"}] BY <1>12 DEF ClientClose, TypeOK
    <2>2. TypeOK' BY <1>12, <2>1 DEF ClientClose, TypeOK, procVars
    <2>3. SessionInv' /\ ListOK(list, live)' BY <1>12 DEF ClientClose, SessionInv
    <2> QED BY <2>2, <2>3
  <1>13. ASSUME NEW c \in Conns, NEW k \in 0..MaxLines, conn_read(c, k) PROVE Inv'
    BY <1>13, ReadInv
  <1>14. ASSUME NEW c \in Conns, conn_event(c) PROVE Inv'
    BY <1>14, DisposeInv DEF conn_event
  <1>15. ASSUME NEW c \in Conns, WriteOut(c) PROVE Inv'
    <2>1. ListOK(list, live)' BY <1>15 DEF WriteOut
    <2>2. \/ UNCHANGED <<out, peer>> /\ daemon' = "sigpipe"
          \/ /\ UNCHANGED daemon
             /\ \E rest \in {<<>>, Tail(out[c])} : out' = [out EXCEPT ![c] = rest]
             /\ peer' = [peer EXCEPT ![c] = IF @ = "gone" THEN "reset" ELSE @]
      BY <1>15 DEF WriteOut
    <2>3. out[c] \in Seq(NotLate) /\ out[c] \in Seq(Replies) /\ out[c] # <<>>
      BY <1>15 DEF WriteOut, SessionInv, TypeOK
    <2>4. \A rest \in {out[c], <<>>, Tail(out[c])} : rest \in Seq(NotLate)
      <3>1. <<>> \in Seq(NotLate) OBVIOUS
      <3>2. Tail(out[c]) \in Seq(NotLate) BY <2>3
      <3> QED BY <2>3, <3>1, <3>2
    <2>5. \A q \in Seq(NotLate) : q \in Seq(Replies) BY DEF NotLate
    <2>6. PICK rest \in {out[c], <<>>, Tail(out[c])} : out' = [out EXCEPT ![c] = rest]
      BY <2>2 DEF TypeOK
    <2>7. rest \in Seq(NotLate) /\ rest \in Seq(Replies)
      BY <2>4, <2>5
    <2>8. out' \in [Conns -> Seq(Replies)] /\ \A d \in Conns : out'[d] \in Seq(NotLate)
      BY <2>6, <2>7 DEF SessionInv, TypeOK
    <2>9. peer' \in [Conns -> {"up", "gone", "reset"}] /\ daemon' \in Phases
      BY <2>2 DEF TypeOK, Phases, Dead
    <2>10. TypeOK' BY <1>15, <2>8, <2>9 DEF WriteOut, TypeOK, procVars
    <2>11. SessionInv' BY <1>15, <2>8 DEF WriteOut, SessionInv
    <2> QED BY <2>1, <2>10, <2>11
  <1>16. CASE UNCHANGED vars
    BY <1>1, <1>16 DEF vars, procVars, TypeOK
  <1> QED BY <1>2, <1>3, <1>4, <1>5, <1>6, <1>7, <1>8, <1>9, <1>10, <1>11, <1>12, <1>13,
             <1>14, <1>15, <1>16 DEF Next

(* The inductive invariant holds of every run of the daemon.               *)
THEOREM Invariance == Spec => []Inv
  BY InitInv, NextInv, PTL DEF Spec

(* Every variable keeps its type, after any sequence of clients, commands, *)
(* device failures and stops.                                              *)
THEOREM TypeCorrect == Spec => []TypeOK
  <1>1. Inv => TypeOK BY DEF Inv
  <1> QED BY Invariance, <1>1, PTL

(* The pointers of smartid_conn.c stay consistent: neither "Bug: Socket    *)
(* list is inconsistent" branch of smartid_conn_dispose is ever taken and  *)
(* no pointer leads to a freed block, for any number of connections.       *)
THEOREM ListIsConsistent == Spec => []ListConsistent
  <1>1. Inv => ListConsistent BY DEF Inv, ListOK, ListConsistent
  <1> QED BY Invariance, <1>1, PTL

(* smartid_conn_cleanup, following next from g_conn_head, meets every live *)
(* connection.                                                             *)
THEOREM CleanupReachesAll == Spec => []ListReachesAll
  <1>1. Inv => ListReachesAll BY DEF Inv, ListOK, ListReachesAll
  <1> QED BY Invariance, <1>1, PTL

(* A device handle outlives no failed exchange, so every device command is *)
(* sent on a socket with no answer outstanding.                            *)
THEOREM DevicesAreSettled == Spec => []DeviceIsSettled
  <1>1. Inv => DeviceIsSettled BY DEF Inv, SessionInv, SessionOK, DeviceIsSettled
  <1> QED BY Invariance, <1>1, PTL

(* No reply on its way to a client carries the answer to an earlier,       *)
(* abandoned command, however clients reopen devices after failures.       *)
THEOREM NoReplyIsLate == Spec => []NoLateAnswer
  <1>1. Inv => NoLateAnswer
    <2> SUFFICES ASSUME Inv, NEW c \in Conns, NEW i \in 1..Len(out[c])
                 PROVE  out[c][i].val # "late"
      BY DEF NoLateAnswer
    <2>1. out[c] \in Seq(NotLate) BY DEF Inv, SessionInv
    <2>2. out[c][i] \in NotLate BY <2>1
    <2> QED BY <2>2 DEF NotLate
  <1> QED BY Invariance, <1>1, PTL

-----------------------------------------------------------------------------
(* Descriptors.  Ownership is claimed while the loop runs and during the   *)
(* cleanup; the invariant adds what holds in the phases before and after.  *)

Owned(o, n, i, L, x) ==
  /\ o = {n[c] : c \in L} \cup {i[c] : c \in L} \cup x
  /\ \A c \in L : /\ n[c] # i[c] /\ {n[c], i[c]} \cap x = {}
                  /\ \A d \in L \ {c} : {n[c], i[c]} \cap {n[d], i[d]} = {}

FdInv ==
  /\ daemon \in {"boot", "init"} => live = {} /\ open = {} /\ evconn = "null"
  /\ daemon = "start" => live = {} /\ open = {lfd} /\ evconn = "null"
  /\ daemon = "run" => evconn = "live"
  /\ daemon \in {"run", "cleanup"} => Owned(open, netfd, irdafd, live, Listener)
  /\ daemon = "exited" => live = {} /\ open = {}

(* Two new, different descriptors for a new connection.                    *)
LEMMA OwnedAdd ==
  ASSUME NEW o, NEW n \in [Conns -> Fds \cup {NoFd}], NEW i \in [Conns -> Fds \cup {NoFd}],
         NEW L \in SUBSET Conns, NEW x, NEW c \in Conns \ L, NEW fd, NEW ifd,
         Owned(o, n, i, L, x), fd \notin o, ifd \notin o, fd # ifd
  PROVE  Owned(o \cup {fd, ifd}, [n EXCEPT ![c] = fd], [i EXCEPT ![c] = ifd], L \cup {c}, x)
  <1> DEFINE n1 == [n EXCEPT ![c] = fd]
             i1 == [i EXCEPT ![c] = ifd]
  <1>1. n1[c] = fd /\ i1[c] = ifd /\ \A d \in L : n1[d] = n[d] /\ i1[d] = i[d]
    OBVIOUS
  <1> HIDE DEF n1, i1
  <1>2. /\ {n1[d] : d \in L \cup {c}} = {n[d] : d \in L} \cup {fd}
        /\ {i1[d] : d \in L \cup {c}} = {i[d] : d \in L} \cup {ifd}
    BY <1>1
  <1>3. \A d \in L : {n[d], i[d]} \cap {fd, ifd} = {}
    BY DEF Owned
  <1>4. {fd, ifd} \cap x = {} BY DEF Owned
  <1>5. o \cup {fd, ifd} = {n1[d] : d \in L \cup {c}} \cup {i1[d] : d \in L \cup {c}} \cup x
    BY <1>2 DEF Owned
  <1>6. \A d \in L \cup {c} : n1[d] # i1[d] /\ {n1[d], i1[d]} \cap x = {}
    BY <1>1, <1>4 DEF Owned
  <1>7. \A d, e \in L \cup {c} : d # e => {n1[d], i1[d]} \cap {n1[e], i1[e]} = {}
    BY <1>1, <1>3 DEF Owned
  <1> QED BY <1>5, <1>6, <1>7 DEF Owned, n1, i1

(* Closing both descriptors of a connection closes nobody else's.          *)
LEMMA OwnedRemove ==
  ASSUME NEW o, NEW n \in [Conns -> Fds \cup {NoFd}], NEW i \in [Conns -> Fds \cup {NoFd}],
         NEW L \in SUBSET Conns, NEW x, NEW c \in L, Owned(o, n, i, L, x)
  PROVE  Owned(o \ {n[c], i[c]}, [n EXCEPT ![c] = NoFd], [i EXCEPT ![c] = NoFd], L \ {c}, x)
  <1> DEFINE n1 == [n EXCEPT ![c] = NoFd]
             i1 == [i EXCEPT ![c] = NoFd]
  <1>1. \A d \in L \ {c} : n1[d] = n[d] /\ i1[d] = i[d]
    OBVIOUS
  <1> HIDE DEF n1, i1
  <1>2. \A d \in L \ {c} : {n[d], i[d]} \cap {n[c], i[c]} = {} BY DEF Owned
  <1>3. x \cap {n[c], i[c]} = {} BY DEF Owned
  <1>4. o \ {n[c], i[c]} = {n1[d] : d \in L \ {c}} \cup {i1[d] : d \in L \ {c}} \cup x
    <2> DEFINE N == {n[d] : d \in L \ {c}}
               I == {i[d] : d \in L \ {c}}
    <2>1. {n1[d] : d \in L \ {c}} = N /\ {i1[d] : d \in L \ {c}} = I BY <1>1
    <2>2. {n[d] : d \in L} = N \cup {n[c]} /\ {i[d] : d \in L} = I \cup {i[c]} OBVIOUS
    <2>3. o = (N \cup {n[c]}) \cup (I \cup {i[c]}) \cup x BY <2>2 DEF Owned
    <2>4. N \cap {n[c], i[c]} = {} /\ I \cap {n[c], i[c]} = {} BY <1>2
    <2> HIDE DEF N, I
    <2> QED BY <1>3, <2>1, <2>3, <2>4
  <1>5. \A d \in L \ {c} :
          /\ n1[d] # i1[d] /\ {n1[d], i1[d]} \cap x = {}
          /\ \A e \in (L \ {c}) \ {d} : {n1[d], i1[d]} \cap {n1[e], i1[e]} = {}
    BY <1>1 DEF Owned
  <1> QED BY <1>4, <1>5 DEF Owned, n1, i1

(* A handler returns to the loop, or ends or blocks the process.           *)
LEMMA ReadFate ==
  ASSUME Inv, NEW c \in Conns, NEW k \in 0..MaxLines, conn_read(c, k)
  PROVE  daemon' = daemon \/ daemon' \in {"abort", "sigpipe", "hung"}
  <1> DEFINE lines == input[c] \o SubSeq(wire[c], 1, k)
  <1>0. k \in Nat BY LinesAssumption
  <1>1. /\ wire[c] \in Seq(Lines) /\ input[c] \in Seq(Lines) /\ k <= Len(wire[c])
        /\ lines # <<>> /\ Handle(c, lines, lines[1])
    BY DEF conn_read, Inv, TypeOK
  <1>2. lines \in Seq(Lines)
    <2>1. SubSeq(wire[c], 1, k) \in Seq(Lines) BY <1>0, <1>1
    <2> QED BY <1>1, <2>1
  <1> HIDE DEF lines
  <1>3. lines[1] \in Lines BY <1>1, <1>2
  <1>4. PICK o \in smartid_cmd_process(lines[1], sess[c]) :
          daemon' = IF o.fate = "run" THEN daemon ELSE o.fate
    BY <1>1 DEF Handle
  <1>5. o.fate \in Fates BY <1>3, ProcessOK DEF Inv, SessionInv, OutcomeOK
  <1> QED BY <1>4, <1>5 DEF Fates

(* The descriptor invariant holds when the process starts.                 *)
LEMMA InitFdInv == Init => FdInv
  BY DEF Init, FdInv

(* Every step keeps it; smartid_cleanup relies on the list reaching every  *)
(* connection.                                                             *)
LEMMA NextFdInv == Inv /\ FdInv /\ [Next]_vars => FdInv'
  <1> SUFFICES ASSUME Inv, FdInv, [Next]_vars PROVE FdInv'
    OBVIOUS
  <1>1. /\ netfd \in [Conns -> Fds \cup {NoFd}] /\ irdafd \in [Conns -> Fds \cup {NoFd}]
        /\ live \in SUBSET Conns
    BY DEF Inv, TypeOK
  <1>2. ASSUME NEW c \in live, smartid_conn_dispose(c), UNCHANGED <<daemon, procVars>>,
               daemon \in {"run", "cleanup"}
        PROVE  FdInv'
    <2>1. Owned(open, netfd, irdafd, live, Listener) BY <1>2 DEF FdInv
    <2>2. Listener' = Listener BY <1>2 DEF Listener, procVars
    <2>3. Owned(open', netfd', irdafd', live', Listener)
      BY <1>1, <1>2, <2>1, OwnedRemove DEF smartid_conn_dispose
    <2> QED BY <1>2, <2>2, <2>3 DEF FdInv, procVars
  <1>3. ASSUME UNCHANGED <<daemon, evconn, lfd, live, open, netfd, irdafd>> PROVE FdInv'
    BY <1>3 DEF FdInv, Listener
  <1>4. CASE smartid_init
    BY <1>4 DEF smartid_init, FdInv, connVars
  <1>5. CASE smartid_run
    <2>1. live = {} /\ open = {} /\ evconn = "null" BY <1>5 DEF smartid_run, FdInv
    <2>2. UNCHANGED <<evconn, live, netfd, irdafd>> BY <1>5 DEF smartid_run, connVars
    <2>3. CASE daemon' \in {"exited", "cleanup"} /\ UNCHANGED <<lfd, open>>
      BY <2>1, <2>2, <2>3 DEF FdInv, Owned, Listener
    <2>4. CASE \E fd \in Fds : daemon' = "start" /\ lfd' = fd /\ open' = open \cup {fd}
      BY <2>1, <2>2, <2>4 DEF FdInv
    <2> QED BY <1>5, <2>3, <2>4 DEF smartid_run
  <1>6. CASE smartid_start
    <2>1. live = {} /\ open = {lfd} /\ UNCHANGED <<lfd, live, netfd, irdafd>>
      BY <1>6 DEF smartid_start, FdInv, connVars
    <2>2. CASE daemon' = "run" /\ evconn' = "live" /\ UNCHANGED open
      BY <2>1, <2>2 DEF FdInv, Owned, Listener
    <2>3. CASE daemon' = "cleanup" /\ evconn' \in {"null", "dangling"} /\ open' = open \ {lfd}
      BY <2>1, <2>3 DEF FdInv, Owned, Listener
    <2> QED BY <1>6, <2>2, <2>3 DEF smartid_start
  <1>7. CASE smartid_stop
    BY <1>3, <1>7 DEF smartid_stop, connVars
  <1>8. CASE LoopExit
    BY <1>8 DEF LoopExit, FdInv, Listener, connVars, procVars
  <1>9. CASE smartid_conn_cleanup
    <2>1. list.next[ListHead] \in live
      BY <1>9 DEF smartid_conn_cleanup, Inv, ListOK, ForwardLinks
    <2> QED BY <1>2, <1>9, <2>1 DEF smartid_conn_cleanup
  <1>10. CASE smartid_cleanup
    <2>1. ClosedFromHead(list, {}) BY <1>10 DEF smartid_cleanup, ClosedFromHead
    <2>2. live = {} BY <2>1 DEF Inv, ListOK, ReachesAll
    <2>3. open \subseteq {lfd} BY <1>10, <2>2 DEF smartid_cleanup, FdInv, Owned, Listener
    <2>4. live' = {} /\ open' = {} /\ daemon' \in {"exited", "abort"}
      BY <1>10, <2>2, <2>3 DEF smartid_cleanup, connVars
    <2> QED BY <2>4 DEF FdInv
  <1>11. CASE serv_connect_no_irda
    BY <1>11 DEF serv_connect_no_irda, FdInv
  <1>12. ASSUME NEW c \in Conns, serv_connect(c) PROVE FdInv'
    <2>1. daemon = "run" /\ c \notin live /\ UNCHANGED <<daemon, procVars>>
      BY <1>12 DEF serv_connect
    <2>2. Owned(open, netfd, irdafd, live, Listener) /\ Listener' = Listener
      BY <2>1 DEF FdInv, Listener, procVars
    <2>3. PICK fd \in Fds, ifd \in Fds :
            /\ LowestFree(fd, open) /\ LowestFree(ifd, open \cup {fd})
            /\ \/ Accepted(c, fd, ifd)
               \/ /\ open' = ((open \cup {fd, ifd}) \ {fd, ifd}) \ {fd}
                  /\ UNCHANGED <<live, netfd, irdafd, sess, wire, input, out, peer>>
      BY <1>12 DEF serv_connect
    <2>4. fd \notin open /\ ifd \notin open /\ fd # ifd BY <2>3 DEF LowestFree
    <2>5. CASE Accepted(c, fd, ifd)
      <3>1. Owned(open', netfd', irdafd', live', Listener)
        BY <1>1, <2>1, <2>2, <2>4, <2>5, OwnedAdd DEF Accepted
      <3> QED BY <2>1, <2>2, <3>1 DEF FdInv, procVars
    <2>6. CASE /\ open' = ((open \cup {fd, ifd}) \ {fd, ifd}) \ {fd}
               /\ UNCHANGED <<live, netfd, irdafd, sess, wire, input, out, peer>>
      <3>1. open' = open BY <2>4, <2>6
      <3> QED BY <1>3, <2>1, <2>6, <3>1 DEF procVars
    <2> QED BY <2>3, <2>5, <2>6
  <1>13. ASSUME NEW c \in Conns, ClientSend(c) \/ ClientClose(c) PROVE FdInv'
    BY <1>3, <1>13 DEF ClientSend, ClientClose, procVars
  <1>14. ASSUME NEW c \in Conns, NEW k \in 0..MaxLines, conn_read(c, k) PROVE FdInv'
    <2>1. UNCHANGED <<evconn, lfd, live, open, netfd, irdafd>> BY <1>14 DEF conn_read, procVars
    <2>2. daemon' = daemon \/ daemon' \in {"abort", "sigpipe", "hung"}
      BY <1>14, ReadFate
    <2> QED BY <1>3, <2>1, <2>2 DEF FdInv
  <1>15. ASSUME NEW c \in Conns, conn_event(c) PROVE FdInv'
    BY <1>2, <1>15 DEF conn_event
  <1>16. ASSUME NEW c \in Conns, WriteOut(c) PROVE FdInv'
    <2>1. UNCHANGED <<evconn, lfd, live, open, netfd, irdafd>> BY <1>16 DEF WriteOut, procVars
    <2>2. daemon' = daemon \/ daemon' = "sigpipe" BY <1>16 DEF WriteOut
    <2> QED BY <1>3, <2>1, <2>2 DEF FdInv
  <1>17. CASE UNCHANGED vars
    BY <1>3, <1>17 DEF vars, procVars, connVars
  <1> QED BY <1>4, <1>5, <1>6, <1>7, <1>8, <1>9, <1>10, <1>11, <1>12, <1>13, <1>14, <1>15,
             <1>16, <1>17 DEF Next

(* The descriptor invariant holds of every run of the daemon.              *)
THEOREM FdInvariance == Spec => []FdInv
  BY InitFdInv, NextFdInv, Invariance, PTL DEF Spec

(* While it runs, the daemon's open descriptors are exactly the listener's *)
(* and two for each live connection, no two the same.                      *)
THEOREM DescriptorsAreOwned == Spec => []FdOwnership
  <1>1. FdInv => FdOwnership BY DEF FdInv, FdOwnership, Owned
  <1> QED BY FdInvariance, <1>1, PTL

(* A daemon that ends by itself has freed every connection and closed      *)
(* every descriptor.                                                       *)
THEOREM ExitIsClean == Spec => []CleanExit
  <1>1. FdInv => CleanExit BY DEF FdInv, CleanExit
  <1> QED BY FdInvariance, <1>1, PTL

-----------------------------------------------------------------------------
(* Which lines are answered.  smartid_cmd_process says nothing to a line   *)
(* whose word it does not know, because the loop's variable is then the    *)
(* last entry of the table, nor to an XFER that could not be encoded.      *)

(* What a step owes the connection c.                                      *)
Owed(c) ==
  daemon' = "run" /\ Pending(c)' < Pending(c) =>
    \/ Len(out[c]') > Len(out[c])
    \/ /\ ~Known(NextLine(c)) \/ NextLine(c).word = "xfer"
       /\ sess[c].dev' = sess[c].dev

(* A step that leaves c's lines alone owes it nothing, and neither does    *)
(* one that adds a line.                                                   *)
LEMMA NothingOwed ==
  ASSUME Inv, NEW c \in Conns, wire'[c] = wire[c] \/ (\E line \in Lines : wire'[c] = Append(wire[c], line)),
         input'[c] = input[c]
  PROVE  Owed(c)
  <1>1. Len(wire[c]) \in Nat /\ Len(input[c]) \in Nat /\ wire[c] \in Seq(Lines)
    BY DEF Inv, TypeOK
  <1>2. Len(wire'[c]) = Len(wire[c]) \/ Len(wire'[c]) = Len(wire[c]) + 1
    <2>1. \A line \in Lines : Len(Append(wire[c], line)) = Len(wire[c]) + 1 BY <1>1
    <2> QED BY <2>1
  <1>3. ~(Len(wire'[c]) + Len(input'[c]) < Len(wire[c]) + Len(input[c]))
    <2>1. \A m, n \in Nat : ~(m + n < m + n) /\ ~(m + 1 + n < m + n) OBVIOUS
    <2>2. Len(input'[c]) = Len(input[c]) OBVIOUS
    <2> QED BY <1>1, <1>2, <2>1, <2>2
  <1> QED BY <1>3 DEF Owed, Pending

(* The first line of two buffers is that of the one in front.              *)
LEMMA FirstOfBoth ==
  ASSUME NEW S, NEW s \in Seq(S), NEW t \in Seq(S), s # <<>>
  PROVE  (s \o t)[1] = s[1]
  <1>1. Len(s) \in Nat /\ Len(t) \in Nat /\ Len(s) # 0 OBVIOUS
  <1>2. 1 \in 1 .. Len(s) BY <1>1
  <1> QED BY <1>1, <1>2

(* Handling a line answers it, or leaves the device as it was.             *)
LEMMA ReadOwes ==
  ASSUME Inv, NEW c \in Conns, NEW k \in 0..MaxLines, conn_read(c, k)
  PROVE  \A d \in live : Owed(d)
  <1> DEFINE lines == input[c] \o SubSeq(wire[c], 1, k)
  <1>0. k \in Nat BY LinesAssumption
  <1>1. /\ wire[c] \in Seq(Lines) /\ input[c] \in Seq(Lines) /\ k <= Len(wire[c])
        /\ lines # <<>> /\ Handle(c, lines, lines[1])
        /\ wire' = [wire EXCEPT ![c] = SubSeq(@, k + 1, Len(@))] /\ daemon = "run"
    BY DEF conn_read, Inv, TypeOK
  <1>2. SubSeq(wire[c], 1, k) \in Seq(Lines) BY <1>0, <1>1
  <1>3. lines \in Seq(Lines) BY <1>1, <1>2
  <1>4. lines[1] = NextLine(c)
    <2>1. CASE input[c] = <<>>
      <3>1. lines = SubSeq(wire[c], 1, k) /\ input[c] \o wire[c] = wire[c] BY <1>1, <1>2, <2>1
      <3>2. k >= 1
        <4>1. k = 0 => SubSeq(wire[c], 1, k) = <<>> BY <1>1
        <4>2. SubSeq(wire[c], 1, k) # <<>>
          <5> HIDE DEF lines
          <5> QED BY <1>1, <3>1
        <4> QED BY <1>0, <4>1, <4>2
      <3>3. SubSeq(wire[c], 1, k)[1] = wire[c][1] BY <1>0, <1>1, <3>2
      <3> QED BY <3>1, <3>3 DEF NextLine
    <2>2. CASE input[c] # <<>>
      <3>1. lines[1] = input[c][1] BY <1>1, <1>2, <2>2, FirstOfBoth
      <3>2. (input[c] \o wire[c])[1] = input[c][1] BY <1>1, <2>2, FirstOfBoth
      <3> QED BY <3>1, <3>2 DEF NextLine
    <2> QED BY <2>1, <2>2
  <1> HIDE DEF lines
  <1>5. PICK o \in smartid_cmd_process(lines[1], sess[c]) :
          /\ sess' = [sess EXCEPT ![c] = o.s]
          /\ out' = [out EXCEPT ![c] = @ \o o.replies]
          /\ input' = [input EXCEPT ![c] = Tail(lines)]
          /\ daemon' = IF o.fate = "run" THEN daemon ELSE o.fate
    BY <1>1 DEF Handle
  <1>6. /\ wire \in [Conns -> Seq(Lines)] /\ input \in [Conns -> Seq(Lines)]
        /\ out \in [Conns -> Seq(Replies)] /\ live \subseteq Conns
        /\ sess \in [Conns -> Sessions]
    BY DEF Inv, TypeOK
  <1>7. lines[1] \in Lines BY <1>1, <1>3
  <1>8. o.replies \in Seq(NotLate) /\ out[c] \in Seq(NotLate)
    BY <1>7, ProcessOK DEF Inv, SessionInv, OutcomeOK
  <1>9. Answers(o) \/ ((~Known(lines[1]) \/ lines[1].word = "xfer") /\ Silent(o, sess[c]))
    BY <1>6, <1>7, ProcessAnswers
  <1>10. Owed(c)
    <2>1. CASE Answers(o)
      <3>1. SUFFICES ASSUME daemon' = "run" PROVE Len(out'[c]) > Len(out[c])
        BY DEF Owed
      <3>2. o.replies # <<>> BY <1>5, <2>1, <3>1 DEF Answers
      <3>3. Len(o.replies) > 0 /\ Len(o.replies) \in Nat /\ Len(out[c]) \in Nat
        BY <1>8, <3>2
      <3>4. out'[c] = out[c] \o o.replies BY <1>5, <1>6
      <3>5. Len(out'[c]) = Len(out[c]) + Len(o.replies) BY <1>8, <3>4
      <3>6. \A m, n \in Nat : n > 0 => m + n > m OBVIOUS
      <3>7. Len(out[c]) + Len(o.replies) > Len(out[c]) BY <3>3, <3>6
      <3> QED BY <3>5, <3>7
    <2>2. CASE (~Known(lines[1]) \/ lines[1].word = "xfer") /\ Silent(o, sess[c])
      <3>1. sess'[c] = o.s BY <1>5, <1>6
      <3> QED BY <1>4, <2>2, <3>1 DEF Owed, Silent
    <2> QED BY <1>9, <2>1, <2>2
  <1>11. ASSUME NEW d \in live, d # c PROVE Owed(d)
    <2>1. wire'[d] = wire[d] /\ input'[d] = input[d] BY <1>1, <1>5, <1>6, <1>11
    <2> QED BY <1>6, <2>1, NothingOwed
  <1> QED BY <1>10, <1>11

(* Every step pays what it owes.                                           *)
LEMMA NextOwes ==
  ASSUME Inv, [Next]_vars
  PROVE  \A c \in live \cap live' : Owed(c)
  <1>0. live \subseteq Conns /\ wire \in [Conns -> Seq(Lines)] /\ input \in [Conns -> Seq(Lines)]
    BY DEF Inv, TypeOK
  <1>1. ASSUME UNCHANGED <<wire, input>>
        PROVE  \A c \in live \cap live' : Owed(c)
    BY <1>0, <1>1, NothingOwed
  <1>2. ASSUME NEW c \in Conns, smartid_conn_dispose(c)
        PROVE  \A d \in live \cap live' : Owed(d)
    <2>1. \A d \in Conns \ {c} : wire'[d] = wire[d] /\ input'[d] = input[d]
      BY <1>0, <1>2 DEF smartid_conn_dispose
    <2>2. c \notin live' BY <1>2 DEF smartid_conn_dispose
    <2> QED BY <1>0, <2>1, <2>2, NothingOwed
  <1>3. CASE \/ smartid_init \/ smartid_run \/ smartid_start \/ smartid_stop
             \/ LoopExit \/ smartid_cleanup \/ serv_connect_no_irda
    BY <1>1, <1>3 DEF smartid_init, smartid_run, smartid_start, smartid_stop, LoopExit,
       smartid_cleanup, serv_connect_no_irda, connVars
  <1>4. CASE smartid_conn_cleanup
    <2>1. list.next[ListHead] \in Conns
      BY <1>0, <1>4 DEF smartid_conn_cleanup, Inv, ListOK, ForwardLinks
    <2> QED BY <1>2, <1>4, <2>1 DEF smartid_conn_cleanup
  <1>5. ASSUME NEW c \in Conns, serv_connect(c) \/ ClientClose(c) \/ WriteOut(c)
        PROVE  \A d \in live \cap live' : Owed(d)
    BY <1>1, <1>5 DEF serv_connect, Accepted, ClientClose, WriteOut
  <1>6. ASSUME NEW c \in Conns, ClientSend(c)
        PROVE  \A d \in live \cap live' : Owed(d)
    <2>1. PICK line \in SentLines : wire' = [wire EXCEPT ![c] = Append(@, line)]
      BY <1>6 DEF ClientSend
    <2>2. line \in Lines /\ input' = input
      BY <1>6, LinesAssumption DEF ClientSend
    <2>3. ASSUME NEW d \in live PROVE Owed(d)
      <3>1. wire'[d] = wire[d] \/ wire'[d] = Append(wire[d], line) BY <1>0, <2>1
      <3> QED BY <1>0, <2>2, <3>1, NothingOwed
    <2> QED BY <2>3
  <1>7. ASSUME NEW c \in Conns, NEW k \in 0..MaxLines, conn_read(c, k)
        PROVE  \A d \in live \cap live' : Owed(d)
    BY <1>7, ReadOwes
  <1>8. ASSUME NEW c \in Conns, conn_event(c)
        PROVE  \A d \in live \cap live' : Owed(d)
    BY <1>2, <1>8 DEF conn_event
  <1>9. CASE UNCHANGED vars BY <1>1, <1>9 DEF vars, connVars
  <1> QED BY <1>3, <1>4, <1>5, <1>6, <1>7, <1>8, <1>9 DEF Next

(* Whatever clients send: a line that conn_read takes off a connection     *)
(* that stays is answered, unless smartid_cmd_process does not know its    *)
(* word or it is an XFER, and then the device handle is left as it was.    *)
THEOREM OnlySilentLines == Spec => OnlySilentLinesUnanswered
  <1>1. Inv /\ [Next]_vars
          => [\A c \in live \cap live' :
                daemon' = "run" /\ Pending(c)' < Pending(c) =>
                  \/ Len(out[c]') > Len(out[c])
                  \/ /\ ~Known(NextLine(c)) \/ NextLine(c).word = "xfer"
                     /\ sess[c].dev' = sess[c].dev]_vars
    BY NextOwes DEF Owed
  <1> QED BY <1>1, Invariance, PTL DEF Spec, OnlySilentLinesUnanswered
=============================================================================
