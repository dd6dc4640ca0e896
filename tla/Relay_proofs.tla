---------------------------- MODULE Relay_proofs ----------------------------
(***************************************************************************)
(* Proofs about Relay for any number of connections, sessions and tokens.  *)
(* The inductive invariant follows the sender of a oneshot channel: it is  *)
(* in waiting_peers, or with one task that took it out, or used, and never *)
(* in two of these places.                                                 *)
(***************************************************************************)
EXTENDS Relay, TLAPS

\* A task that has put its sender into waiting_peers is in one of these.
FirstPCs == {"respondFirst", "wait", "leave", "forward", "unregister",
             "unanswered", "done"}

RegisteredInv ==
    \A c \in Conns :
        pc[c] \in {"insert", "respondFirst", "wait", "forward"}
            => sess[c] \in Conns

WaitingInv ==
    \A s \in Sessions :
        waiting[s] # None =>
            /\ Sid(waiting[s]) = s
            /\ pc[waiting[s]] \in FirstPCs
            /\ sent[waiting[s]] = None
            /\ \A d \in Conns : taken[d] # waiting[s]

TakenInv ==
    \A d \in Conns :
        taken[d] # None =>
            /\ pc[d] = "send"
            /\ Sid(taken[d]) = Sid(d)
            /\ pc[taken[d]] \in FirstPCs
            /\ sent[taken[d]] = None
            /\ \A e \in Conns : taken[e] = taken[d] => e = d

SentInv ==
    \A c \in Conns :
        sent[c] # None =>
            /\ pc[c] \in FirstPCs
            /\ pc[sent[c]] \in {"parked", "done"}
            /\ sent[c] # c
            /\ Sid(sent[c]) = Sid(c)
            /\ sent[sent[c]] = None
            /\ \A s \in Sessions : waiting[s] # sent[c]
            /\ \A d \in Conns : taken[d] # sent[c]
            /\ \A d \in Conns : sent[d] = sent[c] => d = c

IInv == TypeOK /\ RegisteredInv /\ WaitingInv /\ TakenInv /\ SentInv

\* The session id of a token is a session id.
LEMMA SidType == \A c \in Conns : Sid(c) \in Sessions
  BY TokenAssumption, Zenon DEF Sid

\* Nothing is registered, waiting or handed over in the initial state.
LEMMA InitIInv == Init => IInv
  BY NoneAssumption
  DEF Init, IInv, TypeOK, RegisteredInv, WaitingInv, TakenInv, SentInv, PCs,
      Roles, NewSession

\* Steps that only move the program counter of one task, close connections or
\* change the session table and its objects leave the senders where they are.
LEMMA LocalStep ==
  ASSUME IInv, TypeOK',
         NEW c \in Conns,
         waiting' = waiting, taken' = taken, sent' = sent,
         \A d \in Conns \ {c} : pc'[d] = pc[d] /\ sess'[d] = sess[d],
         pc[c] # "send",
         pc[c] \in FirstPCs => pc'[c] \in FirstPCs,
         pc[c] \in {"parked", "done"} => pc'[c] \in {"parked", "done"},
         pc'[c] \in {"insert", "respondFirst", "wait", "forward"}
            => sess'[c] \in Conns
  PROVE  IInv'
  <1>1. RegisteredInv'
    BY Zenon DEF IInv, RegisteredInv, TypeOK
  <1>0. ASSUME NEW d \in Conns
        PROVE  /\ pc[d] \in FirstPCs => pc'[d] \in FirstPCs
               /\ pc[d] = "send" => pc'[d] = "send"
               /\ pc[d] \in {"parked", "done"} => pc'[d] \in {"parked", "done"}
    BY <1>0, Zenon
  <1>2. WaitingInv'
    <2> SUFFICES ASSUME NEW s \in Sessions, waiting[s] # None
                 PROVE  /\ Sid(waiting[s]) = s
                        /\ pc'[waiting[s]] \in FirstPCs
                        /\ sent[waiting[s]] = None
                        /\ \A d \in Conns : taken[d] # waiting[s]
      BY Zenon DEF WaitingInv
    <2>1. waiting[s] \in Conns
      BY Zenon DEF IInv, TypeOK
    <2> QED
      BY <2>1, <1>0, Zenon DEF IInv, WaitingInv
  <1>3. TakenInv'
    <2> SUFFICES ASSUME NEW d \in Conns, taken[d] # None
                 PROVE  /\ pc'[d] = "send"
                        /\ Sid(taken[d]) = Sid(d)
                        /\ pc'[taken[d]] \in FirstPCs
                        /\ sent[taken[d]] = None
                        /\ \A e \in Conns : taken[e] = taken[d] => e = d
      BY Zenon DEF TakenInv
    <2>1. taken[d] \in Conns
      BY Zenon DEF IInv, TypeOK
    <2> QED
      BY <2>1, <1>0, Zenon DEF IInv, TakenInv
  <1>4. SentInv'
    <2> SUFFICES ASSUME NEW d \in Conns, sent[d] # None
                 PROVE  /\ pc'[d] \in FirstPCs
                        /\ pc'[sent[d]] \in {"parked", "done"}
                        /\ sent[d] # d
                        /\ Sid(sent[d]) = Sid(d)
                        /\ sent[sent[d]] = None
                        /\ \A s \in Sessions : waiting[s] # sent[d]
                        /\ \A e \in Conns : taken[e] # sent[d]
                        /\ \A e \in Conns : sent[e] = sent[d] => e = d
      BY DEF SentInv
    <2>1. sent[d] \in Conns
      BY Zenon DEF IInv, TypeOK
    <2> QED
      BY <2>1, <1>0, Zenon DEF IInv, SentInv
  <1> QED
    BY <1>1, <1>2, <1>3, <1>4, Zenon DEF IInv

\* Every step keeps the variables in their types: a forwarding task has a peer
\* and a session object, a sending one has a sender.
LEMMA TypeStep == IInv /\ [Next]_vars => TypeOK'
  <1> SUFFICES ASSUME IInv, [Next]_vars PROVE TypeOK'
    BY Zenon
  <1> USE NoneAssumption, SidType DEF IInv, TypeOK, PCs, Goto, Close
  <1>1. ASSUME NEW c \in Conns, HandshakeFails(c) PROVE TypeOK'
    BY <1>1, Zenon DEF HandshakeFails
  <1>2. ASSUME NEW c \in Conns, RegisterRejected(c) PROVE TypeOK'
    BY <1>2, Zenon DEF RegisterRejected
  <1>3. ASSUME NEW c \in Conns, Register(c) PROVE TypeOK'
    <2>1. Entry(c) \in Conns /\ Joined(c) \in SUBSET Roles
      BY TokenAssumption DEF Entry, Joined
    <2>2. obj' \in [Conns -> [connected : SUBSET Roles, terminated : BOOLEAN]]
      BY <1>3, <2>1 DEF Register
    <2> QED
      BY <1>3, <2>1, <2>2, Zenon DEF Register
  <1>4. ASSUME NEW c \in Conns, InsertWaiting(c) PROVE TypeOK'
    BY <1>4, Zenon DEF InsertWaiting
  <1>5. ASSUME NEW c \in Conns, Responded(c) PROVE TypeOK'
    BY <1>5 DEF Responded
  <1>6. ASSUME NEW c \in Conns, ResponseFails(c) PROVE TypeOK'
    BY <1>6, Zenon DEF ResponseFails
  <1>7. ASSUME NEW c \in Conns, ReceivePeer(c) PROVE TypeOK'
    BY <1>7 DEF ReceivePeer, RegisteredInv
  <1>8. ASSUME NEW c \in Conns, SenderDropped(c) PROVE TypeOK'
    BY <1>8, Zenon DEF SenderDropped
  <1>9. ASSUME NEW c \in Conns, ClosedWhileWaiting(c) PROVE TypeOK'
    BY <1>9, Zenon DEF ClosedWhileWaiting
  <1>10. ASSUME NEW c \in Conns, LeaveWaiting(c) PROVE TypeOK'
    BY <1>10, Zenon DEF LeaveWaiting
  <1>11. ASSUME NEW c \in Conns, ForwardEnds(c) PROVE TypeOK'
    <2> DEFINE Objects == [connected : SUBSET Roles, terminated : BOOLEAN]
    <2>1. /\ sess[c] \in Conns
          /\ obj' = [obj EXCEPT ![sess[c]] = [@ EXCEPT !.terminated = TRUE]]
          /\ pc' = [pc EXCEPT ![c] = "unregister"]
          /\ table' = table /\ sess' = sess /\ waiting' = waiting
          /\ taken' = taken /\ sent' = sent
      BY <1>11, Zenon DEF ForwardEnds
    <2>2. \A o \in Objects : [o EXCEPT !.terminated = TRUE] \in Objects
      BY Zenon
    <2>3. obj' \in [Conns -> Objects]
      BY <2>1, <2>2
    <2>4. open' \in [Conns -> BOOLEAN]
      BY <1>11, Zenon DEF ForwardEnds
    <2> QED
      BY <2>1, <2>3, <2>4, Zenon
  <1>12. ASSUME NEW c \in Conns, Unregister(c) PROVE TypeOK'
    BY <1>12, Zenon DEF Unregister
  <1>13. ASSUME NEW c \in Conns, TakeWaiting(c) PROVE TypeOK'
    BY <1>13, Zenon DEF TakeWaiting
  <1>14. ASSUME NEW c \in Conns, HandOver(c) PROVE TypeOK'
    <2>1. taken[c] \in Conns /\ taken' \in [Conns -> Conns \cup {None}]
      BY <1>14, Zenon DEF HandOver
    <2>2. \A d \in Conns : d # c => pc'[d] = pc[d] /\ taken'[d] = taken[d]
      BY <1>14, Zenon DEF HandOver
    <2>3. pc' \in [Conns -> PCs] /\ pc'[c] \in {"parked", "evict"}
      BY <1>14, Zenon DEF HandOver
    <2>4. /\ sent' \in [Conns -> Conns \cup {None}]
          /\ \A d \in Conns : sent[d] # None => sent'[d] # None
      BY <1>14, <2>1 DEF HandOver
    <2> QED
      BY <1>14, <2>1, <2>2, <2>3, <2>4 DEF HandOver
  <1>15. ASSUME NEW c \in Conns, Evict(c) PROVE TypeOK'
    BY <1>15, Zenon DEF Evict
  <1>16. ASSUME NEW c \in Conns, ParkedCloses(c) PROVE TypeOK'
    BY <1>16, Zenon DEF ParkedCloses
  <1>17. ASSUME NEW c \in Conns, PeerCloses(c) PROVE TypeOK'
    BY <1>17, Zenon DEF PeerCloses
  <1>18. CASE Shutdown
    BY <1>18, Zenon DEF Shutdown
  <1>19. CASE UNCHANGED vars
    BY <1>19, Zenon DEF vars
  <1> QED
    BY <1>1, <1>2, <1>3, <1>4, <1>5, <1>6, <1>7, <1>8, <1>9, <1>10, <1>11, <1>12, <1>13, <1>14,
       <1>15, <1>16, <1>17, <1>18, <1>19, Zenon
       DEF Next, Task

\* Every step preserves the inductive invariant.  Only four actions move a
\* sender; the others are local in the sense of LocalStep.
LEMMA NextIInv == IInv /\ [Next]_vars => IInv'
  <1> SUFFICES ASSUME IInv, [Next]_vars PROVE IInv'
    BY Zenon
  <1>t. TypeOK'
    BY TypeStep, Zenon
  <1>1. ASSUME NEW c \in Conns, HandshakeFails(c) PROVE IInv'
    BY <1>1, <1>t, LocalStep, Zenon
    DEF IInv, TypeOK, RegisteredInv, HandshakeFails, Goto, FirstPCs
  <1>2. ASSUME NEW c \in Conns, RegisterRejected(c) PROVE IInv'
    BY <1>2, <1>t, LocalStep, Zenon
    DEF IInv, TypeOK, RegisteredInv, RegisterRejected, Goto, FirstPCs
  <1>3. ASSUME NEW c \in Conns, Register(c) PROVE IInv'
    <2>1. Entry(c) \in Conns
      BY SidType, Zenon DEF IInv, TypeOK, Entry
    <2>2. /\ \A d \in Conns \ {c} : pc'[d] = pc[d] /\ sess'[d] = sess[d]
          /\ sess'[c] = Entry(c)
          /\ pc[c] = "handshake"
          /\ waiting' = waiting /\ taken' = taken /\ sent' = sent
      BY <1>3, Zenon DEF IInv, TypeOK, Register, Goto
    <2> QED
      BY <1>t, <2>1, <2>2, LocalStep, Zenon DEF FirstPCs
  <1>4. ASSUME NEW c \in Conns, Responded(c) PROVE IInv'
    <2>1. /\ \A d \in Conns \ {c} : pc'[d] = pc[d]
          /\ \/ pc[c] = "respondFirst" /\ pc'[c] = "wait"
             \/ pc[c] = "respondSecond" /\ pc'[c] = "take"
          /\ sess' = sess /\ waiting' = waiting /\ taken' = taken /\ sent' = sent
      BY <1>4, Zenon DEF IInv, TypeOK, Responded, Goto
    <2>2. pc'[c] = "wait" => sess'[c] \in Conns
      BY <2>1, Zenon DEF IInv, RegisteredInv
    <2> QED
      BY <1>t, <2>1, <2>2, LocalStep, Zenon DEF FirstPCs
  <1>5. ASSUME NEW c \in Conns, ResponseFails(c) PROVE IInv'
    BY <1>5, <1>t, LocalStep, Zenon
    DEF IInv, TypeOK, RegisteredInv, ResponseFails, Goto, FirstPCs
  <1>6. ASSUME NEW c \in Conns, ReceivePeer(c) PROVE IInv'
    BY <1>6, <1>t, LocalStep, Zenon
    DEF IInv, TypeOK, RegisteredInv, ReceivePeer, Goto, FirstPCs
  <1>7. ASSUME NEW c \in Conns, SenderDropped(c) PROVE IInv'
    BY <1>7, <1>t, LocalStep, Zenon
    DEF IInv, TypeOK, RegisteredInv, SenderDropped, Goto, FirstPCs
  <1>8. ASSUME NEW c \in Conns, ClosedWhileWaiting(c) PROVE IInv'
    BY <1>8, <1>t, LocalStep, Zenon
    DEF IInv, TypeOK, RegisteredInv, ClosedWhileWaiting, Goto, FirstPCs
  <1>9. ASSUME NEW c \in Conns, ForwardEnds(c) PROVE IInv'
    BY <1>9, <1>t, LocalStep, Zenon
    DEF IInv, TypeOK, RegisteredInv, ForwardEnds, Goto, FirstPCs
  <1>10. ASSUME NEW c \in Conns, Unregister(c) PROVE IInv'
    BY <1>10, <1>t, LocalStep, Zenon
    DEF IInv, TypeOK, RegisteredInv, Unregister, Goto, FirstPCs
  <1>11. ASSUME NEW c \in Conns, Evict(c) PROVE IInv'
    BY <1>11, <1>t, LocalStep, Zenon
    DEF IInv, TypeOK, RegisteredInv, Evict, Goto, FirstPCs
  <1>12. ASSUME NEW c \in Conns, ParkedCloses(c) PROVE IInv'
    BY <1>12, <1>t, LocalStep, Zenon
    DEF IInv, TypeOK, RegisteredInv, ParkedCloses, Goto, FirstPCs
  <1>13. ASSUME NEW c \in Conns, InsertWaiting(c) PROVE IInv'
    <2>0. /\ pc[c] = "insert" /\ pc'[c] = "respondFirst"
          /\ \A d \in Conns \ {c} : pc'[d] = pc[d]
          /\ waiting'[Sid(c)] = c
          /\ \A s \in Sessions \ {Sid(c)} : waiting'[s] = waiting[s]
          /\ taken' = taken /\ sent' = sent /\ sess' = sess
      BY <1>13, SidType, Zenon DEF InsertWaiting, IInv, TypeOK, Goto
    <2>c. /\ sent[c] = None
          /\ \A d \in Conns : taken[d] # c /\ sent[d] # c
      BY <2>0, NoneAssumption DEF IInv, TakenInv, SentInv, FirstPCs
    <2>1. RegisteredInv'
      BY <2>0, Zenon DEF IInv, RegisteredInv
    <2>2. WaitingInv'
      BY <2>0, <2>c, SidType DEF IInv, TypeOK, WaitingInv, FirstPCs
    <2>3. TakenInv'
      BY <2>0, <2>c, Zenon DEF IInv, TypeOK, TakenInv
    <2>4. SentInv'
      BY <2>0, <2>c, SidType DEF IInv, TypeOK, SentInv, FirstPCs
    <2> QED
      BY <1>t, <2>1, <2>2, <2>3, <2>4, Zenon DEF IInv
  <1>14. ASSUME NEW c \in Conns, LeaveWaiting(c) PROVE IInv'
    <2>0. /\ pc[c] = "leave" /\ pc'[c] = "unregister"
          /\ \A d \in Conns \ {c} : pc'[d] = pc[d]
          /\ \A s \in Sessions : waiting'[s] # None => waiting'[s] = waiting[s]
          /\ taken' = taken /\ sent' = sent /\ sess' = sess
      BY <1>14, SidType, Zenon DEF LeaveWaiting, IInv, TypeOK, Goto
    <2>1. RegisteredInv'
      BY <2>0, Zenon DEF IInv, RegisteredInv
    <2>2. WaitingInv'
      BY <2>0 DEF IInv, TypeOK, WaitingInv, FirstPCs
    <2>3. TakenInv'
      BY <2>0 DEF IInv, TypeOK, TakenInv, FirstPCs
    <2>4. SentInv'
      BY <2>0 DEF IInv, TypeOK, SentInv, FirstPCs
    <2> QED
      BY <1>t, <2>1, <2>2, <2>3, <2>4, Zenon DEF IInv
  <1>15. ASSUME NEW c \in Conns, TakeWaiting(c) PROVE IInv'
    <2> DEFINE w == waiting[Sid(c)]
    <2>0. /\ pc[c] = "take" /\ pc'[c] \in {"send", "evict"}
          /\ w # None => pc'[c] = "send"
          /\ \A d \in Conns \ {c} : pc'[d] = pc[d] /\ taken'[d] = taken[d]
          /\ taken'[c] = w /\ waiting'[Sid(c)] = None
          /\ \A s \in Sessions \ {Sid(c)} : waiting'[s] = waiting[s]
          /\ sent' = sent /\ sess' = sess
      BY <1>15, SidType, Zenon DEF TakeWaiting, IInv, TypeOK, Goto
    <2>c. /\ taken[c] = None
          /\ \A s \in Sessions : waiting[s] # c
          /\ \A d \in Conns : taken[d] # c /\ sent[d] # c
      BY <2>0, NoneAssumption
      DEF IInv, WaitingInv, TakenInv, SentInv, FirstPCs
    <2>w. w # None => /\ w \in Conns /\ Sid(w) = Sid(c)
                      /\ pc[w] \in FirstPCs /\ sent[w] = None
                      /\ \A d \in Conns : taken[d] # w /\ sent[d] # w
                      /\ \A s \in Sessions : waiting[s] = w => s = Sid(c)
      BY SidType DEF IInv, TypeOK, WaitingInv, SentInv
    <2> HIDE DEF w
    <2>1. RegisteredInv'
      BY <2>0, Zenon DEF IInv, RegisteredInv
    <2>2. WaitingInv'
      BY <2>0, <2>c, <2>w, SidType DEF IInv, TypeOK, WaitingInv
    <2>3. TakenInv'
      <3> SUFFICES ASSUME NEW d \in Conns, taken'[d] # None
                   PROVE  /\ pc'[d] = "send"
                          /\ Sid(taken'[d]) = Sid(d)
                          /\ pc'[taken'[d]] \in FirstPCs
                          /\ sent'[taken'[d]] = None
                          /\ \A e \in Conns : taken'[e] = taken'[d] => e = d
        BY Zenon DEF TakenInv
      <3>1. CASE d = c
        BY <3>1, <2>0, <2>c, <2>w, Zenon DEF IInv, TypeOK, FirstPCs
      <3>2. CASE d # c
        BY <3>2, <2>0, <2>c, <2>w DEF IInv, TypeOK, TakenInv
      <3> QED
        BY <3>1, <3>2, Zenon
    <2>4. SentInv'
      BY <2>0, <2>c, <2>w, NoneAssumption DEF IInv, TypeOK, SentInv, FirstPCs
    <2> QED
      BY <1>t, <2>1, <2>2, <2>3, <2>4, Zenon DEF IInv
  <1>16. ASSUME NEW c \in Conns, HandOver(c) PROVE IInv'
    <2> DEFINE w == taken[c]
    <2>0. /\ pc[c] = "send" /\ w \in Conns
          /\ \A d \in Conns \ {c} : pc'[d] = pc[d] /\ taken'[d] = taken[d]
          /\ taken'[c] = None /\ waiting' = waiting /\ sess' = sess
          /\ \/ pc'[c] = "evict" /\ sent' = sent
             \/ /\ pc'[c] = "parked" /\ sent'[w] = c
                /\ \A d \in Conns \ {w} : sent'[d] = sent[d]
      BY <1>16 DEF HandOver, IInv, TypeOK, Goto
    <2>w. /\ Sid(w) = Sid(c) /\ pc[w] \in FirstPCs /\ sent[w] = None
          /\ \A d \in Conns : taken[d] = w => d = c
          /\ \A d \in Conns : sent[d] # w
          /\ \A s \in Sessions : waiting[s] # w
      BY <2>0, NoneAssumption DEF IInv, WaitingInv, TakenInv, SentInv
    <2>c. /\ w # c /\ sent[c] = None
          /\ \A s \in Sessions : waiting[s] # c
          /\ \A d \in Conns : taken[d] # c /\ sent[d] # c
      BY <2>0, <2>w, NoneAssumption
      DEF IInv, WaitingInv, TakenInv, SentInv, FirstPCs
    <2> HIDE DEF w
    <2>1. RegisteredInv'
      BY <2>0, Zenon DEF IInv, RegisteredInv
    <2>2. WaitingInv'
      BY <2>0, <2>c, <2>w DEF IInv, TypeOK, WaitingInv
    <2>3. TakenInv'
      BY <2>0, <2>c, <2>w DEF IInv, TypeOK, TakenInv
    <2>4. SentInv'
      <3>1. CASE sent' = sent
        BY <3>1, <2>0, <2>c, <2>w DEF IInv, TypeOK, SentInv
      <3>2. CASE sent' # sent
        <4>1. /\ pc'[c] = "parked" /\ sent'[w] = c
              /\ \A d \in Conns \ {w} : sent'[d] = sent[d]
          BY <3>2, <2>0, Zenon
        <4>2. ASSUME NEW d \in Conns, sent'[d] # None
              PROVE  /\ pc'[d] \in FirstPCs
                     /\ pc'[sent'[d]] \in {"parked", "done"}
                     /\ sent'[d] # d
                     /\ Sid(sent'[d]) = Sid(d)
                     /\ sent'[sent'[d]] = None
                     /\ \A s \in Sessions : waiting'[s] # sent'[d]
                     /\ \A e \in Conns : taken'[e] # sent'[d]
                     /\ \A e \in Conns : sent'[e] = sent'[d] => e = d
          <5>1. CASE d = w
            BY <5>1, <4>1, <2>0, <2>c, <2>w, NoneAssumption DEF IInv, TypeOK
          <5>2. CASE d # w
            BY <5>2, <4>1, <4>2, <2>0, <2>c, <2>w, NoneAssumption
            DEF IInv, TypeOK, SentInv
          <5> QED
            BY <5>1, <5>2, Zenon
        <4> QED
          BY <4>2, Zenon DEF SentInv
      <3> QED
        BY <3>1, <3>2, Zenon
    <2> QED
      BY <1>t, <2>1, <2>2, <2>3, <2>4, Zenon DEF IInv
  <1>17. ASSUME UNCHANGED <<pc, sess, waiting, taken, sent>> PROVE IInv'
    BY <1>17, <1>t
    DEF IInv, RegisteredInv, WaitingInv, TakenInv, SentInv
  <1> QED
    BY <1>1, <1>2, <1>3, <1>4, <1>5, <1>6, <1>7, <1>8, <1>9, <1>10, <1>11, <1>12, <1>13, <1>14,
       <1>15, <1>16, <1>17, Zenon
       DEF Next, Task, PeerCloses, Shutdown, vars

-----------------------------------------------------------------------------

\* The inductive invariant holds in every reachable state.
THEOREM InductiveInvariant == Spec => []IInv
  BY InitIInv, NextIInv, PTL DEF Spec

\* Type correctness of the relay: in particular handle_connection never sends
\* through a sender it does not hold and never forwards without a peer.
THEOREM TypeCorrect == Spec => []TypeOK
  <1>1. IInv => TypeOK
    BY Zenon DEF IInv
  <1> QED
    BY <1>1, InductiveInvariant, PTL

\* However many endpoints connect, reconnect and disconnect, no connection is
\* ever handed to two bridges: waiting_peers.remove and the oneshot channel
\* give each sender to one task only.
THEOREM HandOverOnce == Spec => []BridgedOnce
  <1>1. IInv => BridgedOnce
    BY Zenon DEF IInv, SentInv, BridgedOnce
  <1> QED
    BY <1>1, InductiveInvariant, PTL

\* Whoever waits, was taken out of the waiting map or was bridged has registered,
\* and so has the task that is about to hand its connection over.
HoldersRegistered ==
    /\ \A s \in Sessions : waiting[s] # None => sess[waiting[s]] # None
    /\ \A c \in Conns : taken[c] # None => sess[taken[c]] # None
    /\ \A c \in Conns :
          sent[c] # None => sess[c] # None /\ sess[sent[c]] # None
    /\ \A c \in Conns :
          pc[c] \in {"insert", "respondSecond", "take", "send"} => sess[c] # None

\* A registration is never taken back, and only a registered task puts itself
\* into the waiting map or sends itself to a waiting one.
LEMMA HoldersStep ==
    IInv /\ HoldersRegistered /\ [Next]_vars => HoldersRegistered'
  <1> SUFFICES ASSUME IInv, HoldersRegistered, [Next]_vars
               PROVE  HoldersRegistered'
    BY Zenon
  <1>t. TypeOK /\ TypeOK'
    BY TypeStep, Zenon DEF IInv
  <1>l. ASSUME waiting' = waiting, taken' = taken, sent' = sent, sess' = sess,
               \A d \in Conns :
                   pc'[d] \in {"insert", "respondSecond", "take", "send"}
                       => sess[d] # None
        PROVE  HoldersRegistered'
    BY <1>l, Zenon DEF HoldersRegistered
  <1>1. ASSUME NEW c \in Conns, Register(c) PROVE HoldersRegistered'
    <2>1. /\ \A d \in Conns \ {c} : pc'[d] = pc[d] /\ sess'[d] = sess[d]
          /\ sess'[c] # None
          /\ waiting' = waiting /\ taken' = taken /\ sent' = sent
      BY <1>1, <1>t, SidType, NoneAssumption DEF Register, Entry, TypeOK, Goto
    <2> QED
      BY <2>1, <1>t DEF HoldersRegistered, TypeOK
  <1>2. ASSUME NEW c \in Conns, InsertWaiting(c) PROVE HoldersRegistered'
    BY <1>2, <1>t, SidType, NoneAssumption
    DEF HoldersRegistered, InsertWaiting, TypeOK, Goto
  <1>3. ASSUME NEW c \in Conns, LeaveWaiting(c) PROVE HoldersRegistered'
    BY <1>3, <1>t, SidType, NoneAssumption, Zenon
    DEF HoldersRegistered, LeaveWaiting, TypeOK, Goto
  <1>4. ASSUME NEW c \in Conns, TakeWaiting(c) PROVE HoldersRegistered'
    BY <1>4, <1>t, SidType, NoneAssumption
    DEF HoldersRegistered, TakeWaiting, TypeOK, Goto
  <1>5. ASSUME NEW c \in Conns, HandOver(c) PROVE HoldersRegistered'
    BY <1>5, <1>t, SidType, NoneAssumption
    DEF HoldersRegistered, HandOver, TypeOK, Goto
  <1>6. ASSUME NEW c \in Conns,
               \/ HandshakeFails(c) \/ RegisterRejected(c) \/ Responded(c)
               \/ ResponseFails(c) \/ ReceivePeer(c) \/ SenderDropped(c)
               \/ ClosedWhileWaiting(c) \/ ForwardEnds(c) \/ Unregister(c)
               \/ Evict(c) \/ ParkedCloses(c)
        PROVE  HoldersRegistered'
    <2>1. /\ waiting' = waiting /\ taken' = taken /\ sent' = sent /\ sess' = sess
          /\ \A d \in Conns \ {c} : pc'[d] = pc[d]
          /\ pc'[c] \in {"insert", "respondSecond", "take", "send"}
                => pc[c] = "respondSecond"
      BY <1>6, <1>t
      DEF HandshakeFails, RegisterRejected, Responded, ResponseFails,
          ReceivePeer, SenderDropped, ClosedWhileWaiting, ForwardEnds,
          Unregister, Evict, ParkedCloses, TypeOK, Goto
    <2> QED
      BY <2>1, <1>l, Zenon DEF HoldersRegistered
  <1>7. ASSUME UNCHANGED <<pc, sess, waiting, taken, sent>>
        PROVE  HoldersRegistered'
    BY <1>7, <1>l, Zenon DEF HoldersRegistered
  <1> QED
    BY <1>1, <1>2, <1>3, <1>4, <1>5, <1>6, <1>7, Zenon
    DEF Next, Task, PeerCloses, Shutdown, vars

\* Every bridge joins a Client and a Host of one session, however many sessions
\* and connections there are, unless an endpoint of that session has connected
\* twice: two connections of one role that were bridged are themselves the retry.
THEOREM PairsHold == Spec => []PairsUnlessRetried
  <1>1. Init => HoldersRegistered
    BY NoneAssumption, Zenon DEF Init, HoldersRegistered
  <1>2. IInv /\ HoldersRegistered => PairsUnlessRetried
    <2> SUFFICES ASSUME IInv, HoldersRegistered, NEW c \in Conns, sent[c] # None
                 PROVE  /\ Sid(sent[c]) = Sid(c)
                        /\ Token[sent[c]].role # Token[c].role \/ Retried(Sid(c))
      BY Zenon DEF PairsUnlessRetried
    <2>1. sent[c] \in Conns /\ sent[c] # c /\ Sid(sent[c]) = Sid(c)
      BY DEF IInv, TypeOK, SentInv
    <2> QED
      BY <2>1, Zenon DEF Retried, HoldersRegistered
  <1> QED
    BY <1>1, <1>2, HoldersStep, InductiveInvariant, PTL DEF Spec

-----------------------------------------------------------------------------
\* The life of the session objects.

\* The task that created a session object is in one of these while the table
\* refers to it.
CreatorPCs == {"insert", "respondFirst", "wait", "leave", "forward",
               "unregister", "unanswered"}

PairedPCs == {"respondSecond", "take", "send"}

\* An object is fresh until its creator registers; tasks hold objects of their
\* own session; the table refers to an object through its creator, which clears
\* the entry on its way out; a recorded role is the role of a task that holds
\* the object; whoever looks for a waiting peer found both roles recorded.
ObjectInv ==
    /\ \A c \in Conns : pc[c] = "handshake" => sess[c] = None /\ obj[c] = NewSession
    /\ \A c \in Conns :
          sess[c] # None => Sid(sess[c]) = Sid(c) /\ pc[sess[c]] # "handshake"
    /\ \A s \in Sessions :
          table[s] # None => /\ Sid(table[s]) = s /\ sess[table[s]] = table[s]
                             /\ pc[table[s]] \in CreatorPCs
    /\ \A o \in Conns : \A r \in obj[o].connected :
          \E e \in Conns : sess[e] = o /\ Token[e].role = r
    /\ \A c \in Conns : pc[c] \in PairedPCs => obj[sess[c]].connected = Roles
    /\ \A c \in Conns : sent[c] # None => obj[sess[sent[c]]].connected = Roles

\* Steps that touch neither the table nor the objects, and move one task
\* forward, keep what is known about them.
LEMMA ObjectLocal ==
  ASSUME IInv, TypeOK', HoldersRegistered, ObjectInv, TerminatedLeavesTable,
         NEW c \in Conns,
         table' = table, obj' = obj, sess' = sess,
         \A d \in Conns \ {c} : pc'[d] = pc[d],
         pc'[c] # "handshake", pc[c] # "unregister",
         pc[c] \in CreatorPCs => pc'[c] \in CreatorPCs,
         pc'[c] \in PairedPCs => pc[c] \in PairedPCs,
         \A d \in Conns : sent'[d] # None => sent'[d] = sent[d] \/ pc[sent'[d]] = "send"
  PROVE  ObjectInv' /\ TerminatedLeavesTable'
  <1>0. /\ \A d \in Conns : pc'[d] = "handshake" => pc[d] = "handshake"
        /\ \A d \in Conns : pc[d] \in CreatorPCs => pc'[d] \in CreatorPCs
        /\ \A d \in Conns : pc'[d] \in PairedPCs => pc[d] \in PairedPCs
        /\ \A d \in Conns : pc[d] = "unregister" => pc'[d] = "unregister"
    BY Zenon
  <1>1. \A d \in Conns : pc'[d] = "handshake" => sess'[d] = None /\ obj'[d] = NewSession
    BY <1>0 DEF ObjectInv
  <1>2. \A d \in Conns :
          sess'[d] # None => Sid(sess'[d]) = Sid(d) /\ pc'[sess'[d]] # "handshake"
    BY <1>0 DEF ObjectInv, IInv, TypeOK
  <1>3. \A s \in Sessions :
          table'[s] # None => /\ Sid(table'[s]) = s /\ sess'[table'[s]] = table'[s]
                              /\ pc'[table'[s]] \in CreatorPCs
    BY <1>0 DEF ObjectInv, IInv, TypeOK
  <1>4. \A o \in Conns : \A r \in obj'[o].connected :
          \E e \in Conns : sess'[e] = o /\ Token[e].role = r
    BY DEF ObjectInv
  <1>5. \A d \in Conns : pc'[d] \in PairedPCs => obj'[sess'[d]].connected = Roles
    BY <1>0, Zenon DEF ObjectInv
  <1>6. ASSUME NEW d \in Conns, sent'[d] # None
        PROVE  obj[sess[sent'[d]]].connected = Roles
    <2>1. sent'[d] \in Conns
      BY <1>6, Zenon DEF TypeOK
    <2>2. CASE sent'[d] = sent[d]
      BY <1>6, <2>2 DEF ObjectInv
    <2>3. CASE pc[sent'[d]] = "send"
      BY <2>1, <2>3, Zenon DEF ObjectInv, PairedPCs
    <2> QED
      BY <1>6, <2>2, <2>3, Zenon
  <1>7. TerminatedLeavesTable'
    BY <1>0 DEF TerminatedLeavesTable
  <1> QED
    BY <1>1, <1>2, <1>3, <1>4, <1>5, <1>6, <1>7, Zenon DEF ObjectInv

\* register_or_join enters a fresh object into an empty slot of the table, or
\* records the second role in the object it finds there.
LEMMA ObjectRegister ==
  ASSUME IInv, TypeOK', HoldersRegistered, ObjectInv, TerminatedLeavesTable,
         NEW c \in Conns, Register(c)
  PROVE  ObjectInv' /\ TerminatedLeavesTable'
  <1> DEFINE o == Entry(c)
             role == Token[c].role
  <1>0. /\ o \in Conns /\ Sid(c) \in Sessions /\ role \in Roles
        /\ table[Sid(c)] # None => o = table[Sid(c)]
        /\ table[Sid(c)] = None => o = c
    BY SidType, TokenAssumption, Zenon DEF IInv, TypeOK, Entry
  <1>1. /\ pc[c] = "handshake" /\ sess[c] = None /\ obj[c] = NewSession
        /\ \A d \in Conns : sess[d] # c
    BY NoneAssumption DEF Register, ObjectInv
  <1>2. /\ \A d \in Conns \ {c} : pc'[d] = pc[d] /\ sess'[d] = sess[d]
        /\ sess'[c] = o /\ pc'[c] \in {"respondSecond", "insert"}
        /\ pc'[c] = "respondSecond" <=> obj[o].connected \cup {role} = Roles
        /\ table'[Sid(c)] = o /\ \A s \in Sessions \ {Sid(c)} : table'[s] = table[s]
        /\ sent' = sent
    BY <1>0 DEF Register, Goto, IInv, TypeOK, IsPaired, Joined
  <1>3. /\ \A d \in Conns \ {o} : obj'[d] = obj[d]
        /\ obj'[o].connected = obj[o].connected \cup {role}
        /\ obj'[o].terminated = obj[o].terminated
    BY <1>0 DEF Register, IInv, TypeOK, Joined
  <1>4. Sid(o) = Sid(c) /\ sess'[o] = o /\ pc'[o] \in CreatorPCs
    <2>1. CASE table[Sid(c)] = None
      <3>1. obj[c].connected \cup {role} # Roles
        BY <1>1 DEF NewSession, Roles
      <3> QED
        BY <2>1, <3>1, <1>0, <1>2, Zenon DEF CreatorPCs
    <2>2. CASE table[Sid(c)] # None
      <3>1. Sid(o) = Sid(c) /\ sess[o] = o /\ pc[o] \in CreatorPCs
        BY <2>2, <1>0 DEF ObjectInv
      <3>2. o # c
        BY <3>1, <1>1, Zenon DEF CreatorPCs
      <3> QED
        BY <3>1, <3>2, <1>0, <1>2, Zenon
    <2> QED
      BY <2>1, <2>2, Zenon
  <1> HIDE DEF o, role
  <1>a. \A d \in Conns : pc'[d] = "handshake" => sess'[d] = None /\ obj'[d] = NewSession
    <2> SUFFICES ASSUME NEW d \in Conns, pc'[d] = "handshake"
                 PROVE  sess'[d] = None /\ obj'[d] = NewSession
      BY Zenon
    <2>1. d # c /\ d # o
      BY <1>2, <1>4, Zenon DEF CreatorPCs
    <2> QED
      BY <2>1, <1>2, <1>3 DEF ObjectInv
  <1>b. \A d \in Conns :
          sess'[d] # None => Sid(sess'[d]) = Sid(d) /\ pc'[sess'[d]] # "handshake"
    <2> SUFFICES ASSUME NEW d \in Conns, sess'[d] # None
                 PROVE  Sid(sess'[d]) = Sid(d) /\ pc'[sess'[d]] # "handshake"
      BY Zenon
    <2>1. CASE d = c
      BY <2>1, <1>2, <1>4, Zenon DEF CreatorPCs
    <2>2. CASE d # c
      <3>1. sess'[d] = sess[d] /\ sess[d] \in Conns /\ sess[d] # c
        BY <2>2, <1>1, <1>2 DEF IInv, TypeOK
      <3> QED
        BY <3>1, <1>2 DEF ObjectInv
    <2> QED
      BY <2>1, <2>2, Zenon
  <1>c. \A s \in Sessions :
          table'[s] # None => /\ Sid(table'[s]) = s /\ sess'[table'[s]] = table'[s]
                              /\ pc'[table'[s]] \in CreatorPCs
    <2> SUFFICES ASSUME NEW s \in Sessions, table'[s] # None
                 PROVE  /\ Sid(table'[s]) = s /\ sess'[table'[s]] = table'[s]
                        /\ pc'[table'[s]] \in CreatorPCs
      BY Zenon
    <2>1. CASE s = Sid(c)
      BY <2>1, <1>2, <1>4, Zenon
    <2>2. CASE s # Sid(c)
      <3>1. /\ table'[s] = table[s] /\ table[s] \in Conns
            /\ Sid(table[s]) = s /\ sess[table[s]] = table[s]
            /\ pc[table[s]] \in CreatorPCs
        BY <2>2, <1>2 DEF ObjectInv, IInv, TypeOK
      <3>2. table[s] # c
        BY <2>2, <3>1, Zenon
      <3> QED
        BY <3>1, <3>2, <1>2, Zenon
    <2> QED
      BY <2>1, <2>2, Zenon
  <1>d. \A q \in Conns : \A r \in obj'[q].connected :
          \E e \in Conns : sess'[e] = q /\ Token[e].role = r
    <2> SUFFICES ASSUME NEW q \in Conns, NEW r \in obj'[q].connected
                 PROVE  \E e \in Conns : sess'[e] = q /\ Token[e].role = r
      BY Zenon
    <2>1. CASE q = o /\ r = role
      BY <2>1, <1>2, Zenon DEF role
    <2>2. CASE ~(q = o /\ r = role)
      <3>1. r \in obj[q].connected
        BY <2>2, <1>3, Zenon
      <3>2. PICK e \in Conns : sess[e] = q /\ Token[e].role = r
        BY <3>1 DEF ObjectInv
      <3>3. e # c
        BY <3>2, <1>1, NoneAssumption, Zenon
      <3> QED
        BY <3>2, <3>3, <1>2, Zenon
    <2> QED
      BY <2>1, <2>2, Zenon
  <1>e. \A q \in Conns : obj[q].connected = Roles => obj'[q].connected = Roles
    BY <1>0, <1>3, Zenon
  <1>f. \A d \in Conns : pc'[d] \in PairedPCs => obj'[sess'[d]].connected = Roles
    <2> SUFFICES ASSUME NEW d \in Conns, pc'[d] \in PairedPCs
                 PROVE  obj'[sess'[d]].connected = Roles
      BY Zenon
    <2>1. CASE d = c
      BY <2>1, <1>2, <1>3, Zenon DEF PairedPCs
    <2>2. CASE d # c
      <3>1. pc[d] \in PairedPCs /\ sess'[d] = sess[d] /\ sess[d] \in Conns
        BY <2>2, <1>2 DEF HoldersRegistered, PairedPCs, IInv, TypeOK
      <3> QED
        BY <3>1, <1>e, Zenon DEF ObjectInv
    <2> QED
      BY <2>1, <2>2, Zenon
  <1>g. \A d \in Conns : sent'[d] # None => obj'[sess'[sent'[d]]].connected = Roles
    <2> SUFFICES ASSUME NEW d \in Conns, sent[d] # None
                 PROVE  obj'[sess'[sent[d]]].connected = Roles
      BY <1>2, Zenon
    <2>1. sent[d] \in Conns /\ sess[sent[d]] \in Conns
      BY Zenon DEF HoldersRegistered, IInv, TypeOK
    <2>2. sent[d] # c
      BY <1>1, <2>1, NoneAssumption, Zenon
    <2> QED
      BY <2>1, <2>2, <1>2, <1>e DEF ObjectInv
  <1>h. TerminatedLeavesTable'
    <2> SUFFICES ASSUME NEW s \in Sessions, table'[s] # None, obj'[table'[s]].terminated
                 PROVE  \E d \in Conns : pc'[d] = "unregister" /\ sess'[d] = table'[s]
      BY Zenon DEF TerminatedLeavesTable
    <2>1. table[s] = table'[s] /\ obj[table[s]].terminated
      <3>1. CASE s = Sid(c) /\ table[Sid(c)] = None
        BY <3>1, <1>0, <1>1, <1>2, <1>3 DEF NewSession
      <3>2. CASE ~(s = Sid(c) /\ table[Sid(c)] = None)
        <4>1. table[s] = table'[s] /\ table[s] \in Conns
          BY <3>2, <1>0, <1>2 DEF IInv, TypeOK
        <4> QED
          BY <4>1, <1>3, Zenon
      <3> QED
        BY <3>1, <3>2, Zenon
    <2>2. PICK d \in Conns : pc[d] = "unregister" /\ sess[d] = table[s]
      BY <2>1, Zenon DEF TerminatedLeavesTable
    <2> QED
      BY <2>1, <2>2, <1>1, <1>2, Zenon
  <1> QED
    BY <1>a, <1>b, <1>c, <1>d, <1>f, <1>g, <1>h, Zenon DEF ObjectInv

\* forward_session marks the object of its task terminated, and the task goes
\* on to take it out of the table.
LEMMA ObjectTerminate ==
  ASSUME IInv, TypeOK', HoldersRegistered, ObjectInv, TerminatedLeavesTable,
         NEW c \in Conns, ForwardEnds(c)
  PROVE  ObjectInv' /\ TerminatedLeavesTable'
  <1>1. /\ pc[c] = "forward" /\ pc'[c] = "unregister" /\ sess[c] \in Conns
        /\ \A d \in Conns \ {c} : pc'[d] = pc[d]
        /\ table' = table /\ sess' = sess /\ sent' = sent
    BY Zenon DEF ForwardEnds, Goto, IInv, TypeOK
  <1>2. /\ \A o \in Conns \ {sess[c]} : obj'[o] = obj[o]
        /\ \A o \in Conns : obj'[o].connected = obj[o].connected
    BY <1>1 DEF ForwardEnds, IInv, TypeOK
  <1>3. \A d \in Conns : pc'[d] = "handshake" => sess'[d] = None /\ obj'[d] = NewSession
    <2>1. pc[sess[c]] # "handshake"
      BY <1>1, NoneAssumption, Zenon DEF ObjectInv
    <2> QED
      BY <2>1, <1>1, <1>2 DEF ObjectInv
  <1>4. \A d \in Conns :
          sess'[d] # None => Sid(sess'[d]) = Sid(d) /\ pc'[sess'[d]] # "handshake"
    BY <1>1 DEF ObjectInv, IInv, TypeOK
  <1>5. \A s \in Sessions :
          table'[s] # None => /\ Sid(table'[s]) = s /\ sess'[table'[s]] = table'[s]
                              /\ pc'[table'[s]] \in CreatorPCs
    <2> SUFFICES ASSUME NEW s \in Sessions, table[s] # None
                 PROVE  /\ Sid(table[s]) = s /\ sess[table[s]] = table[s]
                        /\ pc'[table[s]] \in CreatorPCs
      BY <1>1, Zenon
    <2>1. /\ Sid(table[s]) = s /\ sess[table[s]] = table[s] /\ pc[table[s]] \in CreatorPCs
      BY Zenon DEF ObjectInv
    <2>2. table[s] \in Conns
      BY Zenon DEF IInv, TypeOK
    <2> QED
      BY <1>1, <2>1, <2>2, Zenon DEF CreatorPCs
  <1>6. \A o \in Conns : \A r \in obj'[o].connected :
          \E e \in Conns : sess'[e] = o /\ Token[e].role = r
    BY <1>1, <1>2 DEF ObjectInv
  <1>7. \A d \in Conns : pc'[d] \in PairedPCs => obj'[sess'[d]].connected = Roles
    <2> SUFFICES ASSUME NEW d \in Conns, pc'[d] \in PairedPCs
                 PROVE  obj'[sess[d]].connected = Roles
      BY <1>1, Zenon
    <2>1. pc[d] \in PairedPCs /\ sess[d] \in Conns
      BY <1>1 DEF PairedPCs, HoldersRegistered, IInv, TypeOK
    <2> QED
      BY <2>1, <1>2, Zenon DEF ObjectInv
  <1>8. \A d \in Conns : sent'[d] # None => obj'[sess'[sent'[d]]].connected = Roles
    <2> SUFFICES ASSUME NEW d \in Conns, sent[d] # None
                 PROVE  obj'[sess[sent[d]]].connected = Roles
      BY <1>1, Zenon
    <2>1. sess[sent[d]] \in Conns
      BY DEF HoldersRegistered, IInv, TypeOK
    <2> QED
      BY <2>1, <1>2, Zenon DEF ObjectInv
  <1>9. TerminatedLeavesTable'
    <2> SUFFICES ASSUME NEW s \in Sessions, table[s] # None, obj'[table[s]].terminated
                 PROVE  \E d \in Conns : pc'[d] = "unregister" /\ sess[d] = table[s]
      BY <1>1, Zenon DEF TerminatedLeavesTable
    <2>1. CASE table[s] = sess[c]
      BY <2>1, <1>1, Zenon
    <2>2. CASE table[s] # sess[c]
      <3>1. obj[table[s]].terminated
        BY <2>2, <1>2, Zenon DEF IInv, TypeOK
      <3> QED
        BY <3>1, <1>1 DEF TerminatedLeavesTable
    <2> QED
      BY <2>1, <2>2, Zenon
  <1> QED
    BY <1>3, <1>4, <1>5, <1>6, <1>7, <1>8, <1>9, Zenon DEF ObjectInv

\* remove_session clears the entry of the task's session: the task's own object
\* if it is there, and the task is done with it.
LEMMA ObjectRemove ==
  ASSUME IInv, TypeOK', HoldersRegistered, ObjectInv, TerminatedLeavesTable,
         NEW c \in Conns, Unregister(c) \/ Evict(c)
  PROVE  ObjectInv' /\ TerminatedLeavesTable'
  <1>1. /\ pc[c] \in {"unregister", "evict"} /\ pc'[c] = "done"
        /\ \A d \in Conns \ {c} : pc'[d] = pc[d]
        /\ Sid(c) \in Sessions /\ table'[Sid(c)] = None
        /\ \A s \in Sessions \ {Sid(c)} : table'[s] = table[s]
        /\ sess' = sess /\ sent' = sent /\ obj' = obj
    BY SidType, Zenon DEF Unregister, Evict, Goto, IInv, TypeOK
  <1>2. \A d \in Conns : pc'[d] = "handshake" => sess'[d] = None /\ obj'[d] = NewSession
    BY <1>1 DEF ObjectInv
  <1>3. \A d \in Conns :
          sess'[d] # None => Sid(sess'[d]) = Sid(d) /\ pc'[sess'[d]] # "handshake"
    BY <1>1 DEF ObjectInv, IInv, TypeOK
  <1>4. ASSUME NEW s \in Sessions, table'[s] # None
        PROVE  /\ s # Sid(c) /\ table'[s] = table[s] /\ table[s] \in Conns /\ table[s] # c
               /\ Sid(table[s]) = s /\ sess[table[s]] = table[s] /\ pc[table[s]] \in CreatorPCs
    BY <1>1, <1>4 DEF ObjectInv, IInv, TypeOK
  <1>5. \A s \in Sessions :
          table'[s] # None => /\ Sid(table'[s]) = s /\ sess'[table'[s]] = table'[s]
                              /\ pc'[table'[s]] \in CreatorPCs
    BY <1>1, <1>4
  <1>6. /\ \A o \in Conns : \A r \in obj'[o].connected :
             \E e \in Conns : sess'[e] = o /\ Token[e].role = r
        /\ \A d \in Conns : pc'[d] \in PairedPCs => obj'[sess'[d]].connected = Roles
        /\ \A d \in Conns : sent'[d] # None => obj'[sess'[sent'[d]]].connected = Roles
    BY <1>1 DEF ObjectInv, PairedPCs
  <1>7. TerminatedLeavesTable'
    <2> SUFFICES ASSUME NEW s \in Sessions, table'[s] # None, obj[table'[s]].terminated
                 PROVE  \E d \in Conns : pc'[d] = "unregister" /\ sess[d] = table[s]
      BY <1>1, <1>4 DEF TerminatedLeavesTable
    <2>1. PICK d \in Conns : pc[d] = "unregister" /\ sess[d] = table[s]
      BY <1>4, Zenon DEF TerminatedLeavesTable
    <2>2. Sid(d) = s
      BY <2>1, <1>4, NoneAssumption DEF ObjectInv
    <2> QED
      BY <2>1, <2>2, <1>1, <1>4, Zenon
  <1> QED
    BY <1>2, <1>3, <1>5, <1>6, <1>7, Zenon DEF ObjectInv

\* Every step keeps what is known about table and objects.
LEMMA ObjectStep ==
    IInv /\ HoldersRegistered /\ ObjectInv /\ TerminatedLeavesTable /\ [Next]_vars
        => ObjectInv' /\ TerminatedLeavesTable'
  <1> SUFFICES ASSUME IInv, HoldersRegistered, ObjectInv, TerminatedLeavesTable, [Next]_vars
               PROVE  ObjectInv' /\ TerminatedLeavesTable'
    BY Zenon
  <1>t. TypeOK /\ TypeOK'
    BY TypeStep, Zenon DEF IInv
  <1>1. ASSUME NEW c \in Conns,
               \/ HandshakeFails(c) \/ RegisterRejected(c) \/ InsertWaiting(c)
               \/ Responded(c) \/ ResponseFails(c) \/ ReceivePeer(c) \/ SenderDropped(c)
               \/ ClosedWhileWaiting(c) \/ LeaveWaiting(c) \/ TakeWaiting(c)
               \/ ParkedCloses(c)
        PROVE  ObjectInv' /\ TerminatedLeavesTable'
    <2>1. /\ table' = table /\ obj' = obj /\ sess' = sess /\ sent' = sent
          /\ \A d \in Conns \ {c} : pc'[d] = pc[d]
          /\ \/ pc[c] \in {"handshake", "respondSecond", "take", "parked"}
             \/ pc[c] \in CreatorPCs \ {"unregister"} /\ pc'[c] \in CreatorPCs
          /\ pc'[c] # "handshake"
          /\ pc'[c] \in PairedPCs => pc[c] \in PairedPCs
      BY <1>1, <1>t
      DEF HandshakeFails, RegisterRejected, InsertWaiting, Responded, ResponseFails,
          ReceivePeer, SenderDropped, ClosedWhileWaiting, LeaveWaiting, TakeWaiting,
          ParkedCloses, Goto, TypeOK, CreatorPCs, PairedPCs
    <2>2. pc[c] # "unregister" /\ (pc[c] \in CreatorPCs => pc'[c] \in CreatorPCs)
      BY <2>1, Zenon DEF CreatorPCs
    <2> QED
      BY <2>1, <2>2, <1>t, ObjectLocal, Zenon
  <1>2. ASSUME NEW c \in Conns, HandOver(c)
        PROVE  ObjectInv' /\ TerminatedLeavesTable'
    <2>1. /\ table' = table /\ obj' = obj /\ sess' = sess
          /\ \A d \in Conns \ {c} : pc'[d] = pc[d]
          /\ pc[c] = "send" /\ pc'[c] \in {"parked", "evict"}
          /\ \A d \in Conns : sent'[d] = sent[d] \/ sent'[d] = c
      BY <1>2, <1>t DEF HandOver, Goto, TypeOK
    <2> QED
      BY <2>1, <1>t, ObjectLocal, Zenon DEF CreatorPCs, PairedPCs
  <1>3. ASSUME UNCHANGED <<pc, table, obj, sess, sent>>
        PROVE  ObjectInv' /\ TerminatedLeavesTable'
    BY <1>3 DEF ObjectInv, TerminatedLeavesTable
  <1> QED
    BY <1>1, <1>2, <1>3, <1>t, ObjectRegister, ObjectTerminate, ObjectRemove, Zenon
    DEF Next, Task, PeerCloses, Shutdown, vars

\* The life of a RelaySession object, for any number of sessions, connections and
\* retries: without a retry the two bridged tasks account to one object, a terminated
\* object leaves the table before anyone can join it, and an entry that outlives its
\* tasks is one whose creator could not write its handshake response.
THEOREM SessionsHold == Spec => []SessionsAccounted
  <1>1. Init => HoldersRegistered /\ ObjectInv /\ TerminatedLeavesTable
    BY NoneAssumption
    DEF Init, HoldersRegistered, ObjectInv, TerminatedLeavesTable, NewSession, PairedPCs
  <1>2. IInv /\ HoldersRegistered /\ ObjectInv => SharedUnlessRetried
    <2> SUFFICES ASSUME IInv, HoldersRegistered, ObjectInv,
                        NEW c \in Conns, pc[c] = "forward", ~Retried(Sid(c))
                 PROVE  sess[sent[c]] = sess[c]
      BY Zenon DEF SharedUnlessRetried
    <2> DEFINE d == sent[c]
    <2>1. /\ d \in Conns /\ d # c /\ Sid(d) = Sid(c) /\ sess[c] # None
          /\ sess[d] \in Conns /\ obj[sess[d]].connected = Roles
      BY NoneAssumption DEF IInv, TypeOK, SentInv, HoldersRegistered, ObjectInv
    <2>2. Token[c].role # Token[d].role /\ {Token[c].role, Token[d].role} \subseteq Roles
      BY <2>1, TokenAssumption, NoneAssumption DEF Retried
    <2>3. PICK e \in Conns : sess[e] = sess[d] /\ Token[e].role = Token[c].role
      BY <2>1, <2>2 DEF ObjectInv
    <2>4. Sid(e) = Sid(c)
      BY <2>1, <2>3, NoneAssumption DEF ObjectInv
    <2>5. e = c
      BY <2>1, <2>3, <2>4, NoneAssumption, Zenon DEF Retried
    <2> QED
      BY <2>3, <2>5, Zenon
  <1>3. IInv /\ ObjectInv => LeftoverOnlyUnanswered
    BY DEF IInv, TypeOK, ObjectInv, LeftoverOnlyUnanswered, CreatorPCs
  <1>4. IInv /\ HoldersRegistered /\ ObjectInv /\ TerminatedLeavesTable => SessionsAccounted
    BY <1>2, <1>3, Zenon DEF SessionsAccounted
  <1> QED
    BY <1>1, <1>4, HoldersStep, ObjectStep, InductiveInvariant, PTL DEF Spec
=============================================================================
