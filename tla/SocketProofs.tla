---------------------------- MODULE SocketProofs ----------------------------
(***************************************************************************)
(* Theorems about a Socket, for any interfaces and channels: the epoll     *)
(* instance and the list of channels agree until two operations on the     *)
(* list overlap; and even then an interface is taken down by one goroutine *)
(* at a time, which holds it until it is done.                             *)
(***************************************************************************)
EXTENDS Socket, SequenceTheorems, TLAPS

-----------------------------------------------------------------------------
(* The invariant. *)

\* Nobody but the goroutine that creates c is to do anything with it before.
Settled(c) == c \in Pushed

Removing == {"remove", "removing", "callback", "clear"}

\* Channel c has been closed, or as far as it ever will be.
Done(c) ==
  /\ c \in used \ epoll
  /\ \A g \in Gs : pc[g] \in Removing => call[g].ch # c

\* Where the channels are: one that was pushed may be in the list, once.
ListInv ==
  /\ epoll \cap Chans \subseteq used
  /\ ToSet(ccList) \subseteq Pushed
  /\ IsInjective(ccList)
  /\ torn => ccList = <<>>
  /\ \A i \in Ifaces : cc[i] # None => Settled(cc[i])
  /\ \A c \in Chans \ used : ci[c] = None
  /\ backlog => Chans \ used # {}

GoroutineInv(g) ==
  LET c == call[g].ch
      i == call[g].i
  IN
  /\ pc[g] = "accept" => g = "poller" /\ backlog
  /\ pc[g] = "push" => c \in Chans \cap epoll
  /\ pc[g] = "pushing" =>
       /\ c \notin ToSet(ccList)
       /\ c \in epoll \/ \E h \in Gs : h # g /\ pc[h] = "remove" /\ call[h].ch = c
  /\ pc[g] \in {"receive", "bind", "bound", "pushing", "store", "load", "close"} =>
       c \in Chans /\ Settled(c)
  /\ pc[g] \in Removing => c \in used \ epoll
  /\ pc[g] \in {"callback", "clear"} => ci[c] # None /\ cc[ci[c]] = c
  /\ pc[g] \in {"bind", "bound"} => g = "poller" /\ i \in Masters /\ ci[c] = None
  /\ pc[g] = "bind" => cc[i] = None
  /\ pc[g] = "bound" => cc[i] = c
  /\ pc[g] = "load" => i \in Ifaces

\* Two goroutines create or close different channels, and are inside of the list
\* together only once it is torn.
AloneInv ==
  /\ pc["poller"] \in Removing \cup {"push"} /\ pc["user"] \in Removing \cup {"push"} =>
       call["poller"].ch # call["user"].ch
  /\ Busy("poller") /\ Busy("user") => torn

\* RequestConnection has created the channel but not stored it.
Requesting == pc["user"] \in {"push", "pushing", "store"}

RequestInv ==
  LET i == call["user"].i IN
  Requesting => i \in Slaves /\ ci[call["user"].ch] = i /\ cc[i] = None

\* An interface has the channel that was made for it, until that is closed.
BoundInv ==
  \A c \in Chans :
    \/ ci[c] = None
    \/ cc[ci[c]] = c
    \/ Done(c)
    \/ Requesting /\ call["user"].ch = c

ChanInv ==
  /\ ListInv /\ (\A g \in Gs : GoroutineInv(g))
  /\ AloneInv /\ RequestInv /\ BoundInv /\ ListsAgree

IInv == TypeOK /\ ChanInv

-----------------------------------------------------------------------------
(* Lists. *)

LEMMA ListAppend ==
  ASSUME NEW S, NEW list \in Seq(S), NEW x \in S
  PROVE  /\ Append(list, x) \in Seq(S)
         /\ ToSet(Append(list, x)) = ToSet(list) \cup {x}
         /\ IsInjective(list) /\ x \notin ToSet(list) => IsInjective(Append(list, x))
<1> DEFINE t == Append(list, x)
<1>1. /\ t \in Seq(S)
      /\ DOMAIN t = 1..Len(list) + 1 /\ DOMAIN list = 1..Len(list)
      /\ \A k \in 1..Len(list) : t[k] = list[k]
      /\ t[Len(list) + 1] = x
      /\ Len(list) \in Nat
  BY AppendProperties, LenProperties
<1> HIDE DEF t
<1>2. ToSet(t) = ToSet(list) \cup {x}
  BY <1>1 DEF ToSet
<1>3. ASSUME IsInjective(list), x \notin ToSet(list)
      PROVE  IsInjective(t)
  BY <1>1, <1>3 DEF ToSet, IsInjective
<1>4. QED
  BY <1>1, <1>2, <1>3 DEF t

\* An element is in a list once, so taking it out once leaves none.
LEMMA ListWithout ==
  ASSUME NEW S, NEW list \in Seq(S), NEW x
  PROVE  /\ Without(list, x) \in Seq(S)
         /\ IsInjective(list) =>
              /\ IsInjective(Without(list, x))
              /\ ToSet(Without(list, x)) = ToSet(list) \ {x}
<1> DEFINE at == {k \in DOMAIN list : list[k] = x}
<1>1. CASE at = {}
  BY <1>1 DEF Without, ToSet
<1>2. CASE at # {}
  <2> DEFINE k == CHOOSE k \in at : TRUE
             n == Len(list)
             a == SubSeq(list, 1, k - 1)
             b == SubSeq(list, k + 1, n)
             t == a \o b
  <2>1. Without(list, x) = t
    BY <1>2 DEF Without, RemoveAt
  <2>2. n \in Nat /\ DOMAIN list = 1..n /\ \A j \in 1..n : list[j] \in S
    BY LenProperties, ElementOfSeq
  <2>3. k \in 1..n /\ list[k] = x
    BY <1>2, <2>2
  <2> HIDE DEF k, at
  <2>4. a \in Seq(S) /\ Len(a) = k - 1 /\ \A j \in 1..k - 1 : a[j] = list[j]
    BY <2>2, <2>3, SubSeqProperties DEF n
  <2>5. b \in Seq(S) /\ Len(b) = n - k /\ \A j \in 1..n - k : b[j] = list[k + j]
    <3>1. k + 1 \in Int /\ n \in Int /\ \A i \in k + 1..n : list[i] \in S
      BY <2>2, <2>3
    <3>2. /\ n - (k + 1) + 1 = n - k
          /\ (IF k + 1 <= n THEN n - (k + 1) + 1 ELSE 0) = n - k
      <4>1. n \in Nat /\ k \in 1..n
        BY <2>2, <2>3
      <4> HIDE DEF n
      <4>2. QED
        BY <4>1
    <3>3. b \in Seq(S) /\ Len(b) = IF k + 1 <= n THEN n - (k + 1) + 1 ELSE 0
      BY <3>1, SubSeqProperties
    <3>4. \A i \in 1..n - (k + 1) + 1 : b[i] = list[k + 1 + i - 1]
      BY <3>1, SubSeqProperties
    <3>5. ASSUME NEW i \in 1..n - k
          PROVE  b[i] = list[k + i]
      <4>1. k + 1 + i - 1 = k + i
        BY <2>3
      <4>2. QED
        BY <3>2, <3>4, <4>1
    <3>6. QED
      BY <2>2, <2>3, <3>2, <3>3, <3>5
  <2> HIDE DEF a, b
  <2>6. /\ t \in Seq(S) /\ Len(t) = n - 1
        /\ \A j \in 1..n - 1 : t[j] = IF j < k THEN list[j] ELSE list[j + 1]
    <3>1. /\ t \in Seq(S) /\ Len(t) = Len(a) + Len(b)
          /\ \A j \in 1..Len(a) + Len(b) :
               t[j] = IF j <= Len(a) THEN a[j] ELSE b[j - Len(a)]
      BY <2>4, <2>5, ConcatProperties
    <3>2. ASSUME NEW j \in 1..n - 1, ~(j < k)
          PROVE  t[j] = list[j + 1]
      <4>1. j - (k - 1) \in 1..n - k /\ k + (j - (k - 1)) = j + 1
        BY <2>2, <2>3, <3>2
      <4>2. t[j] = b[j - (k - 1)]
        BY <2>2, <2>3, <2>4, <2>5, <3>1, <3>2
      <4>3. QED
        BY <2>5, <4>1, <4>2
    <3>3. QED
      BY <2>2, <2>3, <2>4, <2>5, <3>1, <3>2
  <2>7. DOMAIN t = 1..n - 1
    BY <2>6, LenProperties
  <2> HIDE DEF n, t
  <2>8. ASSUME IsInjective(list)
        PROVE  IsInjective(t) /\ ToSet(t) = ToSet(list) \ {x}
    <3>1. \A i, j \in 1..n : list[i] = list[j] => i = j
      BY <2>2, <2>8 DEF IsInjective
    <3>2. IsInjective(t)
      BY <2>2, <2>3, <2>6, <2>7, <3>1 DEF IsInjective
    <3>3. ASSUME NEW j \in 1..n - 1
          PROVE  t[j] \in ToSet(list) \ {x}
      <4>1. PICK i \in 1..n : i # k /\ t[j] = list[i]
        BY <2>2, <2>3, <2>6, SMTT(40)
      <4>2. list[i] # x
        BY <2>3, <3>1, <4>1
      <4>3. list[i] \in ToSet(list)
        BY <2>2 DEF ToSet
      <4>4. QED
        BY <4>1, <4>2, <4>3
    <3>4. ASSUME NEW i \in 1..n, list[i] # x
          PROVE  \E j \in 1..n - 1 : t[j] = list[i]
      <4>1. CASE i < k
        BY <2>2, <2>3, <2>6, <4>1
      <4>2. CASE i > k
        <5>1. i - 1 \in 1..n - 1 /\ t[i - 1] = list[i]
          BY <2>2, <2>3, <2>6, <4>2
        <5>2. QED
          BY <5>1
      <4>3. QED
        BY <2>2, <2>3, <3>4, <4>1, <4>2
    <3>5. ToSet(t) = {t[j] : j \in 1..n - 1} /\ ToSet(list) = {list[i] : i \in 1..n}
      BY <2>2, <2>7 DEF ToSet
    <3>6. QED
      BY <3>2, <3>3, <3>4, <3>5
  <2>9. QED
    BY <2>1, <2>6, <2>8
<1>3. QED
  BY <1>1, <1>2

LEMMA ListHead ==
  ASSUME NEW S, NEW list \in Seq(S), list # <<>>
  PROVE  Head(list) \in ToSet(list) /\ Head(list) \in S
<1>1. Len(list) \in Nat /\ DOMAIN list = 1..Len(list) /\ Len(list) # 0
  BY LenProperties, EmptySeq
<1>2. Head(list) = list[1] /\ 1 \in DOMAIN list
  BY <1>1
<1>3. QED
  BY <1>1, <1>2, ElementOfSeq DEF ToSet

LEMMA ListEmpty ==
  ASSUME NEW S
  PROVE  <<>> \in Seq(S) /\ ToSet(<<>>) = {} /\ IsInjective(<<>>)
  BY EmptySeq DEF ToSet, IsInjective

-----------------------------------------------------------------------------
(* Steps of a goroutine. *)

\* Goroutine g goes to label l, with r for its call.
Moves(g, l, r) ==
  /\ pc' = [pc EXCEPT ![g] = l]
  /\ call' = [call EXCEPT ![g] = r]

LEMMA MovesOne ==
  ASSUME TypeOK, NEW g \in Gs, NEW l, NEW r, Moves(g, l, r)
  PROVE  /\ pc'[g] = l /\ call'[g] = r
         /\ \A h \in Gs : h # g => pc'[h] = pc[h] /\ call'[h] = call[h]
         /\ l \in Labels /\ r \in Calls => pc' \in [Gs -> Labels] /\ call' \in [Gs -> Calls]
<1>1. pc \in [Gs -> Labels] /\ call \in [Gs -> Calls]
  BY DEF TypeOK
<1>2. QED
  BY <1>1 DEF Moves

LEMMA OtherOne ==
  ASSUME NEW g \in Gs
  PROVE  Other(g) \in Gs /\ Other(g) # g /\ \A h \in Gs : h = g \/ h = Other(g)
<1>1. \E h \in Gs : h # g
  BY DEF Gs
<1>2. Other(g) \in Gs /\ Other(g) # g
  BY <1>1 DEF Other
<1>3. QED
  BY <1>2 DEF Gs

\* The labels of who is changing the list or the links.
Changing == {"push", "pushing", "store", "bind", "bound", "remove", "removing"}

\* A step that changes neither the channels nor what they are linked to, of a
\* goroutine that is not to change them next, but may be to bind one.
LEMMA LocalStep ==
  ASSUME IInv,
         NEW g \in Gs, NEW l, NEW r, Moves(g, l, r),
         UNCHANGED <<ccList, torn, used, cc, ci>>,
         \A c \in Chans : c \in epoll' <=> c \in epoll,
         backlog' => backlog,
         pc'["poller"] = "accept" => backlog',
         pc[g] \notin Changing,
         l \notin Changing \ {"bind"},
         l = "accept" => g = "poller",
         l \in {"receive", "close", "load", "bind"} => r.ch \in Chans /\ Settled(r.ch),
         l = "load" => r.i \in Ifaces,
         l = "bind" => g = "poller" /\ r.i \in Masters /\ ci[r.ch] = None /\ cc[r.i] = None,
         l \in {"callback", "clear"} => pc[g] = "callback" /\ r = call[g]
  PROVE  ChanInv'
<1>1. /\ pc'[g] = l /\ call'[g] = r
      /\ \A h \in Gs : h # g => pc'[h] = pc[h] /\ call'[h] = call[h]
  BY MovesOne DEF IInv
<1>2. Pushed' = Pushed
  BY <1>1 DEF Pushed, Changing
<1>3. /\ used \subseteq Chans /\ Pushed \subseteq Chans
      /\ ToSet(ccList)' = ToSet(ccList) /\ ToSet(ccList) \subseteq Chans
  BY DEF IInv, TypeOK, ChanInv, ListInv, Pushed
<1>4. ListInv'
  <2>1. IsInjective(ccList)'
    BY DEF IInv, ChanInv, ListInv
  <2>2. \A i \in Ifaces : cc[i] # None => Settled(cc[i])
    BY DEF IInv, ChanInv, ListInv
  <2>3. QED
    BY <1>2, <1>3, <2>1, <2>2 DEF IInv, ChanInv, ListInv, Settled
<1>5. ASSUME NEW h \in Gs
      PROVE  GoroutineInv(h)'
  <2>1. CASE h = g
    BY <1>1, <1>2, <1>3, <2>1
    DEF IInv, ChanInv, GoroutineInv, Changing, Removing, Settled
  <2>2. CASE h # g
    <3>1. pc'[h] = pc[h] /\ call'[h] = call[h] /\ (pc[h] = "accept" => backlog')
      BY <1>1, <2>2 DEF IInv, ChanInv, GoroutineInv
    <3>2. ASSUME pc[h] = "pushing"
          PROVE  call[h].ch \in epoll' \/
                   \E k \in Gs : k # h /\ pc'[k] = "remove" /\ call'[k].ch = call[h].ch
      <4>1. call[h].ch \in Chans
        BY <3>2 DEF IInv, ChanInv, GoroutineInv
      <4>2. CASE call[h].ch \in epoll
        BY <4>1, <4>2
      <4>3. CASE call[h].ch \notin epoll
        <5>1. PICK k \in Gs : k # h /\ pc[k] = "remove" /\ call[k].ch = call[h].ch
          BY <3>2, <4>3 DEF IInv, ChanInv, GoroutineInv
        <5>2. k # g
          BY <5>1 DEF Changing
        <5>3. QED
          BY <1>1, <5>1, <5>2
      <4>4. QED
        BY <4>2, <4>3
    <3>3. QED
      BY <1>2, <1>3, <3>1, <3>2 DEF IInv, ChanInv, GoroutineInv, Settled
  <2>3. QED
    BY <2>1, <2>2
<1>6. AloneInv'
  BY <1>1 DEF IInv, ChanInv, AloneInv, Gs, Removing, Changing, Busy
<1>7. RequestInv'
  BY <1>1 DEF IInv, ChanInv, RequestInv, Requesting, Gs, Changing
<1>8. BoundInv'
  <2>1. \A c \in Chans : Done(c) => Done(c)'
    BY <1>1 DEF Done, Removing, Changing
  <2>2. Requesting => Requesting' /\ call'["user"] = call["user"]
    BY <1>1 DEF Requesting, Gs, Changing
  <2>3. QED
    BY <2>1, <2>2 DEF IInv, ChanInv, BoundInv
<1>9. ListsAgree'
  BY <1>1, <1>3 DEF IInv, ChanInv, ListsAgree, Changing
<1>10. QED
  BY <1>4, <1>5, <1>6, <1>7, <1>8, <1>9 DEF ChanInv

\* The caller of close goes on: it closes again or does nothing with channels.
LEMMA ReturnMoves ==
  ASSUME TypeOK, NEW g \in Gs, NEW ok \in BOOLEAN, Return(g, ok)
  PROVE  /\ \E l \in {"wait", "close", "idle", "unlist", "interfaces", "deleted"},
               r \in Calls :
              Moves(g, l, r) /\ (l = "close" => r.ch = call[g].ch)
         /\ dead' \in BOOLEAN
<1> DEFINE c == call[g].ch
           again == [ch |-> c, i |-> None, send |-> TRUE, ret |-> "error"]
<1>1. call \in [Gs -> Calls] /\ call[g] \in Calls
  BY DEF TypeOK
<1>2. NoCall \in Calls /\ again \in Calls /\ again.ch = c
  BY <1>1 DEF Calls, NoCall
<1>3. UNCHANGED call => call' = [call EXCEPT ![g] = call[g]]
  BY <1>1
<1>4. dead' \in BOOLEAN
  BY DEF Return
<1>5. CASE Leave(g, "wait") \/ Leave(g, "idle") \/ Leave(g, "interfaces")
             \/ Leave(g, "deleted")
  BY <1>2, <1>4, <1>5 DEF Leave, Goto, Moves
<1>6. CASE Enter(g, c, None, TRUE, "error")
  BY <1>2, <1>4, <1>6 DEF Enter, Goto, Moves
<1>7. CASE Goto(g, "unlist") /\ UNCHANGED call
  BY <1>1, <1>3, <1>4, <1>7 DEF Goto, Moves
<1>8. QED
  BY <1>5, <1>6, <1>7 DEF Return

\* A step that no goroutine takes.
LEMMA OutsideStep ==
  ASSUME IInv,
         UNCHANGED <<ccList, torn, used, cc, ci, pc, call>>,
         \A c \in Chans : c \in epoll' <=> c \in epoll,
         backlog' => backlog \/ Chans \ used # {},
         backlog => backlog'
  PROVE  ChanInv'
<1>1. /\ used \subseteq Chans /\ Pushed \subseteq Chans /\ Pushed' = Pushed
      /\ ToSet(ccList)' = ToSet(ccList) /\ ToSet(ccList) \subseteq Chans
  BY DEF IInv, TypeOK, ChanInv, ListInv, Pushed
<1>2. ListInv'
  <2>1. IsInjective(ccList)'
    BY DEF IInv, ChanInv, ListInv
  <2>2. \A i \in Ifaces : cc[i] # None => Settled(cc[i])
    BY DEF IInv, ChanInv, ListInv
  <2>3. QED
    BY <1>1, <2>1, <2>2 DEF IInv, ChanInv, ListInv, Settled
<1>3. ASSUME NEW h \in Gs
      PROVE  GoroutineInv(h)'
  <2>1. pc[h] = "pushing" => call[h].ch \in Chans
    BY DEF IInv, ChanInv, GoroutineInv
  <2>2. QED
    BY <1>1, <2>1 DEF IInv, ChanInv, GoroutineInv, Settled
<1>4. AloneInv' /\ RequestInv'
  BY DEF IInv, ChanInv, AloneInv, RequestInv, Requesting, Busy
<1>5. BoundInv'
  <2>1. \A c \in Chans : Done(c) => Done(c)'
    BY DEF Done
  <2>2. QED
    BY <2>1 DEF IInv, ChanInv, BoundInv, Requesting
<1>6. ListsAgree'
  BY <1>1 DEF IInv, ChanInv, ListsAgree
<1>7. QED
  BY <1>2, <1>3, <1>4, <1>5, <1>6 DEF ChanInv

\* The program ends.
LEMMA DeadStep ==
  ASSUME IInv, UNCHANGED <<lists, chans, links, peers, pc, call>>, dead' \in BOOLEAN
  PROVE  IInv'
<1>1. TypeOK'
  BY DEF IInv, TypeOK, lists, chans, links, peers
<1>2. ChanInv'
  BY OutsideStep DEF chans, links, peers
<1>3. QED
  BY <1>1, <1>2 DEF IInv

\* A goroutine creates a channel for i and registers it.
LEMMA AddStep ==
  ASSUME IInv,
         NEW g \in Gs, NEW c \in Chans \ used, NEW i \in Ifaces \cup {None}, NEW r,
         Moves(g, "push", r), r.ch = c,
         used' = used \cup {c}, epoll' = epoll \cup {c},
         ci' = [ci EXCEPT ![c] = i],
         UNCHANGED <<ccList, torn, cc>>,
         pc[g] \in {"accept", "idle"},
         IF g = "user" THEN i \in Slaves /\ cc[i] = None /\ r.i = i ELSE i = None,
         backlog' => backlog /\ g = "user" /\ Chans \ used' # {},
         pc'["poller"] = "accept" => backlog'
  PROVE  ChanInv'
<1>1. /\ pc'[g] = "push" /\ call'[g] = r
      /\ \A h \in Gs : h # g => pc'[h] = pc[h] /\ call'[h] = call[h]
  BY MovesOne DEF IInv
<1>2. Pushed' = Pushed
  <2>1. ASSUME NEW d
        PROVE  d \in Pushed' <=> d \in Pushed
    BY <1>1 DEF Pushed
  <2>2. QED
    BY <2>1
<1>3. /\ used \subseteq Chans /\ Pushed \subseteq used /\ ToSet(ccList) \subseteq used
      /\ ToSet(ccList)' = ToSet(ccList)
  BY DEF IInv, TypeOK, ChanInv, ListInv, Pushed
<1>4. c \notin epoll /\ ci[c] = None
  BY DEF IInv, ChanInv, ListInv
<1>5. ci'[c] = i /\ \A d \in Chans : d # c => ci'[d] = ci[d]
  BY DEF IInv, TypeOK
<1>6. \A d \in used : d # c /\ (d \in epoll' <=> d \in epoll)
  OBVIOUS
<1>7. ListInv'
  <2>1. IsInjective(ccList)'
    BY DEF IInv, ChanInv, ListInv
  <2>2. \A j \in Ifaces : cc[j] # None => Settled(cc[j])
    BY DEF IInv, ChanInv, ListInv
  <2>3. QED
    BY <1>2, <1>3, <1>4, <1>5, <2>1, <2>2 DEF IInv, ChanInv, ListInv, Settled
<1>8. ASSUME NEW h \in Gs
      PROVE  GoroutineInv(h)'
  <2>1. CASE h = g
    BY <1>1, <1>3, <2>1 DEF GoroutineInv, Removing
  <2>2. CASE h # g
    <3>1. pc'[h] = pc[h] /\ call'[h] = call[h] /\ (pc[h] = "accept" => backlog')
      BY <1>1, <2>2 DEF IInv, ChanInv, GoroutineInv
    <3>2. pc[h] \in {"receive", "bind", "bound", "load", "close", "store", "push",
                      "pushing"} \cup Removing => call[h].ch \in used
      BY <1>3 DEF IInv, ChanInv, GoroutineInv, ListInv, Settled
    <3>3. call[h].ch \in used =>
            /\ ci'[call[h].ch] = ci[call[h].ch]
            /\ call[h].ch \in epoll' <=> call[h].ch \in epoll
      BY <1>3, <1>5, <1>6
    <3>4. pc[h] = "pushing" => call[h].ch \in epoll' \/
                   \E k \in Gs : k # h /\ pc'[k] = "remove" /\ call'[k].ch = call[h].ch
      BY <1>1 DEF IInv, ChanInv, GoroutineInv
    <3>5. QED
      BY <1>2, <1>3, <3>1, <3>2, <3>3, <3>4
      DEF IInv, ChanInv, GoroutineInv, Settled, Removing
  <2>3. QED
    BY <2>1, <2>2
<1>9. AloneInv'
  <2>1. \A h \in Gs : pc[h] \in Removing \cup {"push"} => call[h].ch # c
    BY <1>3, <1>4 DEF IInv, ChanInv, GoroutineInv, ListInv, Removing
  <2>2. QED
    BY <1>1, <2>1 DEF IInv, ChanInv, AloneInv, Gs, Removing, Busy
<1>10. RequestInv'
  <2>1. CASE g = "user"
    BY <1>1, <1>5, <2>1 DEF RequestInv
  <2>2. CASE g # "user"
    <3>1. Requesting => call["user"].ch \in used
      BY <1>3 DEF IInv, ChanInv, GoroutineInv, ListInv, Settled, Requesting, Gs
    <3>2. QED
      BY <1>1, <1>3, <1>5, <1>6, <2>2, <3>1
      DEF IInv, ChanInv, RequestInv, Requesting, Gs
  <2>3. QED
    BY <2>1, <2>2
<1>11. BoundInv'
  <2>1. ASSUME NEW d \in Chans, d # c
        PROVE  \/ ci'[d] = None \/ cc'[ci'[d]] = d \/ Done(d)'
               \/ Requesting' /\ call'["user"].ch = d
    <3>1. Done(d) => Done(d)'
      BY <1>1, <2>1 DEF Done, Removing
    <3>2. Requesting /\ call["user"].ch = d => Requesting' /\ call'["user"].ch = d
      BY <1>1 DEF Requesting, Gs
    <3>3. QED
      BY <1>5, <2>1, <3>1, <3>2 DEF IInv, ChanInv, BoundInv
  <2>2. \/ ci'[c] = None
        \/ Requesting' /\ call'["user"].ch = c
    BY <1>1, <1>5 DEF Requesting, Gs
  <2>3. QED
    BY <2>1, <2>2 DEF BoundInv
<1>12. ListsAgree'
  <2>1. \A d \in Chans : d \in epoll' \ ToSet(ccList)' =>
          d = c \/ d \in epoll \ ToSet(ccList)
    BY <1>3
  <2>2. QED
    BY <1>1, <1>3, <1>6, <2>1 DEF IInv, ChanInv, ListsAgree
<1>13. QED
  BY <1>7, <1>8, <1>9, <1>10, <1>11, <1>12 DEF ChanInv

\* A goroutine enters PushBack or Remove: the list is as it was, or torn.
LEMMA BeginStep ==
  ASSUME IInv,
         NEW g \in Gs, NEW l, Moves(g, l, call[g]),
         \/ pc[g] = "push" /\ l = "pushing"
         \/ /\ pc[g] = "remove" /\ l = "removing"
            /\ ~(pc[Other(g)] = "pushing" /\ call[Other(g)].ch = call[g].ch),
         torn' = (torn \/ Busy(Other(g))),
         ccList' = IF torn' THEN <<>> ELSE ccList,
         UNCHANGED <<used, epoll, cc, ci, backlog>>
  PROVE  ChanInv' /\ ccList' \in Seq(Chans)
<1> DEFINE c == call[g].ch
<1>1. /\ pc'[g] = l /\ call'[g] = call[g]
      /\ \A h \in Gs : h # g => pc'[h] = pc[h] /\ call'[h] = call[h]
  BY MovesOne DEF IInv
<1>2. Pushed \subseteq Pushed' /\ Pushed' \subseteq used /\ used \subseteq Chans
      /\ epoll \cap Chans \subseteq used
  BY <1>1 DEF Pushed, IInv, TypeOK, ChanInv, ListInv
<1>3. /\ ccList' \in Seq(Chans) /\ IsInjective(ccList)'
      /\ ToSet(ccList)' \subseteq ToSet(ccList)
      /\ torn' => ccList' = <<>>
      /\ ~torn' => ToSet(ccList)' = ToSet(ccList)
  <2>1. CASE torn'
    BY <2>1, ListEmpty
  <2>2. CASE ~torn'
    BY <2>2 DEF IInv, TypeOK, ChanInv, ListInv
  <2>3. QED
    BY <2>1, <2>2
<1>4. torn => torn'
  OBVIOUS
<1>5. ListInv'
  <2>1. \A i \in Ifaces : cc[i] # None => Settled(cc[i])
    BY DEF IInv, ChanInv, ListInv
  <2>2. QED
    BY <1>2, <1>3, <2>1 DEF IInv, ChanInv, ListInv, Settled
<1>6. ASSUME l = "pushing"
      PROVE  c \in Chans /\ c \in epoll /\ c \notin ToSet(ccList) /\ c \in Pushed'
  <2>1. c \in Chans \cap epoll /\ c \notin Pushed /\ c \in used
    BY <1>2, <1>6 DEF IInv, ChanInv, GoroutineInv, Pushed
  <2>2. \A h \in Gs : h # g => ~(pc[h] = "push" /\ call[h].ch = c)
    BY <1>6 DEF IInv, ChanInv, AloneInv, Gs
  <2>3. c \in Pushed'
    BY <1>1, <1>6, <2>1, <2>2 DEF Pushed
  <2>4. QED
    BY <2>1, <2>3 DEF IInv, ChanInv, ListInv
<1>7. ASSUME NEW h \in Gs
      PROVE  GoroutineInv(h)'
  <2>1. CASE h = g
    <3>1. l = "removing" => c \in used \ epoll
      BY DEF IInv, ChanInv, GoroutineInv, Removing
    <3>2. QED
      BY <1>1, <1>3, <1>6, <2>1, <3>1 DEF GoroutineInv, Settled, Removing
  <2>2. CASE h # g
    <3>1. pc'[h] = pc[h] /\ call'[h] = call[h]
      BY <1>1, <2>2
    <3>2. ASSUME pc[h] = "pushing", call[h].ch \notin epoll
          PROVE  \E k \in Gs : k # h /\ pc'[k] = "remove" /\ call'[k].ch = call[h].ch
      <4>1. PICK k \in Gs : k # h /\ pc[k] = "remove" /\ call[k].ch = call[h].ch
        BY <3>2 DEF IInv, ChanInv, GoroutineInv
      <4>2. k = g /\ h = Other(g)
        BY <2>2, <4>1, OtherOne DEF Gs
      <4>3. QED
        BY <3>2, <4>1, <4>2
    <3>3. QED
      BY <1>2, <1>3, <3>1, <3>2 DEF IInv, ChanInv, GoroutineInv, Settled, Removing
  <2>3. QED
    BY <2>1, <2>2
<1>8. AloneInv'
  <2>1. Busy("poller")' /\ Busy("user")' => Busy(Other(g))
    BY <1>1, OtherOne DEF Busy, Gs
  <2>2. QED
    BY <1>1, <2>1 DEF IInv, ChanInv, AloneInv, Gs, Removing
<1>9. RequestInv'
  BY <1>1 DEF IInv, ChanInv, RequestInv, Requesting, Gs
<1>10. BoundInv'
  <2>1. \A d \in Chans : Done(d) => Done(d)'
    BY <1>1 DEF Done, Removing
  <2>2. Requesting => Requesting' /\ call'["user"] = call["user"]
    BY <1>1 DEF Requesting, Gs
  <2>3. QED
    BY <2>1, <2>2 DEF IInv, ChanInv, BoundInv
<1>11. ListsAgree'
  BY <1>1, <1>3, <1>4 DEF IInv, ChanInv, ListsAgree
<1>12. QED
  BY <1>3, <1>5, <1>7, <1>8, <1>9, <1>10, <1>11 DEF ChanInv

\* The channel goes into the list.
LEMMA PushStep ==
  ASSUME IInv,
         NEW g \in Gs, NEW l, NEW r, Moves(g, l, r),
         pc[g] = "pushing",
         \/ g = "user" /\ l = "store" /\ r = call[g]
         \/ g = "poller" /\ l = "wait",
         ccList' = IF torn THEN <<>> ELSE Append(ccList, call[g].ch),
         UNCHANGED <<torn, used, epoll, cc, ci, backlog>>
  PROVE  ChanInv' /\ ccList' \in Seq(Chans)
<1> DEFINE c == call[g].ch
<1>1. /\ pc'[g] = l /\ call'[g] = r
      /\ \A h \in Gs : h # g => pc'[h] = pc[h] /\ call'[h] = call[h]
  BY MovesOne DEF IInv
<1>2. /\ used \subseteq Chans /\ ToSet(ccList) \subseteq Pushed /\ Pushed \subseteq Chans
      /\ ccList \in Seq(Chans) /\ IsInjective(ccList)
  BY DEF IInv, TypeOK, ChanInv, ListInv, Pushed
<1>3. c \in Chans /\ c \in Pushed /\ c \notin ToSet(ccList)
  BY DEF IInv, ChanInv, GoroutineInv, Settled
<1>4. Pushed' = Pushed
  BY <1>1 DEF Pushed
<1>5. /\ ccList' \in Seq(Chans) /\ IsInjective(ccList)'
      /\ torn => ccList' = <<>> /\ ToSet(ccList)' = {}
      /\ ~torn => ToSet(ccList)' = ToSet(ccList) \cup {c}
  BY <1>2, <1>3, ListAppend, ListEmpty
<1>6. ListInv'
  <2>1. \A i \in Ifaces : cc[i] # None => Settled(cc[i])
    BY DEF IInv, ChanInv, ListInv
  <2>2. ToSet(ccList)' \subseteq Pushed
    BY <1>2, <1>3, <1>5
  <2>3. QED
    BY <1>4, <1>5, <2>1, <2>2 DEF IInv, ChanInv, ListInv, Settled
<1>7. \A h \in Gs : h # g /\ pc[h] = "pushing" => torn
  BY DEF IInv, ChanInv, AloneInv, Busy, Gs
<1>8. ASSUME NEW h \in Gs
      PROVE  GoroutineInv(h)'
  <2>1. CASE h = g
    BY <1>1, <1>3, <1>4, <2>1 DEF GoroutineInv, Settled, Removing
  <2>2. CASE h # g
    <3>1. pc'[h] = pc[h] /\ call'[h] = call[h]
      BY <1>1, <2>2
    <3>2. ASSUME pc[h] = "pushing"
          PROVE  /\ call[h].ch \notin ToSet(ccList)'
                 /\ call[h].ch \in epoll \/
                   \E k \in Gs : k # h /\ pc'[k] = "remove" /\ call'[k].ch = call[h].ch
      <4>1. torn
        BY <1>7, <2>2, <3>2
      <4>2. QED
        BY <1>1, <1>5, <3>2, <4>1 DEF IInv, ChanInv, GoroutineInv
    <3>3. QED
      BY <1>4, <3>1, <3>2 DEF IInv, ChanInv, GoroutineInv, Settled
  <2>3. QED
    BY <2>1, <2>2
<1>9. AloneInv'
  BY <1>1 DEF IInv, ChanInv, AloneInv, Gs, Removing, Busy
<1>10. RequestInv'
  BY <1>1 DEF IInv, ChanInv, RequestInv, Requesting, Gs
<1>11. BoundInv'
  <2>1. \A d \in Chans : Done(d) => Done(d)'
    BY <1>1 DEF Done, Removing
  <2>2. Requesting => Requesting' /\ call'["user"] = call["user"]
    BY <1>1 DEF Requesting, Gs
  <2>3. QED
    BY <2>1, <2>2 DEF IInv, ChanInv, BoundInv
<1>12. ListsAgree'
  <2>1. c \in epoll \/ \E h \in Gs : h # g /\ pc[h] = "remove" /\ call[h].ch = c
    BY DEF IInv, ChanInv, GoroutineInv
  <2>2. QED
    BY <1>1, <1>5, <2>1 DEF IInv, ChanInv, ListsAgree
<1>13. QED
  BY <1>5, <1>6, <1>8, <1>9, <1>10, <1>11, <1>12 DEF ChanInv

\* close: the channel's events end.
LEMMA EventStep ==
  ASSUME IInv,
         NEW g \in Gs, Moves(g, "remove", call[g]),
         pc[g] = "close", call[g].ch \in epoll,
         epoll' = epoll \ {call[g].ch},
         UNCHANGED <<ccList, torn, used, cc, ci, backlog>>
  PROVE  ChanInv'
<1> DEFINE c == call[g].ch
<1>1. /\ pc'[g] = "remove" /\ call'[g] = call[g]
      /\ \A h \in Gs : h # g => pc'[h] = pc[h] /\ call'[h] = call[h]
  BY MovesOne DEF IInv
<1>2. /\ used \subseteq Chans /\ Pushed \subseteq used /\ Pushed' = Pushed
      /\ ToSet(ccList)' = ToSet(ccList)
  BY <1>1 DEF IInv, TypeOK, ChanInv, ListInv, Pushed
<1>3. c \in Chans /\ c \in Pushed
  BY DEF IInv, ChanInv, GoroutineInv, Settled
<1>4. \A h \in Gs : pc[h] \in Removing \cup {"push"} => call[h].ch # c
  BY <1>3 DEF IInv, ChanInv, GoroutineInv, Pushed
<1>5. ListInv'
  <2>1. IsInjective(ccList)'
    BY DEF IInv, ChanInv, ListInv
  <2>2. \A i \in Ifaces : cc[i] # None => Settled(cc[i])
    BY DEF IInv, ChanInv, ListInv
  <2>3. QED
    BY <1>2, <2>1, <2>2 DEF IInv, ChanInv, ListInv, Settled
<1>6. ASSUME NEW h \in Gs
      PROVE  GoroutineInv(h)'
  <2>1. CASE h = g
    BY <1>1, <1>2, <1>3, <2>1 DEF GoroutineInv, Removing
  <2>2. CASE h # g
    <3>1. pc'[h] = pc[h] /\ call'[h] = call[h]
      BY <1>1, <2>2
    <3>2. pc[h] = "pushing" => call[h].ch \in epoll' \/
                   \E k \in Gs : k # h /\ pc'[k] = "remove" /\ call'[k].ch = call[h].ch
      BY <1>1, <2>2 DEF IInv, ChanInv, GoroutineInv
    <3>3. QED
      BY <1>2, <1>4, <3>1, <3>2 DEF IInv, ChanInv, GoroutineInv, Removing, Settled
  <2>3. QED
    BY <2>1, <2>2
<1>7. AloneInv'
  BY <1>1, <1>4 DEF IInv, ChanInv, AloneInv, Gs, Busy
<1>8. RequestInv'
  BY <1>1 DEF IInv, ChanInv, RequestInv, Requesting, Gs
<1>9. BoundInv'
  <2>1. \A d \in Chans : Done(d) => Done(d)'
    BY <1>1 DEF Done, Removing
  <2>2. Requesting => Requesting' /\ call'["user"] = call["user"]
    BY <1>1 DEF Requesting, Gs
  <2>3. QED
    BY <2>1, <2>2 DEF IInv, ChanInv, BoundInv
<1>10. ListsAgree'
  BY <1>1, <1>2 DEF IInv, ChanInv, ListsAgree
<1>11. QED
  BY <1>5, <1>6, <1>7, <1>8, <1>9, <1>10 DEF ChanInv

\* close: the channel leaves the list.  If its interface has a channel, it is
\* this one.
LEMMA RemoveStep ==
  ASSUME IInv,
         NEW g \in Gs, NEW l, NEW r, Moves(g, l, r),
         pc[g] = "removing",
         ccList' = IF torn THEN <<>> ELSE Without(ccList, call[g].ch),
         UNCHANGED <<torn, used, epoll, cc, ci, backlog>>,
         \/ /\ l = "callback" /\ r = call[g]
            /\ ci[call[g].ch] # None /\ cc[ci[call[g].ch]] # None
         \/ /\ l \in {"wait", "close", "idle", "unlist", "interfaces", "deleted"}
            /\ l = "close" => r.ch = call[g].ch
            /\ ci[call[g].ch] = None \/ cc[ci[call[g].ch]] = None
  PROVE  ChanInv' /\ ccList' \in Seq(Chans)
<1> DEFINE c == call[g].ch
<1>1. /\ pc'[g] = l /\ call'[g] = r
      /\ \A h \in Gs : h # g => pc'[h] = pc[h] /\ call'[h] = call[h]
  BY MovesOne DEF IInv
<1>2. /\ used \subseteq Chans /\ ToSet(ccList) \subseteq Pushed /\ Pushed' = Pushed
      /\ ccList \in Seq(Chans) /\ IsInjective(ccList)
  BY <1>1 DEF IInv, TypeOK, ChanInv, ListInv, Pushed
<1>3. c \in Chans /\ c \in used /\ c \notin epoll
  BY <1>2 DEF IInv, ChanInv, GoroutineInv, Removing
<1>4. Settled(c)
  BY <1>3 DEF IInv, ChanInv, GoroutineInv, Settled, Pushed
<1>5. /\ ccList' \in Seq(Chans) /\ IsInjective(ccList)'
      /\ ToSet(ccList)' \subseteq ToSet(ccList)
      /\ torn => ccList' = <<>>
      /\ ~torn => ToSet(ccList)' = ToSet(ccList) \ {c}
  BY <1>2, ListWithout, ListEmpty
<1>6. \A h \in Gs : pc[h] \in Removing /\ h # g => call[h].ch # c
  BY DEF IInv, ChanInv, AloneInv, Removing, Gs
<1>7. ListInv'
  <2>1. \A i \in Ifaces : cc[i] # None => Settled(cc[i])
    BY DEF IInv, ChanInv, ListInv
  <2>2. QED
    BY <1>2, <1>5, <2>1 DEF IInv, ChanInv, ListInv, Settled
<1>8. ~Done(c)
  BY DEF Done, Removing
<1>9. Requesting /\ call["user"].ch = c => cc[ci[c]] = None
  BY DEF IInv, ChanInv, RequestInv
<1>10. ASSUME NEW h \in Gs
       PROVE  GoroutineInv(h)'
  <2>1. CASE h = g
    <3>1. l = "callback" => cc[ci[c]] = c
      BY <1>3, <1>8, <1>9 DEF IInv, ChanInv, BoundInv
    <3>2. QED
      BY <1>1, <1>2, <1>3, <1>4, <2>1, <3>1 DEF GoroutineInv, Settled, Removing
  <2>2. CASE h # g
    <3>1. pc'[h] = pc[h] /\ call'[h] = call[h]
      BY <1>1, <2>2
    <3>2. pc[h] = "pushing" => call[h].ch \in epoll \/
                   \E k \in Gs : k # h /\ pc'[k] = "remove" /\ call'[k].ch = call[h].ch
      BY <1>1 DEF IInv, ChanInv, GoroutineInv
    <3>3. QED
      BY <1>2, <1>5, <3>1, <3>2 DEF IInv, ChanInv, GoroutineInv, Settled
  <2>3. QED
    BY <2>1, <2>2
<1>11. AloneInv'
  BY <1>1 DEF IInv, ChanInv, AloneInv, Gs, Removing, Busy
<1>12. RequestInv'
  BY <1>1 DEF IInv, ChanInv, RequestInv, Requesting, Gs
<1>13. BoundInv'
  <2>1. \A d \in Chans : Done(d) => Done(d)'
    BY <1>1, <1>8 DEF Done, Removing
  <2>2. Requesting => Requesting' /\ call'["user"] = call["user"]
    BY <1>1 DEF Requesting, Gs
  <2>3. QED
    BY <2>1, <2>2 DEF IInv, ChanInv, BoundInv
<1>14. ListsAgree'
  BY <1>1, <1>3, <1>5 DEF IInv, ChanInv, ListsAgree
<1>15. QED
  BY <1>5, <1>7, <1>10, <1>11, <1>12, <1>13, <1>14 DEF ChanInv

\* disconnect: the interface gives up its channel.
LEMMA ClearStep ==
  ASSUME IInv,
         NEW g \in Gs, NEW l, NEW r, Moves(g, l, r),
         NEW c, NEW i, call[g].ch = c, ci[c] = i,
         pc[g] = "clear",
         cc' = [cc EXCEPT ![i] = None],
         UNCHANGED <<ccList, torn, used, epoll, ci, backlog>>,
         l \in {"wait", "close", "idle", "unlist", "interfaces", "deleted"},
         l = "close" => r.ch = c
  PROVE  ChanInv' /\ cc' \in [Ifaces -> Chans \cup {None}]
<1>1. /\ pc'[g] = l /\ call'[g] = r
      /\ \A h \in Gs : h # g => pc'[h] = pc[h] /\ call'[h] = call[h]
  BY MovesOne DEF IInv
<1>2. /\ used \subseteq Chans /\ ToSet(ccList)' = ToSet(ccList) /\ Pushed' = Pushed
      /\ cc \in [Ifaces -> Chans \cup {None}] /\ ci \in [Chans -> Ifaces \cup {None}]
      /\ None \notin Chans
  BY <1>1, SocketAssumption, SMTT(40) DEF IInv, TypeOK, ChanInv, ListInv, Pushed
<1>3. c \in used \ epoll /\ i # None /\ i \in Ifaces /\ cc[i] = c
  BY <1>2 DEF IInv, ChanInv, GoroutineInv, Removing
<1>4. /\ cc' \in [Ifaces -> Chans \cup {None}]
      /\ cc'[i] = None /\ \A j \in Ifaces : j # i => cc'[j] = cc[j]
  BY <1>2, <1>3
<1>5. Settled(c)
  BY <1>3 DEF IInv, ChanInv, GoroutineInv, Settled, Pushed
<1>6. \A h \in Gs : pc[h] \in Removing /\ h # g => call[h].ch # c
  BY DEF IInv, ChanInv, AloneInv, Removing, Gs
<1>7. ListInv'
  <2>1. IsInjective(ccList)'
    BY DEF IInv, ChanInv, ListInv
  <2>2. \A j \in Ifaces : cc'[j] # None => Settled(cc'[j])
    BY <1>4 DEF IInv, ChanInv, ListInv
  <2>3. QED
    BY <1>2, <2>1, <2>2 DEF IInv, ChanInv, ListInv, Settled
<1>8. ASSUME NEW h \in Gs
      PROVE  GoroutineInv(h)'
  <2>1. CASE h = g
    BY <1>1, <1>2, <1>3, <1>5, <2>1 DEF GoroutineInv, Settled, Removing
  <2>2. CASE h # g
    <3>1. pc'[h] = pc[h] /\ call'[h] = call[h]
      BY <1>1, <2>2
    <3>2. ASSUME pc[h] \in {"callback", "clear"}
          PROVE  cc'[ci[call[h].ch]] = call[h].ch
      <4>1. /\ call[h].ch \in Chans /\ ci[call[h].ch] \in Ifaces
            /\ cc[ci[call[h].ch]] = call[h].ch
        BY <1>2, <3>2 DEF IInv, ChanInv, GoroutineInv, Removing, TypeOK
      <4>2. call[h].ch # c
        BY <1>6, <2>2, <3>2 DEF Removing
      <4>3. QED
        BY <1>3, <1>4, <4>1, <4>2
    <3>3. ASSUME pc[h] \in {"bind", "bound"}
          PROVE  LET j == call[h].i IN cc'[j] = IF pc[h] = "bind" THEN None ELSE call[h].ch
      <4> DEFINE j == call[h].i
      <4>1. /\ j \in Ifaces /\ ci[call[h].ch] = None /\ call[h].ch \in Chans
            /\ cc[j] = IF pc[h] = "bind" THEN None ELSE call[h].ch
        BY <3>3 DEF IInv, ChanInv, GoroutineInv, Ifaces
      <4>2. call[h].ch # c
        BY <1>3, <4>1
      <4>3. j # i \/ pc[h] = "bind"
        BY <1>3, <3>3, <4>1, <4>2
      <4>4. QED
        BY <1>4, <4>1, <4>3
    <3>4. pc[h] = "pushing" => call[h].ch \in epoll \/
                   \E k \in Gs : k # h /\ pc'[k] = "remove" /\ call'[k].ch = call[h].ch
      BY <1>1 DEF IInv, ChanInv, GoroutineInv
    <3>5. QED
      BY <1>2, <3>1, <3>2, <3>3, <3>4 DEF IInv, ChanInv, GoroutineInv, Settled
  <2>3. QED
    BY <2>1, <2>2
<1>9. AloneInv'
  BY <1>1 DEF IInv, ChanInv, AloneInv, Gs, Removing, Busy
<1>10. RequestInv'
  <2>1. Requesting' => Requesting /\ call'["user"] = call["user"]
    BY <1>1 DEF Requesting, Gs
  <2>2. QED
    BY <1>4, <2>1 DEF IInv, ChanInv, RequestInv, Ifaces
<1>11. BoundInv'
  <2>1. \A d \in Chans : Done(d) => Done(d)'
    BY <1>1 DEF Done, Removing
  <2>2. Done(c)'
    BY <1>1, <1>3, <1>6 DEF Done, Removing
  <2>3. Requesting => Requesting' /\ call'["user"] = call["user"]
    BY <1>1 DEF Requesting, Gs
  <2>4. ASSUME NEW d \in Chans, d # c, ci[d] # None, cc[ci[d]] = d
        PROVE  cc'[ci[d]] = d
    BY <1>2, <1>3, <1>4, <2>4
  <2>5. QED
    BY <2>1, <2>2, <2>3, <2>4 DEF IInv, ChanInv, BoundInv
<1>12. ListsAgree'
  BY <1>1, <1>2 DEF IInv, ChanInv, ListsAgree
<1>13. QED
  BY <1>4, <1>7, <1>8, <1>9, <1>10, <1>11, <1>12 DEF ChanInv

\* parseInit: the poller gives a master interface without channel its channel.
LEMMA BindInterfaceStep ==
  ASSUME IInv,
         Moves("poller", "bound", call["poller"]), pc["poller"] = "bind",
         NEW c, NEW i, call["poller"].ch = c, call["poller"].i = i,
         cc' = [cc EXCEPT ![i] = c],
         UNCHANGED <<ccList, torn, used, epoll, ci, backlog>>
  PROVE  ChanInv' /\ cc' \in [Ifaces -> Chans \cup {None}]
<1>1. /\ pc'["poller"] = "bound" /\ call' = call
      /\ \A h \in Gs : h # "poller" => pc'[h] = pc[h]
  BY MovesOne DEF IInv, Gs, Moves, TypeOK
<1>2. /\ used \subseteq Chans /\ ToSet(ccList)' = ToSet(ccList) /\ Pushed' = Pushed
      /\ cc \in [Ifaces -> Chans \cup {None}] /\ ci \in [Chans -> Ifaces \cup {None}]
      /\ None \notin Chans /\ None \notin Ifaces
  BY <1>1, SocketAssumption DEF IInv, TypeOK, ChanInv, ListInv, Pushed, Gs
<1>3. /\ c \in Chans /\ Settled(c) /\ ci[c] = None /\ cc[i] = None
      /\ i \in Ifaces /\ i \in Masters /\ i \notin Slaves
  BY SocketAssumption DEF IInv, ChanInv, GoroutineInv, Gs, Ifaces
<1>4. /\ cc' \in [Ifaces -> Chans \cup {None}]
      /\ cc'[i] = c /\ \A j \in Ifaces : j # i => cc'[j] = cc[j]
  BY <1>2, <1>3
<1>5. ListInv'
  <2>1. IsInjective(ccList)'
    BY DEF IInv, ChanInv, ListInv
  <2>2. \A j \in Ifaces : cc'[j] # None => Settled(cc'[j])
    BY <1>3, <1>4 DEF IInv, ChanInv, ListInv
  <2>3. QED
    BY <1>2, <2>1, <2>2 DEF IInv, ChanInv, ListInv, Settled
<1>6. ASSUME NEW h \in Gs
      PROVE  GoroutineInv(h)'
  <2>1. CASE h = "poller"
    BY <1>1, <1>2, <1>3, <1>4, <2>1 DEF GoroutineInv, Settled, Removing
  <2>2. CASE h # "poller"
    <3>1. pc'[h] = pc[h] /\ pc[h] \notin {"bind", "bound"}
      BY <1>1, <2>2 DEF IInv, ChanInv, GoroutineInv
    <3>2. ASSUME pc[h] \in {"callback", "clear"}
          PROVE  cc'[ci[call[h].ch]] = call[h].ch
      <4>1. /\ call[h].ch \in Chans /\ ci[call[h].ch] # None
            /\ cc[ci[call[h].ch]] = call[h].ch
        BY <1>2, <3>2 DEF IInv, ChanInv, GoroutineInv, Removing
      <4>2. ci[call[h].ch] # i /\ ci[call[h].ch] \in Ifaces
        BY <1>2, <1>3, <4>1
      <4>3. QED
        BY <1>4, <4>1, <4>2
    <3>3. pc[h] = "pushing" => call[h].ch \in epoll \/
                   \E k \in Gs : k # h /\ pc'[k] = "remove" /\ call[k].ch = call[h].ch
      BY <1>1 DEF IInv, ChanInv, GoroutineInv
    <3>4. QED
      BY <1>1, <1>2, <3>1, <3>2, <3>3 DEF IInv, ChanInv, GoroutineInv, Settled
  <2>3. QED
    BY <2>1, <2>2
<1>7. AloneInv'
  BY <1>1 DEF IInv, ChanInv, AloneInv, Gs, Removing, Busy
<1>8. RequestInv'
  BY <1>1, <1>3, <1>4 DEF IInv, ChanInv, RequestInv, Requesting, Gs, Ifaces
<1>9. BoundInv'
  <2>1. \A d \in Chans : Done(d) => Done(d)'
    BY <1>1 DEF Done, Removing
  <2>2. ASSUME NEW d \in Chans, ci[d] # None, cc[ci[d]] = d
        PROVE  cc'[ci[d]] = d
    BY <1>2, <1>3, <1>4, <2>2
  <2>3. QED
    BY <1>1, <2>1, <2>2 DEF IInv, ChanInv, BoundInv, Requesting, Gs
<1>10. ListsAgree'
  BY <1>1, <1>2 DEF IInv, ChanInv, ListsAgree
<1>11. QED
  BY <1>4, <1>5, <1>6, <1>7, <1>8, <1>9, <1>10 DEF ChanInv

\* Then the poller gives the channel, which may be closed by now, its interface.
LEMMA BindChannelStep ==
  ASSUME IInv,
         NEW r, Moves("poller", "wait", r), pc["poller"] = "bound",
         NEW c, NEW i, call["poller"].ch = c, call["poller"].i = i,
         ci' = [ci EXCEPT ![c] = i],
         UNCHANGED <<ccList, torn, used, epoll, cc, backlog>>
  PROVE  ChanInv' /\ ci' \in [Chans -> Ifaces \cup {None}]
<1>1. /\ pc'["poller"] = "wait"
      /\ \A h \in Gs : h # "poller" => pc'[h] = pc[h] /\ call'[h] = call[h]
  BY MovesOne DEF IInv, Gs
<1>2. /\ used \subseteq Chans /\ ToSet(ccList)' = ToSet(ccList) /\ Pushed' = Pushed
      /\ cc \in [Ifaces -> Chans \cup {None}] /\ ci \in [Chans -> Ifaces \cup {None}]
      /\ None \notin Chans /\ None \notin Ifaces
  BY <1>1, SocketAssumption DEF IInv, TypeOK, ChanInv, ListInv, Pushed, Gs
<1>3. /\ c \in Chans /\ Settled(c) /\ c \in used /\ ci[c] = None /\ cc[i] = c
      /\ i \in Ifaces /\ i \in Masters /\ i \notin Slaves
  BY SocketAssumption DEF IInv, ChanInv, GoroutineInv, Gs, Ifaces, Settled, Pushed
<1>4. /\ ci' \in [Chans -> Ifaces \cup {None}]
      /\ ci'[c] = i /\ \A d \in Chans : d # c => ci'[d] = ci[d]
  BY <1>2, <1>3
<1>5. ListInv'
  <2>1. IsInjective(ccList)'
    BY DEF IInv, ChanInv, ListInv
  <2>2. \A j \in Ifaces : cc[j] # None => Settled(cc[j])
    BY DEF IInv, ChanInv, ListInv
  <2>3. \A d \in Chans \ used : ci'[d] = None
    BY <1>3, <1>4 DEF IInv, ChanInv, ListInv
  <2>4. QED
    BY <1>2, <2>1, <2>2, <2>3 DEF IInv, ChanInv, ListInv, Settled
<1>6. ASSUME NEW h \in Gs
      PROVE  GoroutineInv(h)'
  <2>1. CASE h = "poller"
    BY <1>1, <2>1 DEF GoroutineInv, Removing
  <2>2. CASE h # "poller"
    <3>1. pc'[h] = pc[h] /\ call'[h] = call[h] /\ pc[h] \notin {"bind", "bound"}
      BY <1>1, <2>2 DEF IInv, ChanInv, GoroutineInv
    <3>2. ASSUME pc[h] \in {"callback", "clear"}
          PROVE  ci'[call[h].ch] # None /\ cc[ci'[call[h].ch]] = call[h].ch
      <4>1. /\ call[h].ch \in Chans /\ ci[call[h].ch] # None
            /\ cc[ci[call[h].ch]] = call[h].ch
        BY <1>2, <3>2 DEF IInv, ChanInv, GoroutineInv, Removing
      <4>2. call[h].ch # c
        BY <1>3, <4>1
      <4>3. QED
        BY <1>4, <4>1, <4>2
    <3>3. pc[h] = "pushing" => call[h].ch \in epoll \/
                   \E k \in Gs : k # h /\ pc'[k] = "remove" /\ call'[k].ch = call[h].ch
      BY <1>1 DEF IInv, ChanInv, GoroutineInv
    <3>4. QED
      BY <1>2, <3>1, <3>2, <3>3 DEF IInv, ChanInv, GoroutineInv, Settled
  <2>3. QED
    BY <2>1, <2>2
<1>7. AloneInv'
  BY <1>1 DEF IInv, ChanInv, AloneInv, Gs, Removing, Busy
<1>8. ASSUME Requesting
      PROVE  call["user"].ch \in Chans /\ call["user"].ch # c
  <2>1. call["user"].ch \in Chans
    BY <1>8 DEF IInv, ChanInv, GoroutineInv, Requesting, Gs
  <2>2. QED
    BY <1>2, <1>3, <1>8, <2>1 DEF IInv, ChanInv, RequestInv, Ifaces
<1>9. (Requesting <=> Requesting') /\ call'["user"] = call["user"]
  BY <1>1 DEF Requesting, Gs
<1>10. RequestInv'
  BY <1>4, <1>8, <1>9 DEF IInv, ChanInv, RequestInv
<1>11. BoundInv'
  <2>1. \A d \in Chans : Done(d) => Done(d)'
    BY <1>1 DEF Done, Removing
  <2>2. cc'[ci'[c]] = c
    BY <1>3, <1>4
  <2>3. QED
    BY <1>4, <1>9, <2>1, <2>2 DEF IInv, ChanInv, BoundInv
<1>12. ListsAgree'
  BY <1>1, <1>2 DEF IInv, ChanInv, ListsAgree
<1>13. QED
  BY <1>4, <1>5, <1>6, <1>7, <1>10, <1>11, <1>12 DEF ChanInv

\* RequestConnection stores the channel, which may be closed by now.
LEMMA StoreStep ==
  ASSUME IInv,
         NEW r, Moves("user", "idle", r),
         NEW c, NEW i, call["user"].ch = c, call["user"].i = i,
         pc["user"] = "store",
         cc' = [cc EXCEPT ![i] = c],
         UNCHANGED <<ccList, torn, used, epoll, ci, backlog>>
  PROVE  ChanInv' /\ cc' \in [Ifaces -> Chans \cup {None}]
<1>1. /\ pc'["user"] = "idle"
      /\ \A h \in Gs : h # "user" => pc'[h] = pc[h] /\ call'[h] = call[h]
  BY MovesOne DEF IInv, Gs
<1>2. /\ used \subseteq Chans /\ ToSet(ccList)' = ToSet(ccList) /\ Pushed' = Pushed
      /\ cc \in [Ifaces -> Chans \cup {None}] /\ ci \in [Chans -> Ifaces \cup {None}]
      /\ None \notin Chans /\ None \notin Ifaces
  BY <1>1, SocketAssumption DEF IInv, TypeOK, ChanInv, ListInv, Pushed, Gs
<1>3. c \in Chans /\ Settled(c) /\ i \in Ifaces /\ ci[c] = i /\ cc[i] = None
  BY DEF IInv, ChanInv, GoroutineInv, RequestInv, Requesting, Gs, Ifaces
<1>4. /\ cc' \in [Ifaces -> Chans \cup {None}]
      /\ cc'[i] = c /\ \A j \in Ifaces : j # i => cc'[j] = cc[j]
  BY <1>2, <1>3
<1>5. \A d \in Chans : ci[d] # None /\ cc[ci[d]] # d /\ d # c => Done(d)
  BY DEF IInv, ChanInv, BoundInv
<1>7. ListInv'
  <2>1. IsInjective(ccList)'
    BY DEF IInv, ChanInv, ListInv
  <2>2. \A j \in Ifaces : cc'[j] # None => Settled(cc'[j])
    BY <1>3, <1>4 DEF IInv, ChanInv, ListInv
  <2>3. QED
    BY <1>2, <2>1, <2>2 DEF IInv, ChanInv, ListInv, Settled
<1>8. ASSUME NEW h \in Gs
      PROVE  GoroutineInv(h)'
  <2>1. CASE h = "user"
    BY <1>1, <2>1 DEF GoroutineInv, Removing
  <2>2. CASE h # "user"
    <3>1. pc'[h] = pc[h] /\ call'[h] = call[h]
      BY <1>1, <2>2
    <3>2. ASSUME pc[h] \in {"callback", "clear"}
          PROVE  cc'[ci[call[h].ch]] = call[h].ch
      <4>1. /\ call[h].ch \in Chans /\ ci[call[h].ch] # None
            /\ cc[ci[call[h].ch]] = call[h].ch
        BY <1>2, <3>2 DEF IInv, ChanInv, GoroutineInv, Removing
      <4>2. ci[call[h].ch] # i /\ ci[call[h].ch] \in Ifaces
        BY <1>2, <1>3, <4>1
      <4>3. QED
        BY <1>4, <4>1, <4>2
    <3>3. ASSUME pc[h] \in {"bind", "bound"}
          PROVE  cc'[call[h].i] = cc[call[h].i]
      <4>1. call[h].i \in Masters /\ i \in Slaves
        BY <3>3 DEF IInv, ChanInv, GoroutineInv, RequestInv, Requesting
      <4>2. QED
        BY <1>4, <4>1, SocketAssumption DEF Ifaces
    <3>4. pc[h] = "pushing" => call[h].ch \in epoll \/
                   \E k \in Gs : k # h /\ pc'[k] = "remove" /\ call'[k].ch = call[h].ch
      BY <1>1 DEF IInv, ChanInv, GoroutineInv
    <3>5. QED
      BY <1>2, <3>1, <3>2, <3>3, <3>4 DEF IInv, ChanInv, GoroutineInv, Settled
  <2>3. QED
    BY <2>1, <2>2
<1>9. AloneInv' /\ RequestInv'
  BY <1>1 DEF IInv, ChanInv, AloneInv, RequestInv, Requesting, Removing, Busy
<1>10. BoundInv'
  <2>1. \A d \in Chans : Done(d) => Done(d)'
    BY <1>1 DEF Done, Removing
  <2>2. ASSUME NEW d \in Chans, d # c, ci[d] # None, cc[ci[d]] = d
        PROVE  cc'[ci[d]] = d
    BY <1>2, <1>3, <1>4, <2>2
  <2>3. cc'[ci[c]] = c
    BY <1>3, <1>4
  <2>4. ASSUME NEW d \in Chans
        PROVE  ci[d] = None \/ cc'[ci[d]] = d \/ Done(d)'
    BY <1>5, <2>1, <2>2, <2>3
  <2>5. QED
    BY <2>4 DEF BoundInv
<1>11. ListsAgree'
  BY <1>1, <1>2 DEF IInv, ChanInv, ListsAgree
<1>12. QED
  BY <1>4, <1>7, <1>8, <1>9, <1>10, <1>11 DEF ChanInv

-----------------------------------------------------------------------------
(* The steps of close. *)

LEMMA CloseEventInv ==
  ASSUME IInv, NEW g \in Gs, CloseEvent(g)
  PROVE  IInv'
<1> DEFINE c == call[g].ch
<1>1. TypeOK /\ pc[g] = "close" /\ call[g] \in Calls /\ c \in Chans /\ Settled(c)
  BY DEF IInv, TypeOK, ChanInv, GoroutineInv, CloseEvent
<1>2. CASE Return(g, FALSE) /\ UNCHANGED <<epoll, inbox, hungUp>>
  <2>1. PICK l \in {"wait", "close", "idle", "unlist", "interfaces", "deleted"}, r \in Calls :
          Moves(g, l, r) /\ (l = "close" => r.ch = c)
    BY <1>1, <1>2, ReturnMoves
  <2>2. dead' \in BOOLEAN
    BY <1>1, <1>2, ReturnMoves
  <2>3. l \in Labels /\ pc' \in [Gs -> Labels] /\ call' \in [Gs -> Calls]
        /\ (pc'["poller"] = "accept" => pc["poller"] = "accept")
    BY <1>1, <2>1, MovesOne, ZenonT(60) DEF Labels, Gs
  <2>4. TypeOK'
    BY <1>2, <2>2, <2>3 DEF IInv, TypeOK, CloseEvent, lists, links
  <2>5. pc["poller"] = "accept" => backlog
    BY DEF IInv, ChanInv, GoroutineInv, Gs
  <2>6. ChanInv'
    BY <1>1, <1>2, <2>1, <2>3, <2>5, LocalStep DEF CloseEvent, Changing, links
  <2>7. QED
    BY <2>4, <2>6 DEF IInv
<1>3. CASE c \in epoll /\ DelEvent(c) /\ Goto(g, "remove") /\ UNCHANGED <<call, dead>>
  <2>1. Moves(g, "remove", call[g]) /\ pc' \in [Gs -> Labels]
    BY <1>1, <1>3 DEF Moves, Goto, TypeOK, Labels
  <2>2. TypeOK'
    BY <1>3, <2>1 DEF IInv, TypeOK, CloseEvent, DelEvent, lists, links
  <2>3. ChanInv'
    BY <1>1, <1>3, <2>1, EventStep DEF CloseEvent, DelEvent, links
  <2>4. QED
    BY <2>2, <2>3 DEF IInv
<1>4. QED
  BY <1>2, <1>3 DEF CloseEvent

LEMMA RemoveBeginsInv ==
  ASSUME IInv, NEW g \in Gs, RemoveBegins(g)
  PROVE  IInv'
<1> DEFINE h == Other(g)
<1>1. TypeOK /\ pc[g] = "remove" /\ call[g] \in Calls
  BY DEF IInv, TypeOK, RemoveBegins
<1>2. CASE pc[h] = "pushing" /\ call[h].ch = call[g].ch
  BY <1>2, DeadStep DEF RemoveBegins, chans
<1>3. CASE ~(pc[h] = "pushing" /\ call[h].ch = call[g].ch)
  <2>1. /\ UNCHANGED <<lists, used, epoll, links, peers, call, dead>>
        /\ pc' = [pc EXCEPT ![g] = "removing"]
        /\ torn' = (torn \/ Busy(h))
        /\ ccList' = IF torn' THEN <<>> ELSE ccList
    BY <1>3 DEF RemoveBegins, BeginList, Goto
  <2>2. Moves(g, "removing", call[g]) /\ pc' \in [Gs -> Labels]
    BY <1>1, <2>1 DEF Moves, TypeOK, Labels
  <2>3. ChanInv' /\ ccList' \in Seq(Chans)
    BY <1>1, <1>3, <2>1, <2>2, BeginStep DEF links, peers
  <2>4. torn' \in BOOLEAN
    BY <1>1, <2>1 DEF TypeOK, Busy
  <2>5. TypeOK'
    BY <2>1, <2>2, <2>3, <2>4 DEF IInv, TypeOK, lists, links, peers
  <2>6. QED
    BY <2>3, <2>5 DEF IInv
<1>4. QED
  BY <1>2, <1>3

LEMMA CloseRemoveInv ==
  ASSUME IInv, NEW g \in Gs, CloseRemove(g)
  PROVE  IInv'
<1> DEFINE c == call[g].ch
           i == ci[c]
<1>1. /\ TypeOK /\ pc[g] = "removing" /\ call[g] \in Calls
      /\ ccList' = IF torn THEN <<>> ELSE Without(ccList, c)
      /\ UNCHANGED <<torn, lists, used, epoll, links, peers>>
  BY DEF IInv, TypeOK, CloseRemove, EndList, After
<1>2. CASE /\ i # None /\ cc[i] # None
           /\ Goto(g, "callback") /\ UNCHANGED <<call, dead>>
  <2>1. Moves(g, "callback", call[g]) /\ pc' \in [Gs -> Labels]
    BY <1>1, <1>2 DEF Moves, Goto, TypeOK, Labels
  <2>2. ChanInv' /\ ccList' \in Seq(Chans)
    BY <1>1, <1>2, <2>1, RemoveStep DEF links, peers
  <2>3. TypeOK'
    BY <1>1, <1>2, <2>1, <2>2 DEF IInv, TypeOK, lists, links, peers
  <2>4. QED
    BY <2>2, <2>3 DEF IInv
<1>3. CASE ~(i # None /\ cc[i] # None) /\ Return(g, TRUE)
  <2>1. PICK l \in {"wait", "close", "idle", "unlist", "interfaces", "deleted"}, r \in Calls :
          Moves(g, l, r) /\ (l = "close" => r.ch = c)
    BY <1>1, <1>3, ReturnMoves
  <2>2. dead' \in BOOLEAN
    BY <1>1, <1>3, ReturnMoves
  <2>3. pc' \in [Gs -> Labels] /\ call' \in [Gs -> Calls]
    BY <1>1, <2>1, MovesOne DEF Labels
  <2>4. ChanInv' /\ ccList' \in Seq(Chans)
    BY <1>1, <1>3, <2>1, RemoveStep DEF links, peers
  <2>5. TypeOK'
    BY <1>1, <2>2, <2>3, <2>4 DEF IInv, TypeOK, lists, links, peers
  <2>6. QED
    BY <2>4, <2>5 DEF IInv
<1>4. QED
  BY <1>2, <1>3 DEF CloseRemove

LEMMA DisconnectCallbackInv ==
  ASSUME IInv, NEW g \in Gs, DisconnectCallback(g)
  PROVE  IInv'
<1>1. TypeOK /\ pc[g] = "callback" /\ call[g] \in Calls
      /\ call[g].ch \in Chans /\ Settled(call[g].ch)
  BY DEF IInv, TypeOK, DisconnectCallback, ChanInv, GoroutineInv, Removing, Settled, Pushed
<1>2. PICK l \in {"wait", "close", "idle", "unlist", "interfaces", "deleted", "clear"},
           r \in Calls :
        /\ Moves(g, l, r)
        /\ l \in {"close", "clear"} => r.ch = call[g].ch
        /\ l = "clear" => r = call[g]
  <2>1. CASE Goto(g, "clear") /\ UNCHANGED call
    <3>1. Moves(g, "clear", call[g])
      BY <1>1, <2>1 DEF Moves, Goto, TypeOK
    <3>2. QED
      BY <1>1, <3>1
  <2>2. CASE Return(g, FALSE)
    BY <1>1, <2>2, ReturnMoves
  <2>3. QED
    BY <2>1, <2>2 DEF DisconnectCallback
<1>3. dead' \in BOOLEAN
  BY <1>1, ReturnMoves DEF DisconnectCallback, TypeOK
<1>4. l \in Labels /\ pc' \in [Gs -> Labels] /\ call' \in [Gs -> Calls]
      /\ (pc'["poller"] = "accept" => pc["poller"] = "accept")
  BY <1>1, <1>2, MovesOne, ZenonT(60) DEF Labels, Gs
<1>5. TypeOK'
  BY <1>3, <1>4 DEF IInv, TypeOK, DisconnectCallback, lists, chans, links, peers
<1>6. pc["poller"] = "accept" => backlog
  BY DEF IInv, ChanInv, GoroutineInv, Gs
<1>7. ChanInv'
  BY <1>1, <1>2, <1>4, <1>6, LocalStep DEF DisconnectCallback, Changing, chans, links, peers
<1>8. QED
  BY <1>5, <1>7 DEF IInv

LEMMA DisconnectClearInv ==
  ASSUME IInv, NEW g \in Gs, DisconnectClear(g)
  PROVE  IInv'
<1>1. TypeOK /\ pc[g] = "clear"
  BY DEF IInv, DisconnectClear
<1>2. PICK l \in {"wait", "close", "idle", "unlist", "interfaces", "deleted"}, r \in Calls :
        Moves(g, l, r) /\ (l = "close" => r.ch = call[g].ch)
  BY <1>1, ReturnMoves DEF DisconnectClear
<1>3. dead' \in BOOLEAN
  BY <1>1, ReturnMoves DEF DisconnectClear
<1>4. pc' \in [Gs -> Labels] /\ call' \in [Gs -> Calls]
  BY <1>1, <1>2, MovesOne DEF Labels
<1>5. ChanInv' /\ cc' \in [Ifaces -> Chans \cup {None}]
  BY <1>1, <1>2, ClearStep DEF DisconnectClear, chans, peers
<1>6. TypeOK'
  BY <1>3, <1>4, <1>5 DEF IInv, TypeOK, DisconnectClear, lists, chans, peers
<1>7. QED
  BY <1>5, <1>6 DEF IInv

LEMMA PushBeginsInv ==
  ASSUME IInv, NEW g \in Gs, PushBegins(g)
  PROVE  IInv'
<1>1. /\ TypeOK /\ pc[g] = "push" /\ call[g] \in Calls
      /\ UNCHANGED <<lists, used, epoll, links, peers, call, dead>>
      /\ pc' = [pc EXCEPT ![g] = "pushing"]
      /\ torn' = (torn \/ Busy(Other(g)))
      /\ ccList' = IF torn' THEN <<>> ELSE ccList
  BY DEF IInv, TypeOK, PushBegins, BeginList, Goto
<1>2. Moves(g, "pushing", call[g]) /\ pc' \in [Gs -> Labels]
  BY <1>1 DEF Moves, TypeOK, Labels
<1>3. ChanInv' /\ ccList' \in Seq(Chans)
  BY <1>1, <1>2, BeginStep DEF links, peers
<1>4. torn' \in BOOLEAN
  BY <1>1 DEF TypeOK, Busy
<1>5. TypeOK'
  BY <1>1, <1>2, <1>3, <1>4 DEF IInv, TypeOK, lists, links, peers
<1>6. QED
  BY <1>3, <1>5 DEF IInv

LEMMA PushBackInv ==
  ASSUME IInv, NEW g \in Gs, PushBack(g)
  PROVE  IInv'
<1>1. /\ TypeOK /\ pc[g] = "pushing" /\ call[g] \in Calls
      /\ ccList' = IF torn THEN <<>> ELSE Append(ccList, call[g].ch)
      /\ UNCHANGED <<torn, lists, used, epoll, links, peers, dead>>
  BY DEF IInv, TypeOK, PushBack, EndList, After
<1>2. PICK l \in {"store", "wait"}, r \in Calls :
        /\ Moves(g, l, r)
        /\ \/ g = "user" /\ l = "store" /\ r = call[g]
           \/ g = "poller" /\ l = "wait"
  <2>1. CASE g = "user" /\ Goto(g, "store") /\ UNCHANGED call
    <3>1. Moves(g, "store", call[g])
      BY <1>1, <2>1 DEF Moves, Goto, TypeOK
    <3>2. QED
      BY <1>1, <2>1, <3>1
  <2>2. CASE g = "poller" /\ Leave(g, "wait")
    <3>1. Moves(g, "wait", NoCall) /\ NoCall \in Calls
      BY <2>2 DEF Moves, Leave, Goto, NoCall, Calls
    <3>2. QED
      BY <2>2, <3>1
  <2>3. QED
    BY <2>1, <2>2 DEF PushBack, AfterPush
<1>3. pc' \in [Gs -> Labels] /\ call' \in [Gs -> Calls]
  BY <1>1, <1>2, MovesOne DEF Labels
<1>4. ChanInv' /\ ccList' \in Seq(Chans)
  BY <1>1, <1>2, PushStep DEF links, peers
<1>5. TypeOK'
  BY <1>1, <1>3, <1>4 DEF IInv, TypeOK, lists, links, peers
<1>6. QED
  BY <1>4, <1>5 DEF IInv

-----------------------------------------------------------------------------
(* The other steps of the poller and of the user. *)

\* LocalStep for the actions that leave the epoll instance and the links alone.
LEMMA LocalInv ==
  ASSUME IInv,
         NEW g \in Gs, NEW l \in Labels, NEW r \in Calls, Moves(g, l, r),
         UNCHANGED <<created, listener, chans, links, backlog, hungUp, dead>>,
         interfaceList' \in Seq(Ifaces), inbox' \subseteq Chans,
         pc[g] \notin Changing,
         l \notin (Changing \cup {"callback", "clear"}) \ {"bind"},
         l = "accept" => g = "poller" /\ backlog,
         l \in {"receive", "close", "load", "bind"} => r.ch \in Chans /\ Settled(r.ch),
         l = "load" => r.i \in Ifaces,
         l = "bind" => g = "poller" /\ r.i \in Masters /\ ci[r.ch] = None /\ cc[r.i] = None
  PROVE  IInv'
<1>1. TypeOK
  BY DEF IInv
<1>2. /\ pc' \in [Gs -> Labels] /\ call' \in [Gs -> Calls]
      /\ pc'[g] = l /\ \A h \in Gs : h # g => pc'[h] = pc[h]
  BY <1>1, MovesOne
<1>3. TypeOK'
  BY <1>2 DEF IInv, TypeOK, chans, links
<1>4. pc["poller"] = "accept" => backlog
  BY DEF IInv, ChanInv, GoroutineInv, Gs
<1>5. pc'["poller"] = "accept" => backlog'
  BY <1>2, <1>4 DEF Gs
<1>6. ChanInv'
  BY <1>5, LocalStep DEF Changing, chans, links
<1>7. QED
  BY <1>3, <1>6 DEF IInv

LEMMA ListedSettled ==
  ASSUME IInv
  PROVE  /\ \A g \in Gs : \A c \in Met(g) : c \in Chans /\ Settled(c)
         /\ \A c \in Fronts : c \in Chans /\ Settled(c)
         /\ \A i \in Ifaces : cc[i] # None => cc[i] \in Chans /\ Settled(cc[i])
         /\ \A c \in Chans, i \in Ifaces \cup {None}, send \in BOOLEAN,
               ret \in {"error", "hang up", "bye", "disconnect", "delete", "socket",
                        "interface"} :
              [ch |-> c, i |-> i, send |-> send, ret |-> ret] \in Calls
         /\ NoCall \in Calls
<1>1. /\ Pushed \subseteq Chans /\ ToSet(ccList) \subseteq Pushed /\ IsInjective(ccList)
      /\ ccList \in Seq(Chans)
  BY DEF IInv, TypeOK, ChanInv, ListInv, Pushed
<1>2. ASSUME NEW g \in Gs
      PROVE  After(g) \in Seq(Chans) /\ ToSet(After(g)) \subseteq Pushed
  <2>1. CASE pc[g] = "pushing"
    <3>1. call[g].ch \in Chans /\ call[g].ch \in Pushed
      BY <2>1 DEF IInv, ChanInv, GoroutineInv, Settled
    <3>2. After(g) = Append(ccList, call[g].ch)
      BY <2>1 DEF After
    <3>3. QED
      BY <1>1, <3>1, <3>2, ListAppend
  <2>2. CASE pc[g] = "removing"
    <3>1. After(g) = Without(ccList, call[g].ch)
      BY <2>2 DEF After
    <3>2. QED
      BY <1>1, <3>1, ListWithout
  <2>3. CASE pc[g] \notin {"pushing", "removing"}
    BY <1>1, <2>3 DEF After
  <2>4. QED
    BY <2>1, <2>2, <2>3
<1>3. \A g \in Gs : \A c \in Met(g) : c \in Chans /\ Settled(c)
  BY <1>1, <1>2 DEF Met, Settled
<1>4. \A c \in Fronts : c \in Chans /\ Settled(c)
  <2>1. CASE torn
    BY <1>1, <2>1 DEF Fronts, Settled
  <2>2. CASE ~torn
    <3> SUFFICES ASSUME NEW c \in Fronts PROVE c \in Pushed
      BY <1>1 DEF Settled
    <3>1. PICK list \in {ccList, After("poller")} \ {<<>>} : c = Head(list)
      BY <2>2 DEF Fronts
    <3>2. list \in Seq(Chans) /\ ToSet(list) \subseteq Pushed
      BY <1>1, <1>2 DEF Gs
    <3>3. QED
      BY <3>1, <3>2, ListHead
  <2>3. QED
    BY <2>1, <2>2
<1>5. \A i \in Ifaces : cc[i] # None => cc[i] \in Chans /\ Settled(cc[i])
  BY DEF IInv, TypeOK, ChanInv, ListInv
<1>6. QED
  BY <1>3, <1>4, <1>5 DEF Calls, NoCall

LEMMA WaitInv ==
  ASSUME IInv, WaitListener \/ (\E c \in Chans : WaitChannel(c)) \/ WaitError
  PROVE  IInv'
<1>1. TypeOK /\ call["poller"] \in Calls /\ "poller" \in Gs /\ "user" \in Gs
  BY DEF IInv, TypeOK, Gs
<1>2. UNCHANGED call => call' = [call EXCEPT !["poller"] = call["poller"]]
  BY <1>1 DEF TypeOK
<1>3. CASE WaitListener
  <2>1. Moves("poller", "accept", call["poller"])
    BY <1>2, <1>3 DEF WaitListener, Moves, Goto
  <2>2. QED
    BY <1>1, <1>3, <2>1, LocalInv, ZenonT(60) DEF WaitListener, lists, peers, Labels, Changing, TypeOK
<1>4. ASSUME NEW c \in Chans, WaitChannel(c)
      PROVE  IInv'
  <2> DEFINE r == [call["poller"] EXCEPT !.ch = c]
  <2>1. r \in Calls
    BY <1>1 DEF Calls
  <2>2. PICK l \in {"hung up", "lookup"} : Moves("poller", l, r)
    BY <1>1, <1>4 DEF WaitChannel, Moves, Goto, TypeOK
  <2>3. QED
    BY <1>1, <1>4, <2>1, <2>2, LocalInv DEF WaitChannel, lists, peers, Labels, Changing, TypeOK
<1>5. CASE WaitError
  <2>1. Moves("poller", "off", call["poller"])
    BY <1>2, <1>5 DEF WaitError, Moves, Goto
  <2>2. QED
    BY <1>1, <1>5, <2>1, LocalInv, ZenonT(60) DEF WaitError, lists, peers, Labels, Changing, TypeOK
<1>6. QED
  BY <1>3, <1>4, <1>5

LEMMA LookupInv ==
  ASSUME IInv, Lookup
  PROVE  IInv'
<1> DEFINE c == call["poller"].ch
<1>1. TypeOK /\ call["poller"] \in Calls /\ "poller" \in Gs /\ "user" \in Gs
  BY DEF IInv, TypeOK, Gs
<1>2. UNCHANGED call => call' = [call EXCEPT !["poller"] = call["poller"]]
  BY <1>1 DEF TypeOK
<1>3. CASE Leave("poller", "wait")
  <2>1. Moves("poller", "wait", NoCall)
    BY <1>3 DEF Leave, Moves, Goto
  <2>2. QED
    BY <1>1, <1>3, <2>1, ListedSettled, LocalInv DEF Lookup, lists, peers, Labels, Changing, TypeOK
<1>4. CASE c \in Met("user") /\ Goto("poller", "receive") /\ UNCHANGED call
  <2>1. Moves("poller", "receive", call["poller"])
    BY <1>2, <1>4 DEF Moves, Goto
  <2>2. QED
    BY <1>1, <1>4, <2>1, ListedSettled, LocalInv DEF Lookup, lists, peers, Labels, Changing, TypeOK
<1>5. CASE c \in Met("user") /\ Enter("poller", c, None, FALSE, "hang up")
  <2> DEFINE r == [ch |-> c, i |-> None, send |-> FALSE, ret |-> "hang up"]
  <2>1. Moves("poller", "close", r)
    BY <1>5 DEF Enter, Moves, Goto
  <2>2. c \in Chans /\ Settled(c)
    BY <1>1, <1>5, ListedSettled
  <2>3. r \in Calls /\ r.ch \in Chans /\ Settled(r.ch)
    BY <2>2 DEF Calls
  <2> HIDE DEF r
  <2>4. QED
    BY <1>1, <1>5, <2>1, <2>3, LocalInv DEF Lookup, lists, peers, Labels, Changing, TypeOK
<1>6. QED
  BY <1>3, <1>4, <1>5 DEF Lookup

LEMMA ReceiveInv ==
  ASSUME IInv, Receive
  PROVE  IInv'
<1> DEFINE c == call["poller"].ch
<1>1. TypeOK /\ call["poller"] \in Calls /\ "poller" \in Gs /\ c \in Chans /\ Settled(c)
  BY DEF IInv, TypeOK, Gs, Receive, ChanInv, GoroutineInv
<1>2. pc["poller"] = "receive" /\ inbox' \subseteq Chans /\ interfaceList' \in Seq(Ifaces)
  BY DEF IInv, TypeOK, Receive, lists
<1>3. CASE Leave("poller", "wait") 
  <2>1. Moves("poller", "wait", NoCall)
    BY <1>3 DEF Leave, Moves, Goto
  <2>2. QED
    BY <1>1, <1>2, <1>3, <2>1, ListedSettled, LocalInv DEF Receive, lists, Labels, Changing
<1>4. ASSUME NEW send \in BOOLEAN, NEW ret \in {"error", "bye"},
             Enter("poller", c, None, send, ret)
      PROVE  IInv'
  <2> DEFINE r == [ch |-> c, i |-> None, send |-> send, ret |-> ret]
  <2>1. Moves("poller", "close", r)
    BY <1>4 DEF Enter, Moves, Goto
  <2>2. r \in Calls /\ r.ch = c
    BY <1>1, ListedSettled
  <2> HIDE DEF r
  <2>3. QED
    BY <1>1, <1>2, <1>4, <2>1, <2>2, LocalInv DEF Receive, lists, Labels, Changing
<1>5. ASSUME NEW i \in Ifaces, Finds(c, i)
      PROVE  IInv'
  <2> DEFINE r == [call["poller"] EXCEPT !.i = i]
  <2>1. i \in Masters /\ cc[i] = None /\ ci[c] = None
    BY <1>5 DEF Finds
  <2>2. r \in Calls /\ r.ch = c /\ r.i = i
    BY <1>1 DEF Calls
  <2>3. Moves("poller", "bind", r)
    BY <1>1, <1>5 DEF Finds, Moves, Goto, TypeOK
  <2> HIDE DEF r
  <2>4. QED
    BY <1>1, <1>2, <2>1, <2>2, <2>3, LocalInv DEF Receive, lists, Labels, Changing
<1>6. QED
  BY <1>3, <1>4, <1>5 DEF Receive

LEMMA BindInv ==
  ASSUME IInv, BindInterface \/ BindChannel
  PROVE  IInv'
<1> DEFINE c == call["poller"].ch
           i == call["poller"].i
<1>1. TypeOK /\ "poller" \in Gs
  BY DEF IInv, Gs
<1>2. CASE BindInterface
  <2>1. Moves("poller", "bound", call["poller"]) /\ pc' \in [Gs -> Labels]
    BY <1>1, <1>2 DEF BindInterface, Moves, Goto, TypeOK, Labels
  <2>2. ChanInv' /\ cc' \in [Ifaces -> Chans \cup {None}]
    BY <1>2, <2>1, BindInterfaceStep DEF BindInterface, chans, peers
  <2>3. TypeOK'
    BY <1>2, <2>1, <2>2 DEF IInv, TypeOK, BindInterface, lists, chans, peers
  <2>4. QED
    BY <2>2, <2>3 DEF IInv
<1>3. CASE BindChannel
  <2>1. Moves("poller", "wait", NoCall)
    BY <1>3 DEF BindChannel, Leave, Moves, Goto
  <2>2. pc' \in [Gs -> Labels] /\ call' \in [Gs -> Calls]
    BY <1>1, <2>1, MovesOne, ListedSettled DEF Labels
  <2>3. ChanInv' /\ ci' \in [Chans -> Ifaces \cup {None}]
    BY <1>3, <2>1, BindChannelStep DEF BindChannel, chans, peers
  <2>4. TypeOK'
    BY <1>3, <2>2, <2>3 DEF IInv, TypeOK, BindChannel, lists, chans, peers
  <2>5. QED
    BY <2>3, <2>4 DEF IInv
<1>4. QED
  BY <1>2, <1>3

LEMMA AcceptInv ==
  ASSUME IInv, Accept
  PROVE  IInv'
<1>1. TypeOK /\ call["poller"] \in Calls /\ "poller" \in Gs /\ pc["poller"] = "accept"
      /\ backlog
  BY DEF IInv, TypeOK, Gs, Accept, ChanInv, GoroutineInv
<1>2. ~backlog'
  BY DEF Accept
<1>3. CASE AddEvent("poller", None)
  <2> DEFINE c == CHOOSE x \in Chans \ used : TRUE
             r == [call["poller"] EXCEPT !.ch = c, !.i = None]
  <2>1. c \in Chans \ used
    BY <1>1 DEF IInv, ChanInv, ListInv
  <2>2. /\ used' = used \cup {c} /\ epoll' = epoll \cup {c} /\ ci' = [ci EXCEPT ![c] = None]
        /\ pc' = [pc EXCEPT !["poller"] = "push"]
        /\ call' = [call EXCEPT !["poller"].ch = c, !["poller"].i = None]
    BY <1>3 DEF AddEvent, Goto
  <2> HIDE DEF c
  <2>3. r \in Calls /\ r.ch = c
    BY <1>1, <2>1 DEF Calls
  <2>4. call' = [call EXCEPT !["poller"] = r]
    BY <1>1, <2>2 DEF TypeOK
  <2> HIDE DEF r
  <2>5. Moves("poller", "push", r)
    BY <2>2, <2>4 DEF Moves
  <2>6. pc' \in [Gs -> Labels] /\ call' \in [Gs -> Calls] /\ pc'["poller"] = "push"
    BY <1>1, <2>3, <2>5, MovesOne DEF Labels
  <2>7. TypeOK'
    BY <1>1, <2>1, <2>2, <2>6 DEF TypeOK, Accept, lists
  <2>8. ChanInv'
    BY <1>1, <1>2, <2>1, <2>2, <2>3, <2>5, <2>6, AddStep DEF Accept
  <2>9. QED
    BY <2>7, <2>8 DEF IInv
<1>4. CASE Goto("poller", "wait") /\ UNCHANGED <<used, epoll, ci, call>>
  <2>1. Moves("poller", "wait", call["poller"])
    BY <1>1, <1>4 DEF Moves, Goto, TypeOK
  <2>2. pc' \in [Gs -> Labels] /\ pc'["poller"] = "wait"
    BY <1>1, <2>1, MovesOne DEF Labels
  <2>3. TypeOK'
    BY <1>1, <1>2, <1>4, <2>2 DEF TypeOK, Accept, lists
  <2>4. ChanInv'
    BY <1>1, <1>2, <1>4, <2>1, <2>2, LocalStep DEF Accept, Changing
  <2>5. QED
    BY <2>3, <2>4 DEF IInv
<1>5. QED
  BY <1>3, <1>4 DEF Accept

LEMMA RequestConnectionInv ==
  ASSUME IInv, NEW i \in Ifaces, RequestConnection(i)
  PROVE  IInv'
<1> DEFINE c == CHOOSE x \in Chans \ used : TRUE
           r == [call["user"] EXCEPT !.ch = c, !.i = i]
<1>1. /\ TypeOK /\ call["user"] \in Calls /\ "user" \in Gs /\ pc["user"] = "idle"
      /\ i \in Slaves /\ cc[i] = None /\ UNCHANGED backlog
  BY DEF IInv, TypeOK, Gs, RequestConnection, Idle, peers
<1>2. c \in Chans \ used
  BY DEF RequestConnection, Room
<1>3. backlog => Chans \ used # {c}
  BY DEF RequestConnection, Room
<1>4. /\ used' = used \cup {c} /\ epoll' = epoll \cup {c} /\ ci' = [ci EXCEPT ![c] = i]
      /\ pc' = [pc EXCEPT !["user"] = "push"]
      /\ call' = [call EXCEPT !["user"].ch = c, !["user"].i = i]
  BY DEF AddEvent, Goto, RequestConnection
<1> HIDE DEF c
<1>5. r \in Calls /\ r.ch = c /\ r.i = i
  BY <1>1, <1>2 DEF Calls
<1>6. call' = [call EXCEPT !["user"] = r]
  BY <1>1, <1>4 DEF TypeOK
<1> HIDE DEF r
<1>7. Moves("user", "push", r)
  BY <1>4, <1>6 DEF Moves
<1>8. /\ pc' \in [Gs -> Labels] /\ call' \in [Gs -> Calls]
      /\ pc'["poller"] = pc["poller"]
  BY <1>1, <1>5, <1>7, MovesOne DEF Labels, Gs
<1>9. TypeOK'
  BY <1>1, <1>2, <1>4, <1>8 DEF TypeOK, RequestConnection, lists, peers
<1>10. backlog' => Chans \ used' # {}
  BY <1>1, <1>2, <1>3, <1>4
<1>11. pc'["poller"] = "accept" => backlog'
  BY <1>1, <1>8 DEF IInv, ChanInv, GoroutineInv, Gs
<1>12. ChanInv'
  BY <1>1, <1>2, <1>4, <1>5, <1>7, <1>10, <1>11, AddStep DEF RequestConnection
<1>13. QED
  BY <1>9, <1>12 DEF IInv

LEMMA RequestStoreInv ==
  ASSUME IInv, RequestStore
  PROVE  IInv'
<1>1. TypeOK /\ pc["user"] = "store" /\ "user" \in Gs
  BY DEF IInv, RequestStore, Gs
<1>2. Moves("user", "idle", NoCall)
  BY DEF RequestStore, Leave, Moves, Goto
<1>3. pc' \in [Gs -> Labels] /\ call' \in [Gs -> Calls]
  BY <1>1, <1>2, MovesOne, ListedSettled DEF Labels
<1>4. ChanInv' /\ cc' \in [Ifaces -> Chans \cup {None}]
  BY <1>1, <1>2, StoreStep DEF RequestStore, chans, peers
<1>5. TypeOK'
  BY <1>3, <1>4 DEF IInv, TypeOK, RequestStore, lists, chans, peers
<1>6. QED
  BY <1>4, <1>5 DEF IInv

\* Disconnect, Delete, the deletion of the socket: the user enters close or goes
\* on without it.
LEMMA UserCallInv ==
  ASSUME IInv,
         \/ \E i \in Ifaces : Disconnect(i) \/ Delete(i)
         \/ LoadChannel \/ DeleteSocket \/ DeleteInterfaces \/ Unlist
  PROVE  IInv'
<1>1. /\ TypeOK /\ call["user"] \in Calls /\ "user" \in Gs
      /\ interfaceList \in Seq(Ifaces) /\ inbox \subseteq Chans
  BY DEF IInv, TypeOK, Gs
<1>2. ASSUME pc["user"] \in {"idle", "interfaces", "unlist", "load"},
             UNCHANGED <<created, listener, chans, links, peers, dead>>,
             interfaceList' \in Seq(Ifaces),
             NEW l \in {"close", "load", "unlist", "interfaces", "listener", "idle"},
             NEW r \in Calls, Moves("user", l, r),
             l \in {"close", "load"} => r.ch \in Chans /\ Settled(r.ch),
             l = "load" => r.i \in Ifaces
      PROVE  IInv'
  BY <1>1, <1>2, LocalInv DEF peers, Labels, Changing
<1>3. ASSUME NEW c \in Chans, Settled(c), NEW j \in Ifaces \cup {None},
             NEW ret \in {"disconnect", "delete", "socket", "interface"},
             Enter("user", c, j, TRUE, ret)
      PROVE  \E r \in Calls : Moves("user", "close", r) /\ r.ch = c
  BY <1>3, ListedSettled DEF Enter, Moves, Goto
<1>4. ASSUME NEW i \in Ifaces, NEW ret \in {"disconnect", "delete", "interface"},
             LookAtChannel(i, ret)
      PROVE  \E l \in {"load", "unlist"}, r \in Calls :
               /\ Moves("user", l, r)
               /\ l = "load" => r.ch \in Chans /\ Settled(r.ch) /\ r.i \in Ifaces
  <2> DEFINE r == [ch |-> cc[i], i |-> i, send |-> TRUE, ret |-> ret]
             l == IF cc[i] # None THEN "load" ELSE "unlist"
  <2>1. cc[i] \in Chans \cup {None}
    BY <1>1 DEF TypeOK
  <2>2. r \in Calls /\ r.ch = cc[i] /\ r.i = i
    BY <2>1 DEF Calls
  <2>3. Moves("user", l, r)
    BY <1>4 DEF LookAtChannel, Moves, Goto
  <2>4. l = "load" => cc[i] \in Chans /\ Settled(cc[i])
    BY ListedSettled
  <2>5. l \in {"load", "unlist"}
    OBVIOUS
  <2> HIDE DEF l, r
  <2>6. QED
    BY <2>2, <2>3, <2>4, <2>5
<1>5. ASSUME NEW i \in Ifaces, Disconnect(i)
      PROVE  IInv'
  BY <1>1, <1>2, <1>4, <1>5 DEF Disconnect, Idle, lists
<1>6. ASSUME NEW i \in Ifaces, Delete(i)
      PROVE  IInv'
  BY <1>1, <1>2, <1>4, <1>6 DEF Delete, Idle, lists
<1>7. CASE DeleteSocket
  <2>1. CASE Goto("user", "interfaces") /\ UNCHANGED call
    <3>1. Moves("user", "interfaces", call["user"])
      BY <1>1, <2>1 DEF Moves, Goto, TypeOK
    <3>2. QED
      BY <1>1, <1>2, <1>7, <3>1 DEF DeleteSocket, Idle, lists
  <2>2. ASSUME NEW c \in Fronts, Enter("user", c, None, TRUE, "socket")
        PROVE  IInv'
    <3>1. c \in Chans /\ Settled(c)
      BY ListedSettled
    <3>2. PICK r \in Calls : Moves("user", "close", r) /\ r.ch = c
      BY <1>3, <2>2, <3>1
    <3>3. QED
      BY <1>1, <1>2, <1>7, <3>1, <3>2 DEF DeleteSocket, Idle, lists
  <2>3. QED
    BY <1>7, <2>1, <2>2 DEF DeleteSocket
<1>8. CASE DeleteInterfaces
  <2>1. CASE interfaceList = <<>>
    <3>1. Moves("user", "listener", call["user"])
      BY <1>1, <1>8, <2>1 DEF DeleteInterfaces, Moves, Goto, TypeOK
    <3>2. QED
      BY <1>1, <1>2, <1>8, <3>1 DEF DeleteInterfaces, lists
  <2>2. CASE interfaceList # <<>>
    <3>1. Head(interfaceList) \in Ifaces
      BY <1>1, <2>2, ListHead
    <3>2. LookAtChannel(Head(interfaceList), "interface")
      BY <1>8, <2>2 DEF DeleteInterfaces
    <3>3. QED
      BY <1>1, <1>2, <1>4, <1>8, <3>1, <3>2 DEF DeleteInterfaces, lists
  <2>3. QED
    BY <2>1, <2>2
<1>9. CASE Unlist
  <2>1. interfaceList' \in Seq(Ifaces)
    BY <1>1, <1>9, ListWithout DEF Unlist
  <2>2. PICK l \in {"idle", "listener"} : Moves("user", l, NoCall)
    BY <1>9 DEF Unlist, Leave, Moves, Goto
  <2>3. QED
    BY <1>2, <1>9, <2>1, <2>2, ListedSettled DEF Unlist
<1>10. CASE LoadChannel
  <2>1. call["user"].ch \in Chans /\ Settled(call["user"].ch) /\ call["user"].i \in Ifaces
    BY <1>1, <1>10 DEF LoadChannel, IInv, ChanInv, GoroutineInv
  <2>2. PICK c \in {call["user"].ch, cc[call["user"].i]} :
          IF c = None
            THEN dead' = TRUE /\ UNCHANGED <<pc, call>>
            ELSE Enter("user", c, call["user"].i, TRUE, call["user"].ret) /\ UNCHANGED dead
    BY <1>10 DEF LoadChannel
  <2>3. CASE c = None
    BY <1>10, <2>2, <2>3, DeadStep DEF LoadChannel
  <2>4. CASE c # None
    <3> DEFINE r == [ch |-> c, i |-> call["user"].i, send |-> TRUE, ret |-> call["user"].ret]
    <3>1. c \in Chans /\ Settled(c)
      BY <2>1, <2>2, <2>4, ListedSettled
    <3>2. r \in Calls /\ r.ch = c
      BY <1>1, <3>1 DEF Calls
    <3>3. Moves("user", "close", r)
      BY <2>2, <2>4 DEF Enter, Moves, Goto
    <3> HIDE DEF r
    <3>4. pc["user"] = "load" /\ UNCHANGED <<lists, chans, links, peers, dead>>
      BY <1>10, <2>2, <2>4 DEF LoadChannel
    <3>5. QED
      BY <1>1, <1>2, <3>1, <3>2, <3>3, <3>4 DEF lists
  <2>5. QED
    BY <2>3, <2>4
<1>11. QED
  BY <1>5, <1>6, <1>7, <1>8, <1>9, <1>10

LEMMA DeleteRestInv ==
  ASSUME IInv, DeleteListener \/ DeleteEvents
  PROVE  IInv'
<1>1. TypeOK /\ call["user"] \in Calls /\ "user" \in Gs /\ "poller" \in Gs
  BY DEF IInv, TypeOK, Gs
<1>2. PICK l \in {"events", "deleted"} :
        Moves("user", l, call["user"]) /\ pc["user"] \in {"listener", "events"}
  BY <1>1 DEF DeleteListener, DeleteEvents, Moves, Goto, TypeOK
<1>3. UNCHANGED <<lists, ccList, torn, used, links, peers, call, dead>>
  BY DEF DeleteListener, DeleteEvents
<1>4. /\ epoll' \subseteq Chans \cup {"wake", "listener"}
      /\ \A c \in Chans : c \in epoll' <=> c \in epoll
  BY <1>1, SocketAssumption DEF DeleteListener, DeleteEvents, TypeOK
<1>5. /\ pc' \in [Gs -> Labels] /\ call' \in [Gs -> Calls]
      /\ pc'["poller"] = pc["poller"]
  <2>1. l \in Labels /\ "poller" # "user"
    BY DEF Labels
  <2>2. QED
    BY <1>1, <1>2, <2>1, MovesOne
<1>6. TypeOK'
  BY <1>1, <1>3, <1>4, <1>5 DEF TypeOK, lists, links, peers
<1>7. pc["poller"] = "accept" => backlog
  BY <1>1 DEF IInv, ChanInv, GoroutineInv
<1>8. ChanInv'
  BY <1>1, <1>2, <1>3, <1>4, <1>5, <1>7, LocalStep DEF Changing, links, peers
<1>9. QED
  BY <1>6, <1>8 DEF IInv

LEMMA NewInterfaceInv ==
  ASSUME IInv, NEW i \in Ifaces, NewInterface(i)
  PROVE  IInv'
<1>1. /\ interfaceList' = Append(interfaceList, i)
      /\ created' = created \cup {i} \/ created' = created
      /\ listener' \in BOOLEAN
      /\ epoll' = epoll \cup {"listener"} \/ epoll' = epoll
      /\ UNCHANGED <<ccList, torn, used, links, peers, pc, call, dead>>
  BY DEF NewInterface, AddListener, IInv, TypeOK
<1>2. interfaceList' \in Seq(Ifaces)
  BY <1>1, ListAppend DEF IInv, TypeOK
<1>3. TypeOK'
  BY <1>1, <1>2 DEF IInv, TypeOK, links, peers
<1>4. \A c \in Chans : c \in epoll' <=> c \in epoll
  BY <1>1, SocketAssumption
<1>5. ChanInv'
  BY <1>1, <1>4, OutsideStep DEF links, peers
<1>6. QED
  BY <1>3, <1>5 DEF IInv

LEMMA PeersInv ==
  ASSUME IInv, Peers
  PROVE  IInv'
<1>1. /\ UNCHANGED <<lists, chans, links, pc, call, dead>>
      /\ backlog' \in BOOLEAN /\ inbox' \subseteq Chans /\ hungUp' \subseteq Chans
      /\ backlog => backlog'
      /\ backlog' => backlog \/ Chans \ used # {}
  <2>1. TypeOK
    BY DEF IInv
  <2>2. CASE PeerConnects
    BY <2>1, <2>2 DEF TypeOK, PeerConnects, Room
  <2>3. ASSUME NEW c \in Chans, PeerHangsUp(c) \/ PeerSends(c)
        PROVE  /\ UNCHANGED <<lists, chans, links, pc, call, dead>>
               /\ backlog' = backlog /\ inbox' \subseteq Chans /\ hungUp' \subseteq Chans
    BY <2>1, <2>3 DEF TypeOK, PeerSends, PeerHangsUp, chans
  <2>4. QED
    BY <2>1, <2>2, <2>3 DEF Peers, TypeOK
<1>2. TypeOK'
  BY <1>1 DEF IInv, TypeOK, lists, chans, links
<1>3. ChanInv'
  BY <1>1, OutsideStep DEF chans, links
<1>4. QED
  BY <1>2, <1>3 DEF IInv

-----------------------------------------------------------------------------
(* The theorems. *)

LEMMA InitInv == Init => IInv
<1> SUFFICES ASSUME Init PROVE IInv
  OBVIOUS
<1> USE DEF Init
<1>1. NoCall \in Calls /\ NoCall.ret = "none"
  BY DEF NoCall, Calls
<1>2. TypeOK
  <2>1. pc \in [Gs -> Labels] /\ call \in [Gs -> Calls]
    BY <1>1 DEF Labels
  <2>2. <<>> \in Seq(Ifaces) /\ <<>> \in Seq(Chans)
    BY EmptySeq
  <2>3. QED
    BY <2>1, <2>2 DEF TypeOK
<1>3. pc["poller"] = "wait" /\ pc["user"] = "idle"
  BY DEF Gs
<1>4. ToSet(ccList) = {} /\ epoll \cap Chans = {} /\ IsInjective(ccList)
  BY SocketAssumption DEF ToSet, IsInjective
<1>5. ListInv
  BY <1>4 DEF ListInv
<1>6. \A g \in Gs : GoroutineInv(g)
  BY <1>3 DEF GoroutineInv, Gs, Removing
<1>7. AloneInv /\ RequestInv
  BY <1>3 DEF AloneInv, RequestInv, Requesting, Removing, Busy
<1>8. BoundInv
  BY DEF BoundInv
<1>9. ListsAgree
  BY <1>4 DEF ListsAgree
<1>10. QED
  BY <1>2, <1>5, <1>6, <1>7, <1>8, <1>9 DEF IInv, ChanInv

LEMMA StutterInv == IInv /\ UNCHANGED vars => IInv'
<1> SUFFICES ASSUME IInv, UNCHANGED vars PROVE IInv'
  OBVIOUS
<1>1. UNCHANGED <<lists, chans, links, peers, pc, call, dead>>
  BY DEF vars
<1>2. TypeOK'
  BY <1>1 DEF IInv, TypeOK, lists, chans, links, peers
<1>3. ChanInv'
  BY <1>1, OutsideStep DEF chans, links, peers
<1>4. QED
  BY <1>2, <1>3 DEF IInv

LEMMA InvSteps == IInv /\ [Next]_vars => IInv'
<1> SUFFICES ASSUME IInv, [Next]_vars PROVE IInv'
  OBVIOUS
<1>1. ASSUME NEW g \in Gs, Close(g)
      PROVE  IInv'
  BY <1>1, CloseEventInv, RemoveBeginsInv, CloseRemoveInv, DisconnectCallbackInv,
     DisconnectClearInv DEF Close
<1>2. ASSUME NEW g \in Gs, Panic(g)
      PROVE  IInv'
  BY <1>2, DeadStep DEF Panic
<1>3. CASE Poller
  BY <1>1, <1>2, <1>3, WaitInv, AcceptInv, PushBeginsInv, PushBackInv, LookupInv,
     ReceiveInv, BindInv DEF Poller, Gs
<1>4. CASE User
  BY <1>1, <1>2, <1>4, PushBeginsInv, PushBackInv, RequestStoreInv, UserCallInv,
     DeleteRestInv, NewInterfaceInv, RequestConnectionInv DEF User, UserStep, Gs
<1>5. CASE UNCHANGED vars
  BY <1>5, StutterInv
<1>6. QED
  BY <1>3, <1>4, <1>5, PeersInv DEF Next

LEMMA InvAlways == Spec => []IInv
  BY InitInv, InvSteps, PTL DEF Spec

\* Every variable of the socket keeps to its values.
THEOREM SocketTypeCorrect == Spec => []TypeOK
<1>1. IInv => TypeOK
  BY DEF IInv
<1>2. QED
  BY <1>1, InvAlways, PTL

\* As long as no two operations on ccList have overlapped, the epoll instance and
\* the list hold the same channels, however adding, closing and looking up
\* channels interleave.
THEOREM ListsAlwaysAgree == Spec => []ListsAgree
<1>1. IInv => ListsAgree
  BY DEF IInv, ChanInv
<1>2. QED
  BY <1>1, InvAlways, PTL

\* Disconnect of the user and hang ups, errors and messages at the poller never
\* run disconnect of one interface at the same time.
THEOREM OnlyOneTakesDown == Spec => []OneTakesDown
<1>1. IInv => OneTakesDown
  <2> SUFFICES ASSUME IInv, NEW i \in Ifaces, TakingDown("poller", i), TakingDown("user", i)
               PROVE  FALSE
    BY DEF OneTakesDown
  <2>1. cc[i] = call["poller"].ch /\ cc[i] = call["user"].ch
    BY DEF TakingDown, IInv, ChanInv, GoroutineInv, Gs
  <2>2. call["poller"].ch # call["user"].ch
    BY DEF TakingDown, IInv, ChanInv, AloneInv, Removing
  <2>3. QED
    BY <2>1, <2>2
<1>2. QED
  BY <1>1, InvAlways, PTL

\* An interface keeps its channel until its memory is unmapped.
THEOREM HeldUntilDown == Spec => []HeldWhileDown
<1>1. IInv => HeldWhileDown
  <2> SUFFICES ASSUME IInv, NEW g \in Gs, NEW i \in Ifaces, TakingDown(g, i)
               PROVE  cc[i] # None
    BY DEF HeldWhileDown
  <2>1. cc[i] = call[g].ch /\ call[g].ch \in used
    BY DEF TakingDown, IInv, ChanInv, GoroutineInv, Removing
  <2>2. used \subseteq Chans
    BY DEF IInv, TypeOK
  <2>3. QED
    BY <2>1, <2>2, SocketAssumption
<1>2. QED
  BY <1>1, InvAlways, PTL
=============================================================================
