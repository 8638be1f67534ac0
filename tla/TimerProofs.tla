---------------------------- MODULE TimerProofs ----------------------------
(***************************************************************************)
(* Theorems about the software timers, for every heap, set of callbacks,   *)
(* intervals, width of the clock and number of calls.                      *)
(***************************************************************************)
EXTENDS Timer, NatLemmas, FiniteSetTheorems, TLAPS

\* The allocated nodes in the order of the list: s[1] is the head, and the
\* pointers of each lead to its neighbours.
IsChain(h, head, n, s) ==
    /\ \A i, j \in 1 .. n : s[i] = s[j] => i = j
    /\ \A a \in Addr : h[a].live <=> \E i \in 1 .. n : s[i] = a
    /\ head = IF n = 0 THEN NULL ELSE s[1]
    /\ \A i \in 1 .. n : /\ h[s[i]].next = IF i = n THEN NULL ELSE s[i + 1]
                         /\ h[s[i]].prev = IF i = 1 THEN NULL ELSE s[i - 1]

\* The allocated nodes form a chain, no two of them with the same callback; the
\* others are as free leaves them.
NodesInv(h) ==
    /\ h \in [Addr -> Node]
    /\ \A a \in Addr : ~ h[a].live => h[a] = FreeNode
    /\ \A a \in Addr : h[a].live => h[a].callback \in Callbacks /\ h[a].interval \in Intervals
    /\ \A a, b \in Addr : h[a].live /\ h[b].live /\ h[a].callback = h[b].callback => a = b

ListInv(h, head) ==
    /\ NodesInv(h)
    /\ \E n \in Nat : \E s \in [1 .. n -> Addr] : IsChain(h, head, n, s)
----------------------------------------------------------------------------
\* A chain is no longer than the heap.
LEMMA ChainFits ==
    ASSUME NEW n \in Nat, NEW s \in [1 .. n -> Addr],
           \A i, j \in 1 .. n : s[i] = s[j] => i = j
    PROVE  n <= Cardinality(Addr) /\ Cardinality(Addr) \in Nat
  <1>1. s \in Injection(1 .. n, Addr)
    BY DEF Injection, IsInjective
  <1>2. Cardinality(1 .. n) <= Cardinality(Addr)
    BY <1>1, TimerAssumption, FS_Injection
  <1>3. Cardinality(1 .. n) = n
    BY FS_Interval
  <1>4. Cardinality(Addr) \in Nat
    BY TimerAssumption, FS_CardinalityType
  <1> QED
    BY <1>2, <1>3, <1>4

\* The n-th node that the search passes is the n-th of the chain.
LEMMA NodesInOrder ==
    ASSUME NEW h, NEW head, NEW n \in Nat, NEW s \in [1 .. n -> Addr], IsChain(h, head, n, s)
    PROVE  NodeAt(h, head) = [i \in 0 .. Cardinality(Addr) |-> IF i < n THEN s[i + 1] ELSE NULL]
  <1> DEFINE last == Cardinality(Addr)
             body(f, i) == IF i = 0 THEN head ELSE IF f[i - 1] = NULL THEN NULL ELSE h[f[i - 1]].next
             nodes == [i \in 0 .. last |-> IF i < n THEN s[i + 1] ELSE NULL]
             at == CHOOSE f : f = [i \in 0 .. last |-> body(f, i)]
  <1>1. last \in Nat /\ n <= last
    BY ChainFits DEF IsChain
  <1>2. \A i \in 1 .. n : s[i] # NULL
    BY TimerAssumption
  <1>3. nodes = [i \in 0 .. last |-> body(nodes, i)]
    <2>1. ASSUME NEW i \in 0 .. last
          PROVE  nodes[i] = body(nodes, i)
      <3>1. CASE i = 0
        BY <3>1 DEF IsChain
      <3>2. CASE i # 0 /\ i <= n
        <4>1. nodes[i - 1] = s[i] /\ i \in 1 .. n /\ s[i] # NULL
          BY <1>1, <1>2, <3>2
        <4>2. h[s[i]].next = IF i = n THEN NULL ELSE s[i + 1]
          BY <4>1 DEF IsChain
        <4> QED
          BY <1>1, <3>2, <4>1, <4>2
      <3>3. CASE i # 0 /\ i > n
        <4>1. nodes[i - 1] = NULL
          BY <1>1, <3>3
        <4> QED
          BY <1>1, <3>3, <4>1
      <3> QED
        BY <1>1, <3>1, <3>2, <3>3
    <2> QED
      BY <2>1
  <1>4. at = [i \in 0 .. last |-> body(at, i)]
    <2>1. \E f : f = [i \in 0 .. last |-> body(f, i)]
      BY <1>3
    <2> QED
      BY <2>1
  <1>5. NodeAt(h, head) = at
    BY DEF NodeAt
  <1> HIDE DEF at, nodes
  <1>6. \A i \in 0 .. last : at[i] = nodes[i]
    <2> DEFINE Same == {i \in Nat : i <= last => at[i] = nodes[i]}
    <2>1. 0 \in Same
      BY <1>1, <1>3, <1>4
    <2>2. ASSUME NEW i \in Nat, i \in Same
          PROVE  i + 1 \in Same
      <3> SUFFICES ASSUME i + 1 <= last PROVE at[i + 1] = nodes[i + 1]
        OBVIOUS
      <3>1. at[i] = nodes[i] /\ i + 1 \in 0 .. last /\ (i + 1) - 1 = i /\ i + 1 # 0
        BY <1>1, <2>2
      <3>2. at[i + 1] = body(at, i + 1) /\ nodes[i + 1] = body(nodes, i + 1)
        BY <1>3, <1>4, <3>1
      <3> QED
        BY <3>1, <3>2
    <2> HIDE DEF Same
    <2>3. Nat \subseteq Same
      BY <2>1, <2>2, InductionOnNat
    <2> QED
      BY <1>1, <2>3 DEF Same
  <1>7. at = nodes
    BY <1>3, <1>4, <1>6
  <1> QED
    BY <1>5, <1>7 DEF nodes

\* timer_get finds the node of a callback if there is one.
LEMMA GetFinds ==
    ASSUME NEW h, NEW head, ListInv(h, head), NEW c \in Callbacks
    PROVE  \/ /\ TimerGet(h, head, c) \in Addr
              /\ h[TimerGet(h, head, c)].live /\ h[TimerGet(h, head, c)].callback = c
           \/ /\ TimerGet(h, head, c) = NULL
              /\ \A a \in Addr : h[a].live => h[a].callback # c
  <1>1. PICK n \in Nat : \E s \in [1 .. n -> Addr] : IsChain(h, head, n, s)
    BY DEF ListInv
  <1>2. PICK s \in [1 .. n -> Addr] : IsChain(h, head, n, s)
    BY <1>1
  <1> DEFINE at   == NodeAt(h, head)
             hits == {i \in DOMAIN at : at[i] # NULL /\ h[at[i]].callback = c}
  <1>3. at = [i \in 0 .. Cardinality(Addr) |-> IF i < n THEN s[i + 1] ELSE NULL]
    BY <1>2, NodesInOrder
  <1>4. n <= Cardinality(Addr) /\ Cardinality(Addr) \in Nat
    BY <1>2, ChainFits DEF IsChain
  <1> HIDE DEF at
  <1>5. ASSUME NEW i \in hits
        PROVE  i < n /\ at[i] \in Addr /\ h[at[i]].live /\ h[at[i]].callback = c
    <2>1. i \in 0 .. Cardinality(Addr) /\ i < n /\ at[i] = s[i + 1] /\ h[at[i]].callback = c
      BY <1>3, <1>4
    <2>2. i + 1 \in 1 .. n
      BY <1>4, <2>1
    <2> QED
      BY <1>2, <2>1, <2>2 DEF IsChain
  <1>6. CASE hits = {}
    <2>1. ASSUME NEW a \in Addr, h[a].live, h[a].callback = c
          PROVE  FALSE
      <3>1. PICK i \in 1 .. n : s[i] = a
        BY <1>2, <2>1 DEF IsChain
      <3>2. i - 1 \in 0 .. Cardinality(Addr) /\ at[i - 1] = a /\ a # NULL
        BY <1>3, <1>4, <3>1, TimerAssumption
      <3> QED
        BY <1>3, <1>6, <2>1, <3>2
    <2>2. TimerGet(h, head, c) = NULL
      BY <1>6 DEF TimerGet, at
    <2> QED
      BY <2>1, <2>2
  <1>7. CASE hits # {}
    <2>1. hits \subseteq Nat
      BY <1>3, <1>4
    <2>2. Min(hits) \in hits
      BY <1>7, <2>1, MinOfNaturals
    <2>3. TimerGet(h, head, c) = at[Min(hits)]
      BY <1>7 DEF TimerGet, at
    <2> QED
      BY <1>5, <2>2, <2>3
  <1> QED
    BY <1>6, <1>7

\* The node of a callback is the one timer_get finds.
LEMMA GetIs ==
    ASSUME NEW h, NEW head, ListInv(h, head), NEW a \in Addr, h[a].live
    PROVE  h[a].callback \in Callbacks /\ TimerGet(h, head, h[a].callback) = a
  BY GetFinds DEF ListInv, NodesInv
----------------------------------------------------------------------------
\* What timer_clear leaves is a list, without its node.
LEMMA UnlinkKeeps ==
    ASSUME NEW h, NEW head, ListInv(h, head), NEW a \in Addr, h[a].live
    PROVE  ListInv(Unlink(h, a), HeadWithout(h, head, a))
  <1> DEFINE g == Unlink(h, a)
  <1>1. PICK n \in Nat : \E s \in [1 .. n -> Addr] : IsChain(h, head, n, s)
    BY DEF ListInv
  <1>2. PICK s \in [1 .. n -> Addr] : IsChain(h, head, n, s)
    BY <1>1
  <1>3. PICK j \in 1 .. n : s[j] = a
    BY <1>2 DEF IsChain
  <1>4. /\ h[a].next = IF j = n THEN NULL ELSE s[j + 1]
        /\ h[a].prev = IF j = 1 THEN NULL ELSE s[j - 1]
    BY <1>2, <1>3 DEF IsChain
  <1>5. h \in [Addr -> Node] /\ NULL \notin Addr
    BY TimerAssumption DEF ListInv, NodesInv
  <1>6. /\ g \in [Addr -> Node]
        /\ g[a] = FreeNode
        /\ \A x \in Addr \ {a} :
              /\ g[x].live = h[x].live /\ g[x].callback = h[x].callback
              /\ g[x].interval = h[x].interval
              /\ g[x].next = IF x = h[a].prev THEN h[a].next ELSE h[x].next
              /\ g[x].prev = IF x = h[a].next THEN h[a].prev ELSE h[x].prev
    <2>1. FreeNode \in Node
      BY TimerAssumption DEF FreeNode, Node
    <2>2. \A x \in Addr \ {a} :
             g[x] = [h[x] EXCEPT !.next = IF x = h[a].prev THEN h[a].next ELSE @,
                                 !.prev = IF x = h[a].next THEN h[a].prev ELSE @]
      BY DEF Unlink
    <2>3. g[a] = FreeNode /\ DOMAIN g = Addr /\ g = [x \in Addr |-> g[x]]
      BY DEF Unlink
    <2> HIDE DEF g
    <2>4. h[a] \in Node
      BY <1>5
    <2>5. \A x \in Addr \ {a} :
              /\ g[x] \in Node
              /\ g[x].live = h[x].live /\ g[x].callback = h[x].callback
              /\ g[x].interval = h[x].interval
              /\ g[x].next = IF x = h[a].prev THEN h[a].next ELSE h[x].next
              /\ g[x].prev = IF x = h[a].next THEN h[a].prev ELSE h[x].prev
      <3>2. h[a].next \in Addr \cup {NULL} /\ h[a].prev \in Addr \cup {NULL}
        BY <2>4 DEF Node
      <3>3. ASSUME NEW x \in Addr \ {a}
            PROVE  /\ g[x] \in Node
                   /\ g[x].live = h[x].live /\ g[x].callback = h[x].callback
                   /\ g[x].interval = h[x].interval
                   /\ g[x].next = IF x = h[a].prev THEN h[a].next ELSE h[x].next
                   /\ g[x].prev = IF x = h[a].next THEN h[a].prev ELSE h[x].prev
        <4>1. h[x] \in Node /\ h[x].next \in Addr \cup {NULL} /\ h[x].prev \in Addr \cup {NULL}
          BY <1>5 DEF Node
        <4> DEFINE p == IF x = h[a].prev THEN h[a].next ELSE h[x].next
                   q == IF x = h[a].next THEN h[a].prev ELSE h[x].prev
        <4>2. p \in Addr \cup {NULL} /\ q \in Addr \cup {NULL}
          BY <3>2, <4>1
        <4>3. g[x] = [h[x] EXCEPT !.next = p, !.prev = q]
          BY <2>2
        <4> HIDE DEF p, q
        <4>4. /\ g[x] \in Node /\ g[x].live = h[x].live /\ g[x].callback = h[x].callback
              /\ g[x].interval = h[x].interval /\ g[x].next = p /\ g[x].prev = q
          BY <4>1, <4>2, <4>3 DEF Node
        <4> QED
          BY <4>4 DEF p, q
      <3> QED
        BY <3>3
    <2> QED
      BY <2>1, <2>3, <2>5
  <1>7. \A x \in Addr \ {a} : ~ h[x].live => g[x] = h[x]
    <2>1. ASSUME NEW x \in Addr \ {a}, ~ h[x].live
          PROVE  g[x] = h[x]
      <3>1. x # h[a].prev /\ x # h[a].next
        BY <1>2, <1>3, <1>4, <1>5, <2>1 DEF IsChain
      <3> QED
        BY <1>5, <2>1, <3>1 DEF Unlink, Node
    <2> QED
      BY <2>1
  <1> HIDE DEF g
  <1>8. NodesInv(g)
    <2>1. g[a].live = FALSE
      BY <1>6 DEF FreeNode
    <2>2. \A x \in Addr : ~ g[x].live => g[x] = FreeNode
      BY <1>6, <1>7 DEF ListInv, NodesInv
    <2>3. \A x \in Addr : g[x].live => g[x].callback \in Callbacks /\ g[x].interval \in Intervals
      BY <1>6, <2>1 DEF ListInv, NodesInv
    <2>4. \A x, y \in Addr : g[x].live /\ g[y].live /\ g[x].callback = g[y].callback => x = y
      BY <1>6, <2>1 DEF ListInv, NodesInv
    <2> QED
      BY <1>6, <2>2, <2>3, <2>4 DEF NodesInv
  <1> DEFINE t == [k \in 1 .. n - 1 |-> IF k < j THEN s[k] ELSE s[k + 1]]
  <1>9. n - 1 \in Nat /\ t \in [1 .. n - 1 -> Addr]
    OBVIOUS
  <1>10. \A i, k \in 1 .. n - 1 : t[i] = t[k] => i = k
    BY <1>2 DEF IsChain
  <1>11. \A x \in Addr : g[x].live <=> \E k \in 1 .. n - 1 : t[k] = x
    <2>1. \A k \in 1 .. n - 1 : t[k] # a /\ h[t[k]].live
      BY <1>2, <1>3 DEF IsChain
    <2>2. ASSUME NEW x \in Addr \ {a}, h[x].live
          PROVE  \E k \in 1 .. n - 1 : t[k] = x
      <3>1. PICK i \in 1 .. n : s[i] = x
        BY <1>2, <2>2 DEF IsChain
      <3>2. CASE i < j
        <4>1. i \in 1 .. n - 1 /\ t[i] = x
          BY <3>1, <3>2
        <4> QED
          BY <4>1
      <3>3. CASE i > j
        <4>1. i - 1 \in 1 .. n - 1 /\ t[i - 1] = x
          BY <3>1, <3>3
        <4> QED
          BY <4>1
      <3> QED
        BY <1>3, <2>2, <3>1, <3>2, <3>3
    <2>3. g[a].live = FALSE
      BY <1>6 DEF FreeNode
    <2> HIDE DEF t
    <2>4. ASSUME NEW x \in Addr \ {a}
          PROVE  g[x].live <=> \E k \in 1 .. n - 1 : t[k] = x
      <3>1. g[x].live = h[x].live
        BY <1>6
      <3> QED
        BY <2>1, <2>2, <3>1
    <2>5. ~ \E k \in 1 .. n - 1 : t[k] = a
      BY <2>1
    <2> QED
      BY <2>3, <2>4, <2>5
  <1>12. HeadWithout(h, head, a) = IF n - 1 = 0 THEN NULL ELSE t[1]
    <2>1. head = s[1] /\ (a = head <=> j = 1)
      BY <1>2, <1>3 DEF IsChain
    <2> QED
      BY <1>3, <1>4, <2>1 DEF HeadWithout
  <1>13. ASSUME NEW k \in 1 .. n - 1
         PROVE  /\ g[t[k]].next = IF k = n - 1 THEN NULL ELSE t[k + 1]
                /\ g[t[k]].prev = IF k = 1 THEN NULL ELSE t[k - 1]
    <2>1. CASE k < j
      <3>1. t[k] = s[k] /\ s[k] # a /\ s[k] \in Addr /\ k \in 1 .. n
        BY <1>2, <1>3, <2>1 DEF IsChain
      <3>2. s[k] = h[a].prev <=> k = j - 1
        BY <1>2, <1>3, <1>4, <1>5, <2>1, <3>1 DEF IsChain
      <3>3. s[k] # h[a].next
        BY <1>2, <1>3, <1>4, <1>5, <2>1, <3>1 DEF IsChain
      <3>4. /\ h[s[k]].next = s[k + 1]
            /\ h[s[k]].prev = IF k = 1 THEN NULL ELSE s[k - 1]
        BY <1>2, <2>1, <3>1 DEF IsChain
      <3> QED
        BY <1>3, <1>4, <1>6, <2>1, <3>1, <3>2, <3>3, <3>4
    <2>2. CASE k >= j
      <3>1. t[k] = s[k + 1] /\ s[k + 1] # a /\ s[k + 1] \in Addr /\ k + 1 \in 1 .. n
        BY <1>2, <1>3, <2>2 DEF IsChain
      <3>2. s[k + 1] = h[a].next <=> k = j
        BY <1>2, <1>3, <1>4, <1>5, <2>2, <3>1 DEF IsChain
      <3>3. s[k + 1] # h[a].prev
        BY <1>2, <1>3, <1>4, <1>5, <2>2, <3>1 DEF IsChain
      <3>4. /\ h[s[k + 1]].next = IF k + 1 = n THEN NULL ELSE s[k + 2]
            /\ h[s[k + 1]].prev = s[k]
        BY <1>2, <2>2, <3>1 DEF IsChain
      <3> QED
        BY <1>3, <1>4, <1>6, <2>2, <3>1, <3>2, <3>3, <3>4
    <2> QED
      BY <1>3, <2>1, <2>2
  <1> HIDE DEF t
  <1>14. IsChain(g, HeadWithout(h, head, a), n - 1, t)
    BY <1>10, <1>11, <1>12, <1>13 DEF IsChain
  <1> QED
    BY <1>8, <1>9, <1>14 DEF ListInv, g

\* A new node in front of a list without one for its callback makes a list.
LEMMA InsertKeeps ==
    ASSUME NEW h, NEW head, ListInv(h, head), NEW b \in Addr, ~ h[b].live,
           NEW c \in Callbacks, \A a \in Addr : h[a].live => h[a].callback # c,
           NEW i \in Intervals, NEW start \in 0 .. TIME_MOD - 1
    PROVE  /\ ListInv(Inserted([heap |-> h, head |-> head], b, c, i, start), b)
           /\ \A x \in Addr \ {b} :
                 LET g == Inserted([heap |-> h, head |-> head], b, c, i, start)
                 IN  /\ g[x].live = h[x].live /\ g[x].callback = h[x].callback
                     /\ g[x].start = h[x].start /\ g[x].interval = h[x].interval
  <1> DEFINE g == Inserted([heap |-> h, head |-> head], b, c, i, start)
  <1>1. PICK n \in Nat : \E s \in [1 .. n -> Addr] : IsChain(h, head, n, s)
    BY DEF ListInv
  <1>2. PICK s \in [1 .. n -> Addr] : IsChain(h, head, n, s)
    BY <1>1
  <1>3. h \in [Addr -> Node] /\ NULL \notin Addr
    BY TimerAssumption DEF ListInv, NodesInv
  <1>4. head = IF n = 0 THEN NULL ELSE s[1]
    BY <1>2 DEF IsChain
  <1>5. head \in Addr \cup {NULL} /\ head # b /\ (head # NULL => h[head].live)
    BY <1>2, <1>3, <1>4 DEF IsChain
  <1>6. /\ g[b] = [live |-> TRUE, start |-> start, interval |-> i, callback |-> c,
                    prev |-> NULL, next |-> head]
        /\ \A x \in Addr \ {b} :
              g[x] = IF x = head THEN [h[x] EXCEPT !.prev = b] ELSE h[x]
        /\ DOMAIN g = Addr /\ g = [x \in Addr |-> g[x]]
    BY DEF Inserted
  <1> HIDE DEF g
  <1>7. \A x \in Addr \ {b} :
           /\ g[x].live = h[x].live /\ g[x].callback = h[x].callback
           /\ g[x].start = h[x].start /\ g[x].interval = h[x].interval
           /\ g[x].next = h[x].next
           /\ g[x].prev = IF x = head THEN b ELSE h[x].prev
           /\ g[x] \in Node
    BY <1>3, <1>6 DEF Node
  <1>8. g[b] \in Node
    BY <1>3, <1>5, <1>6 DEF Node
  <1>9. NodesInv(g)
    <2>1. g \in [Addr -> Node]
      BY <1>6, <1>7, <1>8
    <2>2. \A x \in Addr : ~ g[x].live => g[x] = FreeNode
      <3>1. \A x \in Addr \ {b} : ~ h[x].live => g[x] = h[x] /\ h[x] = FreeNode
        BY <1>3, <1>5, <1>6 DEF ListInv, NodesInv
      <3>2. g[b].live
        BY <1>6
      <3> QED
        BY <1>7, <3>1, <3>2
    <2>3. \A x \in Addr : g[x].live => g[x].callback \in Callbacks /\ g[x].interval \in Intervals
      BY <1>6, <1>7 DEF ListInv, NodesInv
    <2>4. \A x, y \in Addr : g[x].live /\ g[y].live /\ g[x].callback = g[y].callback => x = y
      <3>1. g[b].callback = c /\ \A x \in Addr \ {b} : g[x].live => g[x].callback # c
        BY <1>6, <1>7
      <3>2. \A x, y \in Addr \ {b} : g[x].live /\ g[y].live /\ g[x].callback = g[y].callback => x = y
        BY <1>7 DEF ListInv, NodesInv
      <3> QED
        BY <3>1, <3>2
    <2> QED
      BY <2>1, <2>2, <2>3, <2>4 DEF NodesInv
  <1> DEFINE t == [k \in 1 .. n + 1 |-> IF k = 1 THEN b ELSE s[k - 1]]
  <1>10. n + 1 \in Nat /\ t \in [1 .. n + 1 -> Addr]
    OBVIOUS
  <1>11. \A k \in 1 .. n : s[k] \in Addr \ {b} /\ h[s[k]].live
    BY <1>2 DEF IsChain
  <1>12. \A j, k \in 1 .. n + 1 : t[j] = t[k] => j = k
    BY <1>2, <1>11 DEF IsChain
  <1>13. \A x \in Addr : g[x].live <=> \E k \in 1 .. n + 1 : t[k] = x
    <2>1. \A k \in 1 .. n + 1 : g[t[k]].live
      BY <1>6, <1>7, <1>11
    <2>2. ASSUME NEW x \in Addr, g[x].live
          PROVE  \E k \in 1 .. n + 1 : t[k] = x
      <3>1. CASE x = b
        <4>1. 1 \in 1 .. n + 1 /\ t[1] = x
          BY <3>1
        <4> QED
          BY <4>1
      <3>2. CASE x # b
        <4>1. PICK k \in 1 .. n : s[k] = x
          BY <1>2, <1>7, <2>2, <3>2 DEF IsChain
        <4>2. k + 1 \in 1 .. n + 1 /\ t[k + 1] = x
          BY <4>1
        <4> QED
          BY <4>2
      <3> QED
        BY <3>1, <3>2
    <2> QED
      BY <1>6, <1>7, <1>10, <1>11, <2>1, <2>2
  <1>14. ASSUME NEW k \in 1 .. n + 1
         PROVE  /\ g[t[k]].next = IF k = n + 1 THEN NULL ELSE t[k + 1]
                /\ g[t[k]].prev = IF k = 1 THEN NULL ELSE t[k - 1]
    <2>1. CASE k = 1
      BY <1>4, <1>6, <2>1
    <2>2. CASE k # 1
      <3>1. t[k] = s[k - 1] /\ k - 1 \in 1 .. n
        BY <2>2
      <3>2. s[k - 1] = head <=> k = 2
        BY <1>2, <1>4, <3>1 DEF IsChain
      <3>3. /\ h[s[k - 1]].next = IF k - 1 = n THEN NULL ELSE s[k]
            /\ h[s[k - 1]].prev = IF k - 1 = 1 THEN NULL ELSE s[k - 2]
        BY <1>2, <3>1 DEF IsChain
      <3> QED
        BY <1>7, <1>11, <2>2, <3>1, <3>2, <3>3
    <2> QED
      BY <2>1, <2>2
  <1>15. b = IF n + 1 = 0 THEN NULL ELSE t[1]
    OBVIOUS
  <1> HIDE DEF t
  <1>16. IsChain(g, b, n + 1, t)
    BY <1>12, <1>13, <1>14, <1>15 DEF IsChain
  <1>17. ListInv(g, b)
    BY <1>9, <1>10, <1>16 DEF ListInv
  <1> QED
    BY <1>7, <1>17 DEF g

\* Writing the start of an allocated node changes nothing else.
LEMMA StartKeeps ==
    ASSUME NEW h, NEW head, ListInv(h, head), NEW a \in Addr, h[a].live,
           NEW v \in 0 .. TIME_MOD - 1
    PROVE  ListInv([h EXCEPT ![a].start = v], head)
  <1> DEFINE g == [h EXCEPT ![a].start = v]
  <1>1. h \in [Addr -> Node]
    BY DEF ListInv, NodesInv
  <1>2. /\ g \in [Addr -> Node]
        /\ \A x \in Addr :
              /\ g[x].live = h[x].live /\ g[x].callback = h[x].callback
              /\ g[x].interval = h[x].interval
              /\ g[x].next = h[x].next /\ g[x].prev = h[x].prev
              /\ x # a => g[x] = h[x]
    BY <1>1 DEF Node
  <1> HIDE DEF g
  <1>3. NodesInv(g)
    <2>1. \A x \in Addr : ~ g[x].live => g[x] = FreeNode
      BY <1>2 DEF ListInv, NodesInv
    <2>2. \A x \in Addr : g[x].live => g[x].callback \in Callbacks /\ g[x].interval \in Intervals
      BY <1>2 DEF ListInv, NodesInv
    <2>3. \A x, y \in Addr : g[x].live /\ g[y].live /\ g[x].callback = g[y].callback => x = y
      BY <1>2 DEF ListInv, NodesInv
    <2> QED
      BY <1>2, <2>1, <2>2, <2>3 DEF NodesInv
  <1>4. PICK n \in Nat : \E s \in [1 .. n -> Addr] : IsChain(h, head, n, s)
    BY DEF ListInv
  <1>5. PICK s \in [1 .. n -> Addr] : IsChain(h, head, n, s)
    BY <1>4
  <1>6. IsChain(g, head, n, s)
    <2>1. \A x \in Addr : g[x].live <=> \E k \in 1 .. n : s[k] = x
      BY <1>2, <1>5 DEF IsChain
    <2>2. \A k \in 1 .. n : /\ g[s[k]].next = IF k = n THEN NULL ELSE s[k + 1]
                           /\ g[s[k]].prev = IF k = 1 THEN NULL ELSE s[k - 1]
      BY <1>2, <1>5 DEF IsChain
    <2> QED
      BY <1>5, <2>1, <2>2 DEF IsChain
  <1>7. ListInv(g, head)
    BY <1>3, <1>6 DEF ListInv
  <1> QED
    BY <1>7 DEF g

\* The head, and the node after an allocated one, are allocated or NULL; no node
\* follows itself.
LEMMA NextIsAnother ==
    ASSUME NEW h, NEW head, ListInv(h, head)
    PROVE  /\ head = NULL \/ (head \in Addr /\ h[head].live)
           /\ \A a \in Addr : h[a].live =>
                 \/ h[a].next = NULL
                 \/ h[a].next \in Addr \ {a} /\ h[h[a].next].live
  <1>1. PICK n \in Nat : \E s \in [1 .. n -> Addr] : IsChain(h, head, n, s)
    BY DEF ListInv
  <1>2. PICK s \in [1 .. n -> Addr] : IsChain(h, head, n, s)
    BY <1>1
  <1>3. head = NULL \/ (head \in Addr /\ h[head].live)
    BY <1>2 DEF IsChain
  <1>4. ASSUME NEW a \in Addr, h[a].live
        PROVE  h[a].next = NULL \/ (h[a].next \in Addr \ {a} /\ h[h[a].next].live)
    <2>1. PICK i \in 1 .. n : s[i] = a
      BY <1>2, <1>4 DEF IsChain
    <2>2. CASE i = n
      BY <1>2, <2>1, <2>2 DEF IsChain
    <2>3. CASE i # n
      <3>1. i + 1 \in 1 .. n /\ h[a].next = s[i + 1]
        BY <1>2, <2>1, <2>3 DEF IsChain
      <3>2. s[i + 1] # s[i] /\ s[i + 1] \in Addr
        BY <1>2, <3>1 DEF IsChain
      <3>3. h[s[i + 1]].live
        BY <1>2, <3>1, <3>2 DEF IsChain
      <3> QED
        BY <2>1, <3>1, <3>2, <3>3
    <2> QED
      BY <2>2, <2>3
  <1> QED
    BY <1>3, <1>4

\* What an allocated node is worth to the rest of the program: its callback, its
\* start and its interval.
SameTimer(g, h, x) ==
    /\ g[x].live = h[x].live /\ g[x].callback = h[x].callback
    /\ g[x].start = h[x].start /\ g[x].interval = h[x].interval

\* Unlinking a node leaves the timers of the others as they are.
LEMMA UnlinkLeaves ==
    ASSUME NEW h \in [Addr -> Node], NEW a \in Addr
    PROVE  /\ Unlink(h, a)[a] = FreeNode
           /\ \A x \in Addr \ {a} : SameTimer(Unlink(h, a), h, x)
  <1>1. ASSUME NEW x \in Addr \ {a}
        PROVE  SameTimer(Unlink(h, a), h, x)
    <2> DEFINE p == IF x = h[a].prev THEN h[a].next ELSE h[x].next
               q == IF x = h[a].next THEN h[a].prev ELSE h[x].prev
    <2>1. Unlink(h, a)[x] = [h[x] EXCEPT !.next = p, !.prev = q]
      BY DEF Unlink
    <2>2. h[x] \in Node
      OBVIOUS
    <2> HIDE DEF p, q
    <2> QED
      BY <2>1, <2>2 DEF SameTimer, Node
  <1>2. Unlink(h, a)[a] = FreeNode
    BY DEF Unlink
  <1> QED
    BY <1>1, <1>2

\* timer_clear leaves a list without a timer for its callback.
LEMMA ClearedKeeps ==
    ASSUME ListInv(heap, timer_table), NEW c \in Callbacks
    PROVE  /\ ListInv(Cleared(c).heap, Cleared(c).head)
           /\ \A a \in Addr : Cleared(c).heap[a].live => Cleared(c).heap[a].callback # c
           /\ \A x \in Addr : x = TimerGet(heap, timer_table, c) => ~ Cleared(c).heap[x].live
           /\ \A x \in Addr \ {TimerGet(heap, timer_table, c)} : SameTimer(Cleared(c).heap, heap, x)
  <1> DEFINE a == TimerGet(heap, timer_table, c)
  <1>1. CASE a = NULL
    <2>1. Cleared(c).heap = heap /\ Cleared(c).head = timer_table
      BY <1>1 DEF Cleared
    <2>2. \A x \in Addr : heap[x].live => heap[x].callback # c
      BY <1>1, GetFinds, TimerAssumption
    <2> QED
      BY <1>1, <2>1, <2>2, TimerAssumption DEF SameTimer
  <1>2. CASE a # NULL
    <2>1. a \in Addr /\ heap[a].live /\ heap[a].callback = c
      BY <1>2, GetFinds
    <2>2. Cleared(c).heap = Unlink(heap, a) /\ Cleared(c).head = HeadWithout(heap, timer_table, a)
      BY <1>2 DEF Cleared
    <2> HIDE DEF a
    <2>3. ListInv(Unlink(heap, a), HeadWithout(heap, timer_table, a))
      BY <2>1, UnlinkKeeps
    <2>4. heap \in [Addr -> Node]
      BY DEF ListInv, NodesInv
    <2>5. /\ Unlink(heap, a)[a].live = FALSE
          /\ \A x \in Addr \ {a} : SameTimer(Unlink(heap, a), heap, x)
      BY <2>1, <2>4, UnlinkLeaves DEF FreeNode
    <2>6. \A x \in Addr : Unlink(heap, a)[x].live => Unlink(heap, a)[x].callback # c
      BY <2>1, <2>5 DEF ListInv, NodesInv, SameTimer
    <2> QED
      BY <2>2, <2>3, <2>5, <2>6 DEF a
  <1> QED
    BY <1>1, <1>2

\* A read of the clock is a time of its width.
LEMMA ReadsFit ==
    ASSUME now \in 0 .. MaxNow
    PROVE  TIME_MOD \in Nat \ {0} /\ ClockReads \subseteq 0 .. TIME_MOD - 1
  <1>1. TIME_MOD \in Nat \ {0}
    BY TimerAssumption
  <1>2. ASSUME NEW t \in Nat
        PROVE  (t % TIME_MOD) \in 0 .. TIME_MOD - 1
    BY <1>1
  <1>3. \A g \in TornGaps : now + g - 1 \in Nat
    BY TimerAssumption
  <1> QED
    BY <1>1, <1>2, <1>3, TimerAssumption DEF ClockReads

\* The numbers of a node.
LEMMA NodeFields ==
    ASSUME NEW r \in Node
    PROVE  r.start \in 0 .. TIME_MOD - 1 /\ r.start \in Nat /\ r.interval \in Nat
  <1>1. r.start \in 0 .. TIME_MOD - 1 /\ r.interval \in Intervals \cup {0}
    BY DEF Node
  <1>2. \A n \in Intervals \cup {0} : n \in Nat
    BY TimerAssumption
  <1>3. r.interval \in Nat
    BY <1>1, <1>2, Zenon
  <1>4. r.start \in Nat
    BY <1>1
  <1> QED
    BY <1>1, <1>3, <1>4

\* timer_set leaves a list whose head is the new timer, and no other for c.
LEMMA SetKeeps ==
    ASSUME now \in 0 .. MaxNow, ListInv(heap, timer_table),
           NEW c \in Callbacks, NEW i \in Intervals, TimerSet(c, i)
    PROVE  /\ ListInv(heap', timer_table')
           /\ timer_table' \in Addr
           /\ heap'[timer_table'].live /\ heap'[timer_table'].callback = c
           /\ heap'[timer_table'].interval = i /\ heap'[timer_table'].start \in ClockReads
           /\ \A x \in Addr \ {TimerGet(heap, timer_table, c)} :
                 heap[x].live => x # timer_table' /\ SameTimer(heap', heap, x)
           /\ \A x \in Addr \ {timer_table'} : heap'[x].live => SameTimer(heap', heap, x)
           /\ fires' = [fires EXCEPT ![c] = 0] /\ since' = [since EXCEPT ![c] = now]
  <1> DEFINE h == Cleared(c).heap
             head == Cleared(c).head
  <1>1. Cleared(c) = [heap |-> h, head |-> head]
    BY DEF Cleared
  <1>2. /\ ListInv(h, head)
        /\ \A a \in Addr : h[a].live => h[a].callback # c
        /\ \A x \in Addr : x = TimerGet(heap, timer_table, c) => ~ h[x].live
        /\ \A x \in Addr \ {TimerGet(heap, timer_table, c)} : SameTimer(h, heap, x)
    BY ClearedKeeps
  <1>3. PICK b \in Addr, start \in ClockReads :
           /\ ~ h[b].live
           /\ heap' = Inserted(Cleared(c), b, c, i, start) /\ timer_table' = b
    BY DEF TimerSet
  <1>4. start \in 0 .. TIME_MOD - 1
    BY ReadsFit
  <1> HIDE DEF h, head
  <1>5. heap' = Inserted([heap |-> h, head |-> head], b, c, i, start)
    BY <1>1, <1>3
  <1>6. /\ ListInv(heap', b)
        /\ \A x \in Addr \ {b} : SameTimer(heap', h, x)
    BY <1>2, <1>3, <1>4, <1>5, InsertKeeps DEF SameTimer
  <1>7. heap'[b] = [live |-> TRUE, start |-> start, interval |-> i, callback |-> c,
                    prev |-> NULL, next |-> head]
    BY <1>5 DEF Inserted
  <1>8. ASSUME NEW x \in Addr \ {TimerGet(heap, timer_table, c)}, heap[x].live
        PROVE  x # b /\ SameTimer(heap', heap, x)
    BY <1>2, <1>3, <1>6, <1>8 DEF SameTimer
  <1>9. ASSUME NEW x \in Addr \ {b}, heap'[x].live
        PROVE  SameTimer(heap', heap, x)
    BY <1>2, <1>6, <1>9 DEF SameTimer
  <1> QED
    BY <1>3, <1>6, <1>7, <1>8, <1>9 DEF TimerSet

\* timer_clear removes the timer of c and no other.
LEMMA ClearKeeps ==
    ASSUME ListInv(heap, timer_table), NEW c \in Callbacks, TimerClear(c)
    PROVE  /\ ListInv(heap', timer_table')
           /\ \A a \in Addr : heap'[a].live => heap'[a].callback # c
           /\ \A x \in Addr \ {TimerGet(heap, timer_table, c)} : SameTimer(heap', heap, x)
  BY ClearedKeeps DEF TimerClear

\* timer_reset and timer_restart move the start of the timer of c, if it has one.
StartMoved(c, S) ==
    LET a == TimerGet(heap, timer_table, c)
    IN  IF a = NULL THEN heap' = heap
        ELSE \E v \in S : heap' = [heap EXCEPT ![a].start = v]

LEMMA MoveKeeps ==
    ASSUME ListInv(heap, timer_table), NEW c \in Callbacks, timer_table' = timer_table,
           StartMoved(c, 0 .. TIME_MOD - 1)
    PROVE  /\ ListInv(heap', timer_table')
           /\ \A x \in Addr : heap'[x].live = heap[x].live
           /\ \A x \in Addr \ {TimerGet(heap, timer_table, c)} : SameTimer(heap', heap, x)
  <1> DEFINE a == TimerGet(heap, timer_table, c)
  <1>1. CASE a = NULL
    <2>1. heap' = heap
      BY <1>1 DEF StartMoved
    <2> QED
      BY <2>1 DEF SameTimer
  <1>2. CASE a # NULL
    <2>1. a \in Addr /\ heap[a].live
      BY <1>2, GetFinds
    <2>2. PICK v \in 0 .. TIME_MOD - 1 : heap' = [heap EXCEPT ![a].start = v]
      BY <1>2 DEF StartMoved
    <2>3. heap \in [Addr -> Node]
      BY DEF ListInv, NodesInv
    <2> HIDE DEF a
    <2>4. ListInv(heap', timer_table)
      BY <2>1, <2>2, StartKeeps
    <2>5. \A x \in Addr : heap'[x].live = heap[x].live
      BY <2>1, <2>2, <2>3 DEF Node
    <2>6. \A x \in Addr \ {a} : heap'[x] = heap[x]
      BY <2>2, <2>3
    <2> QED
      BY <2>4, <2>5, <2>6 DEF SameTimer, a
  <1> QED
    BY <1>1, <1>2

LEMMA ResetMoves ==
    ASSUME now \in 0 .. MaxNow, ListInv(heap, timer_table), NEW c \in Callbacks, TimerReset(c)
    PROVE  StartMoved(c, 0 .. TIME_MOD - 1)
  <1> DEFINE a == TimerGet(heap, timer_table, c)
             v == (heap[a].start + heap[a].interval) % TIME_MOD
  <1>1. CASE a = NULL
    BY <1>1 DEF TimerReset, StartMoved
  <1>2. CASE a # NULL
    <2>1. a \in Addr /\ heap[a] \in Node
      BY <1>2, GetFinds DEF ListInv, NodesInv
    <2>2. heap[a].start \in Nat /\ heap[a].interval \in Nat /\ TIME_MOD \in Nat \ {0}
      <3> HIDE DEF a
      <3> QED
        BY <2>1, NodeFields, ReadsFit
    <2>3. heap[a].start + heap[a].interval \in Nat
      BY <2>2
    <2>4. v \in 0 .. TIME_MOD - 1
      BY <2>2, <2>3
    <2>5. heap' = [heap EXCEPT ![a].start = v]
      BY <1>2 DEF TimerReset
    <2> QED
      BY <1>2, <2>4, <2>5 DEF StartMoved
  <1> QED
    BY <1>1, <1>2

LEMMA RestartMoves ==
    ASSUME NEW c \in Callbacks, TimerRestart(c)
    PROVE  StartMoved(c, ClockReads)
  BY DEF TimerRestart, StartMoved

\* The history variables are of no consequence to the list.
HistoryOK ==
    /\ fires \in [Callbacks -> 0 .. MaxNow + 1]
    /\ since \in [Callbacks -> 0 .. MaxNow]

\* Every call of a timer function leaves a list; set and clear may free the node
\* of their callback, and nothing else is freed.
LEMMA CallKeeps ==
    ASSUME now \in 0 .. MaxNow, ListInv(heap, timer_table), HistoryOK,
           NEW ops, NEW c \in Callbacks, Call(ops, c)
    PROVE  /\ ListInv(heap', timer_table')
           /\ HistoryOK'
           /\ \A x \in Addr :
                 /\ heap[x].live
                 /\ x # TimerGet(heap, timer_table, c) \/ ops \cap {"set", "clear"} = {}
                 => heap'[x].live
  <1>1. ASSUME NEW i \in Intervals, TimerSet(c, i), "set" \in ops
        PROVE  /\ ListInv(heap', timer_table')
               /\ HistoryOK'
               /\ \A x \in Addr \ {TimerGet(heap, timer_table, c)} : heap[x].live => heap'[x].live
    <2>1. ListInv(heap', timer_table') /\
          \A x \in Addr \ {TimerGet(heap, timer_table, c)} : heap[x].live => heap'[x].live
      BY <1>1, SetKeeps DEF SameTimer
    <2>2. fires' = [fires EXCEPT ![c] = 0] /\ since' = [since EXCEPT ![c] = now]
      BY <1>1, SetKeeps
    <2>3. HistoryOK'
      BY <2>2, TimerAssumption DEF HistoryOK
    <2> QED
      BY <2>1, <2>3
  <1>2. ASSUME TimerClear(c), "clear" \in ops
        PROVE  /\ ListInv(heap', timer_table')
               /\ HistoryOK'
               /\ \A x \in Addr \ {TimerGet(heap, timer_table, c)} : heap[x].live => heap'[x].live
    <2>1. ListInv(heap', timer_table') /\
          \A x \in Addr \ {TimerGet(heap, timer_table, c)} : heap[x].live => heap'[x].live
      BY <1>2, ClearKeeps DEF SameTimer
    <2>2. fires' = [fires EXCEPT ![c] = 0] /\ since' = [since EXCEPT ![c] = 0]
      BY <1>2 DEF TimerClear
    <2>3. HistoryOK'
      BY <2>2, TimerAssumption DEF HistoryOK
    <2> QED
      BY <2>1, <2>3
  <1>3. ASSUME TimerReset(c)
        PROVE  /\ ListInv(heap', timer_table')
               /\ HistoryOK'
               /\ \A x \in Addr : heap[x].live => heap'[x].live
    <2>1. timer_table' = timer_table /\ fires' = fires /\ since' = since
      BY <1>3 DEF TimerReset
    <2>2. ListInv(heap', timer_table') /\ \A x \in Addr : heap'[x].live = heap[x].live
      BY <1>3, <2>1, ResetMoves, MoveKeeps
    <2> QED
      BY <2>1, <2>2 DEF HistoryOK
  <1>4. ASSUME TimerRestart(c)
        PROVE  /\ ListInv(heap', timer_table')
               /\ HistoryOK'
               /\ \A x \in Addr : heap[x].live => heap'[x].live
    <2>1. timer_table' = timer_table
      BY <1>4 DEF TimerRestart
    <2>2. StartMoved(c, 0 .. TIME_MOD - 1)
      BY <1>4, RestartMoves, ReadsFit DEF StartMoved
    <2>3. ListInv(heap', timer_table') /\ \A x \in Addr : heap'[x].live = heap[x].live
      BY <2>1, <2>2, MoveKeeps
    <2>4. \/ fires' = fires /\ since' = since
          \/ fires' = [fires EXCEPT ![c] = 0] /\ since' = [since EXCEPT ![c] = now]
      BY <1>4 DEF TimerRestart
    <2>5. HistoryOK'
      BY <2>4, TimerAssumption DEF HistoryOK
    <2> QED
      BY <2>3, <2>5
  <1> QED
    BY <1>1, <1>2, <1>3, <1>4 DEF Call
----------------------------------------------------------------------------
\* The invariant: types, and the list.
IInv ==
    /\ TypeOK
    /\ ListInv(heap, timer_table)
    /\ pc = "callback" => timer \in Addr

\* In a chain the search passes the allocated nodes in order, and then the end:
\* the list is what ListWellFormed says.
LEMMA ListFromChain ==
    ASSUME IInv
    PROVE  ListWellFormed
  <1> DEFINE at == NodeAt(heap, timer_table)
             last == Cardinality(Addr)
  <1>1. PICK n \in Nat : \E s \in [1 .. n -> Addr] : IsChain(heap, timer_table, n, s)
    BY DEF IInv, ListInv
  <1>2. PICK s \in [1 .. n -> Addr] : IsChain(heap, timer_table, n, s)
    BY <1>1
  <1>3. n <= last /\ last \in Nat
    BY <1>2, ChainFits DEF IsChain
  <1>4. at = [i \in 0 .. last |-> IF i < n THEN s[i + 1] ELSE NULL]
    BY <1>2, NodesInOrder
  <1> HIDE DEF at, last
  <1>5. at[last] = NULL
    BY <1>3, <1>4
  <1>6. List = {a \in Addr : heap[a].live}
    <2>1. ASSUME NEW i \in 0 .. last, at[i] # NULL
          PROVE  at[i] \in Addr /\ heap[at[i]].live
      <3>1. i + 1 \in 1 .. n /\ at[i] = s[i + 1]
        BY <1>3, <1>4, <2>1
      <3> QED
        BY <1>2, <3>1 DEF IsChain
    <2>2. ASSUME NEW a \in Addr, heap[a].live
          PROVE  \E i \in 0 .. last : at[i] = a
      <3>1. PICK k \in 1 .. n : s[k] = a
        BY <1>2, <2>2 DEF IsChain
      <3>2. k - 1 \in 0 .. last /\ at[k - 1] = a
        BY <1>3, <1>4, <3>1
      <3> QED
        BY <3>2
    <2>3. List = {at[i] : i \in 0 .. last} \ {NULL}
      BY DEF List, Listed, at, last
    <2> QED
      BY <2>1, <2>2, <2>3, TimerAssumption
  <1>7. timer_table # NULL => heap[timer_table].prev = NULL
    BY <1>2 DEF IsChain
  <1>8. ASSUME NEW a \in List, heap[a].next # NULL
        PROVE  heap[heap[a].next].prev = a
    <2>1. PICK k \in 1 .. n : s[k] = a
      BY <1>2, <1>6 DEF IsChain
    <2>2. k + 1 \in 1 .. n /\ heap[a].next = s[k + 1]
      BY <1>2, <1>8, <2>1 DEF IsChain
    <2>3. heap[s[k + 1]].prev = s[k]
      BY <1>2, <2>2 DEF IsChain
    <2> QED
      BY <2>1, <2>2, <2>3
  <1>9. \A a, b \in List : heap[a].callback = heap[b].callback => a = b
    BY <1>6 DEF IInv, ListInv, NodesInv
  <1> QED
    BY <1>5, <1>6, <1>7, <1>8, <1>9 DEF ListWellFormed, IInv, at, last

\* A callback that asks to run again moves the start of its node, and if it has
\* freed that node writes to free memory what is modelled as nothing.
LEMMA AgainKeeps ==
    ASSUME IInv, CallbackAgain
    PROVE  ListInv(heap', timer_table')
  <1>1. timer \in Addr /\ heap \in [Addr -> Node] /\ heap[timer] \in Node
    BY DEF IInv, TypeOK, CallbackAgain
  <1>2. heap[timer].start \in Nat /\ heap[timer].interval \in Nat
    BY <1>1, NodeFields
  <1>3. TIME_MOD \in Nat \ {0}
    BY ReadsFit DEF IInv, TypeOK
  <1>4. NextStart(timer) \in 0 .. TIME_MOD - 1
    <2>1. heap[timer].start + heap[timer].interval \in Nat
      BY <1>1, <1>2
    <2> QED
      BY <1>3, <2>1 DEF NextStart
  <1>5. heap' = [heap EXCEPT ![timer].start = NextStart(timer)] /\ timer_table' = timer_table
    BY DEF CallbackAgain
  <1>6. CASE heap[timer].live
    <2>1. ListInv(heap, timer_table)
      BY DEF IInv
    <2> HIDE DEF NextStart
    <2> QED
      BY <1>1, <1>4, <1>5, <1>6, <2>1, StartKeeps
  <1>7. CASE ~ heap[timer].live
    <2>1. heap[timer] = FreeNode
      BY <1>1, <1>7 DEF IInv, ListInv, NodesInv
    <2>2. NextStart(timer) = 0
      <3>1. heap[timer].start = 0 /\ heap[timer].interval = 0
        BY <2>1 DEF FreeNode
      <3>2. (0 + 0) % TIME_MOD = 0
        BY <1>3
      <3> QED
        BY <3>1, <3>2 DEF NextStart
    <2>3. [heap[timer] EXCEPT !.start = 0] = heap[timer]
      <3>1. heap[timer].start = 0
        BY <2>1 DEF FreeNode
      <3> QED
        BY <1>1, <3>1 DEF Node
    <2>4. heap' = heap
      BY <1>1, <1>5, <2>2, <2>3
    <2> QED
      BY <1>5, <2>4 DEF IInv
  <1> QED
    BY <1>6, <1>7

LEMMA DoneKeeps ==
    ASSUME IInv, CallbackDone
    PROVE  ListInv(heap', timer_table')
  <1>1. timer \in Addr /\ heap \in [Addr -> Node] /\ ListInv(heap, timer_table)
    BY DEF IInv, TypeOK, CallbackDone
  <1>2. heap' = Unlink(heap, timer) /\ timer_table' = HeadWithout(heap, timer_table, timer)
    BY DEF CallbackDone
  <1>3. CASE heap[timer].live
    BY <1>1, <1>2, <1>3, UnlinkKeeps
  <1>4. CASE ~ heap[timer].live
    <2>1. heap[timer] = FreeNode
      BY <1>1, <1>4 DEF ListInv, NodesInv
    <2>2. heap[timer].prev = NULL /\ heap[timer].next = NULL
      BY <2>1 DEF FreeNode
    <2>3. ASSUME NEW x \in Addr
          PROVE  Unlink(heap, timer)[x] = heap[x]
      <3>1. CASE x = timer
        BY <1>1, <2>1, <3>1, UnlinkLeaves
      <3>2. CASE x # timer
        <4>1. x # NULL /\ heap[x] \in Node
          BY <1>1, TimerAssumption
        <4>2. Unlink(heap, timer)[x] = [heap[x] EXCEPT !.next = @, !.prev = @]
          BY <2>2, <3>2, <4>1 DEF Unlink
        <4> QED
          BY <4>1, <4>2 DEF Node
      <3> QED
        BY <3>1, <3>2
    <2>4. Unlink(heap, timer) = [x \in Addr |-> Unlink(heap, timer)[x]]
      BY DEF Unlink
    <2>5. heap' = heap
      BY <1>1, <1>2, <2>3, <2>4
    <2>6. timer # timer_table
      BY <1>1, <1>4, NextIsAnother, TimerAssumption
    <2>7. timer_table' = timer_table
      BY <1>2, <2>6 DEF HeadWithout
    <2> QED
      BY <1>1, <2>5, <2>7
  <1> QED
    BY <1>3, <1>4

\* The invariant is kept by every step.
LEMMA StepKeeps ==
    ASSUME IInv, [Next]_vars
    PROVE  IInv'
  <1> USE DEF TypeOK, HistoryOK
  <1>1. CASE Tick
    <2>1. now' \in 0 .. MaxNow
      BY <1>1, TimerAssumption DEF Tick, IInv
    <2>2. ListInv(heap', timer_table')
      BY <1>1 DEF Tick, IInv
    <2> QED
      BY <1>1, <2>1, <2>2 DEF Tick, IInv
  <1>2. ASSUME NEW c \in Callbacks, MainCall(c)
        PROVE  IInv'
    <2>1. ListInv(heap', timer_table') /\ HistoryOK'
      BY <1>2, CallKeeps DEF MainCall, IInv
    <2>2. heap' \in [Addr -> Node] /\ timer_table' \in Addr \cup {NULL}
      BY <2>1, NextIsAnother DEF ListInv, NodesInv
    <2> QED
      BY <1>2, <2>1, <2>2 DEF MainCall, IInv
  <1>3. ASSUME NEW c \in Callbacks, CallbackCall(c)
        PROVE  IInv'
    <2>1. ListInv(heap', timer_table') /\ HistoryOK'
      BY <1>3, CallKeeps DEF CallbackCall, IInv
    <2>2. heap' \in [Addr -> Node] /\ timer_table' \in Addr \cup {NULL}
      BY <2>1, NextIsAnother DEF ListInv, NodesInv
    <2> QED
      BY <1>3, <2>1, <2>2 DEF CallbackCall, IInv
  <1>4. CASE PeriodicStart
    <2>1. ListInv(heap', timer_table')
      BY <1>4 DEF PeriodicStart, IInv
    <2> QED
      BY <1>4, <2>1 DEF PeriodicStart, IInv
  <1>5. CASE PeriodicEnd
    <2>1. ListInv(heap', timer_table')
      BY <1>5 DEF PeriodicEnd, IInv
    <2> QED
      BY <1>5, <2>1 DEF PeriodicEnd, IInv
  <1>6. CASE PeriodicVisit
    <2>1. ListInv(heap', timer_table')
      BY <1>6 DEF PeriodicVisit, IInv
    <2>2. timer \in Addr /\ heap[timer] \in Node
      BY <1>6 DEF PeriodicVisit, IInv
    <2>3. heap[timer].next \in Addr \cup {NULL}
      BY <2>2 DEF Node
    <2>4. fires' \in [Callbacks -> 0 .. MaxNow + 1]
      <3>1. \/ fires' = fires
            \/ fires' = [fires EXCEPT ![heap[timer].callback] = IF @ > MaxNow THEN @ ELSE @ + 1]
        BY <1>6 DEF PeriodicVisit
      <3>2. \A n \in 0 .. MaxNow + 1 : (IF n > MaxNow THEN n ELSE n + 1) \in 0 .. MaxNow + 1
        BY TimerAssumption
      <3> QED
        BY <3>1, <3>2 DEF IInv
    <2>5. /\ pc' \in {"callback", "loop", "undefined"}
          /\ timer' \in {timer, heap[timer].next}
          /\ timer_next' \in {timer_next, heap[timer].next}
          /\ pc' = "callback" => timer' = timer
          /\ UNCHANGED <<heap, timer_table, now, since>>
      BY <1>6 DEF PeriodicVisit
    <2> QED
      BY <2>1, <2>2, <2>3, <2>4, <2>5 DEF IInv
  <1>7. CASE CallbackAgain
    <2>1. ListInv(heap', timer_table')
      BY <1>7, AgainKeeps
    <2>2. heap' \in [Addr -> Node] /\ timer_table' \in Addr \cup {NULL}
      BY <2>1, NextIsAnother DEF ListInv, NodesInv
    <2>3. /\ pc' \in {"loop", "undefined"}
          /\ timer' = timer_next /\ timer_next' = NULL
          /\ UNCHANGED <<now, fires, since>>
      BY <1>7 DEF CallbackAgain, AfterAccess
    <2> QED
      BY <2>1, <2>2, <2>3 DEF IInv
  <1>8. CASE CallbackDone
    <2>1. ListInv(heap', timer_table')
      BY <1>8, DoneKeeps
    <2>2. heap' \in [Addr -> Node] /\ timer_table' \in Addr \cup {NULL}
      BY <2>1, NextIsAnother DEF ListInv, NodesInv
    <2>3. /\ pc' \in {"loop", "undefined"}
          /\ timer' = timer_next /\ timer_next' = NULL
          /\ now' = now
      BY <1>8 DEF CallbackDone, AfterAccess
    <2>4. HistoryOK'
      <3>1. /\ fires' = [c \in Callbacks |-> IF c = heap[timer].callback THEN 0 ELSE fires[c]]
            /\ since' = [c \in Callbacks |-> IF c = heap[timer].callback THEN 0 ELSE since[c]]
        BY <1>8 DEF CallbackDone
      <3>2. 0 \in 0 .. MaxNow /\ 0 \in 0 .. MaxNow + 1
        BY TimerAssumption
      <3> QED
        BY <3>1, <3>2 DEF IInv
    <2> QED
      BY <2>1, <2>2, <2>3, <2>4 DEF IInv
  <1>9. CASE UNCHANGED vars
    <2>1. ListInv(heap', timer_table')
      BY <1>9 DEF vars, IInv
    <2> QED
      BY <1>9, <2>1 DEF vars, IInv
  <1> QED
    BY <1>1, <1>2, <1>3, <1>4, <1>5, <1>6, <1>7, <1>8, <1>9 DEF Next, TimerPeriodic

LEMMA InitHolds ==
    ASSUME Init
    PROVE  IInv
  <1>1. FreeNode \in Node
    <2>1. 0 \in 0 .. TIME_MOD - 1
      BY TimerAssumption
    <2> QED
      BY <2>1 DEF FreeNode, Node
  <1>2. TypeOK
    <2>1. 0 \in 0 .. MaxNow /\ 0 \in 0 .. MaxNow + 1
      BY TimerAssumption
    <2> QED
      BY <1>1, <2>1 DEF Init, TypeOK
  <1>3. \A a \in Addr : heap[a] = FreeNode /\ ~ heap[a].live
    BY DEF Init, FreeNode
  <1>4. NodesInv(heap)
    BY <1>2, <1>3 DEF NodesInv, TypeOK
  <1>5. IsChain(heap, timer_table, 0, [i \in 1 .. 0 |-> NULL])
    BY <1>3 DEF IsChain, Init
  <1>6. [i \in 1 .. 0 |-> NULL] \in [1 .. 0 -> Addr]
    OBVIOUS
  <1>7. ListInv(heap, timer_table)
    BY <1>4, <1>5, <1>6 DEF ListInv
  <1> QED
    BY <1>2, <1>7 DEF IInv, Init

\* Whatever callbacks do to the list that is being walked, their own timers
\* included, it stays a well-formed list of exactly the allocated nodes
\* (timer.c:63, timer.c:85, timer.c:171).
THEOREM ListStays == Spec => []ListWellFormed
  <1>1. Init => IInv
    BY InitHolds
  <1>2. IInv /\ [Next]_vars => IInv'
    BY StepKeeps
  <1>3. IInv => ListWellFormed
    BY ListFromChain
  <1> QED
    BY <1>1, <1>2, <1>3, PTL DEF Spec
----------------------------------------------------------------------------
\* The pointers a pass holds: what it visits next is allocated, and so, while a
\* callback runs, are the node it belongs to and the other one that follows.
PassInv ==
    /\ pc # "undefined"
    /\ pc = "loop" /\ timer # NULL => heap[timer].live
    /\ pc = "callback" =>
          /\ heap[timer].live
          /\ timer_next # NULL => timer_next # timer /\ heap[timer_next].live

LEMMA PassKeeps ==
    ASSUME {"set", "clear"} \cap CallbackOps \subseteq CarefulOps, IInv, PassInv, [Next]_vars
    PROVE  PassInv'
  <1> USE DEF PassInv
  <1>1. ListInv(heap, timer_table) /\ TypeOK /\ HistoryOK
    BY DEF IInv, TypeOK, HistoryOK
  <1>2. /\ now \in 0 .. MaxNow /\ {timer, timer_next} \subseteq Addr \cup {NULL}
        /\ heap \in [Addr -> Node] /\ pc \in {"main", "loop", "callback", "undefined"}
        /\ pc = "callback" => timer \in Addr
    BY DEF IInv, TypeOK
  <1>3. CASE Tick
    BY <1>3 DEF Tick
  <1>4. ASSUME NEW c \in Callbacks, MainCall(c)
        PROVE  PassInv'
    BY <1>4 DEF MainCall
  <1>5. ASSUME NEW c \in Callbacks, CallbackCall(c)
        PROVE  PassInv'
    <2> DEFINE a == TimerGet(heap, timer_table, c)
    <2>1. a \in {timer, timer_next} /\ a # NULL => AllowedOps(c) \cap {"set", "clear"} = {}
      BY DEF AllowedOps
    <2>2. \A x \in Addr : heap[x].live /\ (x # a \/ AllowedOps(c) \cap {"set", "clear"} = {})
              => heap'[x].live
      BY <1>1, <1>2, <1>5, CallKeeps DEF CallbackCall
    <2> HIDE DEF a
    <2>3. \A x \in Addr : x \in {timer, timer_next} /\ heap[x].live => heap'[x].live
      BY <2>1, <2>2, TimerAssumption
    <2> QED
      BY <1>2, <1>5, <2>3 DEF CallbackCall
  <1>6. CASE PeriodicStart
    BY <1>1, <1>6, NextIsAnother DEF PeriodicStart
  <1>7. CASE PeriodicEnd
    BY <1>7 DEF PeriodicEnd
  <1>8. CASE PeriodicVisit
    <2>1. timer \in Addr /\ heap[timer].live
      BY <1>2, <1>8 DEF PeriodicVisit
    <2>2. \/ heap[timer].next = NULL
          \/ heap[timer].next \in Addr \ {timer} /\ heap[heap[timer].next].live
      BY <1>1, <2>1, NextIsAnother
    <2>3. \/ pc' = "callback" /\ timer_next' = heap[timer].next /\ timer' = timer
          \/ pc' = "loop" /\ timer' = heap[timer].next
      BY <1>8, <2>1 DEF PeriodicVisit
    <2>4. heap' = heap
      BY <1>8 DEF PeriodicVisit
    <2> QED
      BY <2>1, <2>2, <2>3, <2>4
  <1>9. CASE CallbackAgain
    <2>1. timer \in Addr /\ heap[timer].live /\ pc' = "loop" /\ timer' = timer_next
      BY <1>2, <1>9 DEF CallbackAgain, AfterAccess
    <2>2. timer_next # NULL => timer_next \in Addr \ {timer} /\ heap[timer_next].live
      BY <1>2, <1>9 DEF CallbackAgain
    <2>3. \A x \in Addr \ {timer} : heap'[x] = heap[x]
      BY <1>2, <1>9, <2>1 DEF CallbackAgain
    <2> QED
      BY <2>1, <2>2, <2>3
  <1>10. CASE CallbackDone
    <2>1. timer \in Addr /\ heap[timer].live /\ pc' = "loop" /\ timer' = timer_next
      BY <1>2, <1>10 DEF CallbackDone, AfterAccess
    <2>2. timer_next # NULL => timer_next \in Addr \ {timer} /\ heap[timer_next].live
      BY <1>2, <1>10 DEF CallbackDone
    <2>3. \A x \in Addr \ {timer} : SameTimer(heap', heap, x)
      BY <1>2, <1>10, <2>1, UnlinkLeaves DEF CallbackDone
    <2> QED
      BY <2>1, <2>2, <2>3 DEF SameTimer
  <1>11. CASE UNCHANGED vars
    BY <1>11 DEF vars
  <1> QED
    BY <1>3, <1>4, <1>5, <1>6, <1>7, <1>8, <1>9, <1>10, <1>11 DEF Next, TimerPeriodic

\* If callbacks neither set nor clear the timer that is running or the next of
\* the pass, the pass never follows a pointer to a node that has been freed
\* (timer.c:162, timer.c:180).
THEOREM CarefulCallbacksAreSafe ==
    ASSUME {"set", "clear"} \cap CallbackOps \subseteq CarefulOps
    PROVE  Spec => []NoStaleAccess
  <1>1. Init => IInv /\ PassInv
    BY InitHolds DEF Init, PassInv
  <1>2. IInv /\ PassInv /\ [Next]_vars => IInv' /\ PassInv'
    BY StepKeeps, PassKeeps
  <1>3. PassInv => NoStaleAccess
    BY DEF PassInv, NoStaleAccess
  <1> QED
    BY <1>1, <1>2, <1>3, PTL DEF Spec
----------------------------------------------------------------------------
\* The timers of all callbacks but c are what they were.
OthersSame(g, h, c) ==
    \A x \in Addr :
        (h[x].live /\ h[x].callback # c) \/ (g[x].live /\ g[x].callback # c) => SameTimer(g, h, x)

\* The node of callback c that timer_set or timer_restart has left.
FreshTimer(c, i, x) ==
    /\ heap'[x].live /\ heap'[x].callback = c
    /\ heap'[x].start \in ClockReads /\ heap'[x].interval = i
    /\ fires' = [fires EXCEPT ![c] = 0] /\ since' = [since EXCEPT ![c] = now]

\* A call without timer_reset gives its callback a new timer, or takes its timer
\* away, or starts its timer again, or does nothing; the other timers stay.
LEMMA CallEffects ==
    ASSUME now \in 0 .. MaxNow, ListInv(heap, timer_table), HistoryOK,
           NEW ops, "reset" \notin ops, NEW c \in Callbacks, Call(ops, c)
    PROVE  /\ OthersSame(heap', heap, c)
           /\ \A d \in Callbacks \ {c} : fires'[d] = fires[d] /\ since'[d] = since[d]
           /\ \/ \E i \in Intervals, x \in Addr : "set" \in ops /\ FreshTimer(c, i, x)
              \/ "clear" \in ops /\ \A x \in Addr : heap'[x].live => heap'[x].callback # c
              \/ \E x \in Addr : /\ heap[x].live /\ heap[x].callback = c
                               /\ FreshTimer(c, heap[x].interval, x)
              \/ UNCHANGED <<heap, timer_table, fires, since>>
  <1> DEFINE a == TimerGet(heap, timer_table, c)
  <1>0. \A x \in Addr : heap[x].live /\ heap[x].callback # c => x # a
    BY GetFinds, TimerAssumption
  <1>1. ASSUME NEW i \in Intervals, TimerSet(c, i), "set" \in ops
        PROVE  /\ OthersSame(heap', heap, c)
               /\ \E x \in Addr : FreshTimer(c, i, x)
    <2>1. timer_table' \in Addr /\ FreshTimer(c, i, timer_table')
      BY <1>1, SetKeeps DEF FreshTimer
    <2>2. \A x \in Addr : heap[x].live /\ heap[x].callback # c => SameTimer(heap', heap, x)
      BY <1>0, <1>1, SetKeeps
    <2>3. \A x \in Addr : heap'[x].live /\ heap'[x].callback # c => SameTimer(heap', heap, x)
      BY <1>1, SetKeeps
    <2> QED
      BY <2>1, <2>2, <2>3 DEF OthersSame
  <1>2. ASSUME TimerClear(c)
        PROVE  /\ OthersSame(heap', heap, c)
               /\ \A x \in Addr : heap'[x].live => heap'[x].callback # c
    <2>1. /\ \A x \in Addr : heap'[x].live => heap'[x].callback # c
          /\ \A x \in Addr : x = a => ~ heap'[x].live
          /\ \A x \in Addr \ {a} : SameTimer(heap', heap, x)
      BY <1>2, ClearedKeeps DEF TimerClear
    <2> QED
      BY <1>0, <2>1 DEF OthersSame
  <1>3. ASSUME TimerRestart(c)
        PROVE  /\ OthersSame(heap', heap, c)
               /\ \/ \E x \in Addr : /\ heap[x].live /\ heap[x].callback = c
                                   /\ FreshTimer(c, heap[x].interval, x)
                  \/ UNCHANGED <<heap, timer_table, fires, since>>
    <2>1. CASE a = NULL
      BY <1>3, <2>1 DEF TimerRestart, OthersSame, SameTimer
    <2>2. CASE a # NULL
      <3>1. a \in Addr /\ heap[a].live /\ heap[a].callback = c
        BY <2>2, GetFinds
      <3>2. PICK start \in ClockReads :
               /\ heap' = [heap EXCEPT ![a].start = start]
               /\ fires' = [fires EXCEPT ![c] = 0] /\ since' = [since EXCEPT ![c] = now]
        BY <1>3, <2>2 DEF TimerRestart
      <3>3. heap \in [Addr -> Node]
        BY DEF ListInv, NodesInv
      <3> HIDE DEF a
      <3>4. \A x \in Addr \ {a} : heap'[x] = heap[x]
        BY <3>2, <3>3
      <3>5. /\ heap'[a].live = heap[a].live /\ heap'[a].callback = heap[a].callback
            /\ heap'[a].start = start /\ heap'[a].interval = heap[a].interval
        BY <3>1, <3>2, <3>3 DEF Node
      <3>6. OthersSame(heap', heap, c)
        BY <3>1, <3>4, <3>5 DEF OthersSame, SameTimer
      <3>7. FreshTimer(c, heap[a].interval, a)
        BY <3>1, <3>2, <3>5 DEF FreshTimer
      <3> QED
        BY <3>1, <3>6, <3>7
    <2> QED
      BY <2>1, <2>2
  <1>4. \A d \in Callbacks \ {c} : fires'[d] = fires[d] /\ since'[d] = since[d]
    <2>1. \/ \E t \in {0, now} : fires' = [fires EXCEPT ![c] = 0] /\ since' = [since EXCEPT ![c] = t]
          \/ UNCHANGED <<fires, since>>
      BY DEF Call, TimerSet, TimerClear, TimerReset, TimerRestart
    <2> QED
      BY <2>1 DEF HistoryOK
  <1> QED
    BY <1>1, <1>2, <1>3, <1>4 DEF Call
----------------------------------------------------------------------------
\* The timer is only used as its documentation shows: callbacks keep off the
\* timers of the running pass, nobody resets a timer, and the time is read whole.
Exact ==
    /\ CallbackOps \subseteq CarefulOps
    /\ "reset" \notin MainOps \cup CallbackOps
    /\ TornGaps = {}

\* A start time after d intervals of i since time t.
Along(start, i, t, d) == d \in Nat /\ start = t + i * d

LEMMA AlongBegins ==
    ASSUME NEW i \in Nat, NEW t \in Nat
    PROVE  Along(t, i, t, 0)
  BY DEF Along

LEMMA AlongNext ==
    ASSUME NEW i \in Nat, NEW t \in Nat, NEW start, NEW d, Along(start, i, t, d)
    PROVE  Along(start + i, i, t, d + 1)
  <1>1. d \in Nat /\ start = t + i * d
    BY DEF Along
  <1>2. i * (d + 1) = i * d + i * 1
    BY <1>1, Distributive
  <1>3. i * d \in Nat
    BY <1>1
  <1> QED
    BY <1>1, <1>2, <1>3 DEF Along

LEMMA AlongBounds ==
    ASSUME NEW i \in Nat \ {0}, NEW t \in Nat, NEW start \in Nat, NEW d, Along(start, i, t, d)
    PROVE  d \in Nat /\ d * i = start - t /\ d <= start
  <1>1. d \in Nat /\ start = t + i * d
    BY DEF Along
  <1>2. d * i = i * d /\ i * d \in Nat /\ d * 1 = d
    BY <1>1
  <1>3. d = 0 \/ d * 1 <= d * i
    BY <1>1, ProductOrder
  <1> QED
    BY <1>1, <1>2, <1>3

\* Firings that a timer has completed: the running one has not.
Done(x) ==
    IF pc = "callback" /\ x = timer THEN fires[heap[x].callback] - 1
    ELSE fires[heap[x].callback]

\* A timer is on its schedule, and never ahead of the time; while its callback
\* runs, a whole interval has passed since its start.
OnTime(x) ==
    /\ Along(heap[x].start, heap[x].interval, since[heap[x].callback], Done(x))
    /\ heap[x].start <= now
    /\ pc = "callback" /\ x = timer => heap[x].start + heap[x].interval <= now

SchedInv == \A x \in Addr : heap[x].live => OnTime(x)

\* The numbers of the timers that are set.
LEMMA LiveFields ==
    ASSUME IInv, NEW x \in Addr, heap[x].live
    PROVE  /\ heap[x].callback \in Callbacks
           /\ heap[x].start \in Nat /\ heap[x].start < TIME_MOD
           /\ heap[x].interval \in Intervals /\ heap[x].interval \in Nat \ {0}
           /\ since[heap[x].callback] \in Nat
           /\ fires[heap[x].callback] \in 0 .. MaxNow + 1
  <1>1. heap[x] \in Node /\ heap[x].callback \in Callbacks /\ heap[x].interval \in Intervals
    BY DEF IInv, ListInv, NodesInv
  <1>2. heap[x].start \in 0 .. TIME_MOD - 1 /\ heap[x].start \in Nat /\ TIME_MOD \in Nat
    BY <1>1, NodeFields, TimerAssumption
  <1>3. heap[x].interval \in Nat \ {0}
    <2>1. \A i \in Intervals : i \in Nat \ {0}
      BY TimerAssumption
    <2> QED
      BY <1>1, <2>1
  <1>4. \A c \in Callbacks : since[c] \in Nat /\ fires[c] \in 0 .. MaxNow + 1
    BY DEF IInv, TypeOK
  <1> QED
    BY <1>1, <1>2, <1>3, <1>4

\* The clock is read as it is.
LEMMA ReadsExact ==
    ASSUME IInv, Exact
    PROVE  /\ ClockReads = {now} /\ now \in 0 .. MaxNow
           /\ \A n \in 0 .. now : n % TIME_MOD = n
           /\ \A x \in Addr : heap[x].live /\ heap[x].start <= now =>
                 \A time \in ClockReads :
                    IsDue(x, time) <=> heap[x].start + heap[x].interval <= now
  <1>1. now \in 0 .. MaxNow /\ TIME_MOD \in Nat \ {0} /\ MaxNow \in Nat /\ MaxNow < TIME_MOD
    BY ReadsFit, TimerAssumption DEF IInv, TypeOK
  <1>2. \A n \in 0 .. now : n \in 0 .. TIME_MOD - 1
    BY <1>1
  <1>3. \A n \in 0 .. now : n % TIME_MOD = n
    BY <1>1, <1>2, ModSmall
  <1>4. ClockReads = {now}
    <2>1. now % TIME_MOD = now
      BY <1>1, <1>3
    <2> QED
      BY <2>1 DEF ClockReads, Exact
  <1>5. ASSUME NEW x \in Addr, heap[x].live, heap[x].start <= now
        PROVE  IsDue(x, now) <=> heap[x].start + heap[x].interval <= now
    <2>1. heap[x].start \in Nat /\ heap[x].interval \in Nat
      BY <1>5, LiveFields
    <2>2. (now - heap[x].start) \in 0 .. now
      BY <1>1, <1>5, <2>1
    <2>3. ((now - heap[x].start) % TIME_MOD) = now - heap[x].start
      BY <1>3, <2>2
    <2> QED
      BY <1>1, <2>1, <2>3 DEF IsDue
  <1> QED
    BY <1>1, <1>3, <1>4, <1>5

\* A timer that a step leaves alone stays on its schedule.
LEMMA OnTimeStays ==
    ASSUME IInv, NEW x \in Addr, OnTime(x), heap[x].live, SameTimer(heap', heap, x),
           now' \in Nat, now <= now',
           fires'[heap[x].callback] = fires[heap[x].callback],
           since'[heap[x].callback] = since[heap[x].callback],
           (pc' = "callback" /\ x = timer') <=> (pc = "callback" /\ x = timer)
    PROVE  OnTime(x)'
  <1>1. Done(x)' = Done(x)
    BY DEF Done, SameTimer
  <1>2. heap[x].start \in Nat /\ heap[x].interval \in Nat /\ now \in Nat
    BY LiveFields DEF IInv, TypeOK
  <1> QED
    BY <1>1, <1>2 DEF OnTime, SameTimer

\* A timer that is set or started again is on its schedule.
LEMMA OnTimeBegins ==
    ASSUME IInv, Exact, NEW c \in Callbacks, NEW i \in Intervals, NEW x \in Addr,
           FreshTimer(c, i, x), now' = now, ~ (pc' = "callback" /\ x = timer')
    PROVE  OnTime(x)'
  <1>1. heap'[x].start = now /\ heap'[x].interval = i /\ heap'[x].callback = c
    BY ReadsExact DEF FreshTimer
  <1>2. fires'[c] = 0 /\ since'[c] = now
    BY DEF FreshTimer, IInv, TypeOK
  <1>3. now \in Nat /\ i \in Nat
    BY TimerAssumption DEF IInv, TypeOK
  <1>4. Along(now, i, now, 0)
    BY <1>3, AlongBegins
  <1>5. Done(x)' = 0
    BY <1>1, <1>2 DEF Done
  <1> QED
    BY <1>1, <1>2, <1>3, <1>4, <1>5 DEF OnTime

LEMMA CallOnTime ==
    ASSUME IInv, Exact, SchedInv, NEW ops, "reset" \notin ops, NEW c \in Callbacks, Call(ops, c),
           now' = now, pc' = pc, timer' = timer,
           pc = "callback" => timer \in Addr /\ heap[timer].live /\ heap[timer].callback # c
    PROVE  SchedInv'
  <1>1. now \in 0 .. MaxNow /\ ListInv(heap, timer_table) /\ HistoryOK
    BY DEF IInv, TypeOK, HistoryOK
  <1>2. /\ OthersSame(heap', heap, c)
        /\ \A d \in Callbacks \ {c} : fires'[d] = fires[d] /\ since'[d] = since[d]
        /\ \/ \E i \in Intervals, x \in Addr : "set" \in ops /\ FreshTimer(c, i, x)
           \/ "clear" \in ops /\ \A x \in Addr : heap'[x].live => heap'[x].callback # c
           \/ \E x \in Addr : /\ heap[x].live /\ heap[x].callback = c
                            /\ FreshTimer(c, heap[x].interval, x)
           \/ UNCHANGED <<heap, timer_table, fires, since>>
    BY <1>1, CallEffects
  <1>3. ListInv(heap', timer_table')
    BY <1>1, CallKeeps
  <1>4. now \in Nat /\ now <= now'
    BY <1>1
  <1>5. ASSUME NEW x \in Addr, heap'[x].live, heap'[x].callback # c
        PROVE  OnTime(x)'
    <2>1. SameTimer(heap', heap, x) /\ heap[x].live /\ heap[x].callback # c
      BY <1>2, <1>5 DEF OthersSame, SameTimer
    <2>2. heap[x].callback \in Callbacks \ {c} /\ OnTime(x)
      BY <2>1, LiveFields DEF SchedInv
    <2>3. /\ fires'[heap[x].callback] = fires[heap[x].callback]
          /\ since'[heap[x].callback] = since[heap[x].callback]
      BY <1>2, <2>2
    <2> QED
      BY <1>4, <2>1, <2>2, <2>3, OnTimeStays
  <1>6. ASSUME NEW x \in Addr, heap'[x].live, heap'[x].callback = c,
               NEW i \in Intervals, NEW y \in Addr, FreshTimer(c, i, y)
        PROVE  OnTime(x)'
    <2>1. x = y
      BY <1>3, <1>6 DEF ListInv, NodesInv, FreshTimer
    <2>2. ~ (pc' = "callback" /\ x = timer')
      BY <1>2, <1>6 DEF OthersSame, SameTimer
    <2> QED
      BY <1>6, <2>1, <2>2, OnTimeBegins
  <1>7. ASSUME NEW x \in Addr, heap'[x].live, UNCHANGED <<heap, timer_table, fires, since>>
        PROVE  OnTime(x)'
    <2>1. SameTimer(heap', heap, x) /\ heap[x].live /\ OnTime(x)
      BY <1>7 DEF SchedInv, SameTimer
    <2> QED
      BY <1>4, <1>7, <2>1, OnTimeStays
  <1>8. ASSUME NEW x \in Addr, heap'[x].live, heap'[x].callback = c
        PROVE  OnTime(x)'
    <2>1. CASE \E i \in Intervals, y \in Addr : FreshTimer(c, i, y)
      BY <1>6, <1>8, <2>1
    <2>2. CASE \E y \in Addr : heap[y].live /\ FreshTimer(c, heap[y].interval, y)
      BY <1>6, <1>8, <2>2, LiveFields
    <2>3. CASE UNCHANGED <<heap, timer_table, fires, since>>
      BY <1>7, <1>8, <2>3
    <2> QED
      BY <1>2, <1>8, <2>1, <2>2, <2>3
  <1> QED
    BY <1>5, <1>8 DEF SchedInv

\* A careful callback calls nothing for its own timer.
LEMMA CarefulCall ==
    ASSUME IInv, Exact, NEW c \in Callbacks, CallbackCall(c), heap[timer].live
    PROVE  /\ timer \in Addr /\ heap[timer].callback # c
           /\ "reset" \notin AllowedOps(c) /\ Call(AllowedOps(c), c)
  <1>1. timer \in Addr /\ timer # NULL /\ Call(AllowedOps(c), c) /\ ListInv(heap, timer_table)
    BY TimerAssumption DEF CallbackCall, IInv
  <1>2. AllowedOps(c) \subseteq CallbackOps
    BY DEF AllowedOps
  <1>3. heap[timer].callback # c
    <2>1. SUFFICES ASSUME heap[timer].callback = c PROVE FALSE
      OBVIOUS
    <2>2. TimerGet(heap, timer_table, c) = timer
      BY <1>1, <2>1, GetIs
    <2>3. AllowedOps(c) = CallbackOps \ CarefulOps
      BY <1>1, <2>2 DEF AllowedOps
    <2>4. AllowedOps(c) = {}
      BY <2>3 DEF Exact
    <2> QED
      BY <1>1, <2>4 DEF Call
  <1> QED
    BY <1>1, <1>2, <1>3 DEF Exact

\* What a firing, and the two ways a callback returns, do to the timers.
LEMMA FiringEffect ==
    ASSUME IInv, Exact, PassInv, SchedInv, PeriodicVisit
    PROVE  /\ timer \in Addr /\ heap[timer].live
           /\ UNCHANGED <<heap, timer_table, now, since>>
           /\ \/ /\ pc' = "callback" /\ timer' = timer
                 /\ heap[timer].start + heap[timer].interval <= now
                 /\ fires' = [fires EXCEPT ![heap[timer].callback] = @ + 1]
              \/ pc' = "loop" /\ fires' = fires
  <1>1. timer \in Addr /\ heap[timer].live /\ pc = "loop"
    BY DEF PeriodicVisit, PassInv, IInv, TypeOK
  <1>2. UNCHANGED <<heap, timer_table, now, since>>
    BY DEF PeriodicVisit
  <1>3. OnTime(timer) /\ heap[timer].start <= now
    BY <1>1 DEF SchedInv, OnTime
  <1>4. PICK time \in ClockReads :
           IF IsDue(timer, time)
           THEN /\ pc' = "callback" /\ timer' = timer
                /\ fires' = [fires EXCEPT ![heap[timer].callback] = IF @ > MaxNow THEN @ ELSE @ + 1]
           ELSE pc' = pc /\ fires' = fires
    BY <1>1 DEF PeriodicVisit
  <1>5. fires[heap[timer].callback] <= MaxNow
    <2>1. /\ heap[timer].start \in Nat /\ heap[timer].interval \in Nat \ {0}
          /\ since[heap[timer].callback] \in Nat
      BY <1>1, LiveFields
    <2>2. Along(heap[timer].start, heap[timer].interval, since[heap[timer].callback],
                fires[heap[timer].callback])
      BY <1>1, <1>3 DEF OnTime, Done
    <2>3. fires[heap[timer].callback] \in Nat /\ fires[heap[timer].callback] <= heap[timer].start
      BY <2>1, <2>2, AlongBounds
    <2>4. now \in Nat /\ MaxNow \in Nat /\ now <= MaxNow
      BY TimerAssumption DEF IInv, TypeOK
    <2> QED
      BY <1>3, <2>1, <2>3, <2>4
  <1>6. ~ (fires[heap[timer].callback] > MaxNow)
    BY <1>1, <1>5, LiveFields, TimerAssumption
  <1>7. IsDue(timer, time) => heap[timer].start + heap[timer].interval <= now
    BY <1>1, <1>3, <1>4, ReadsExact
  <1>8. CASE IsDue(timer, time)
    BY <1>1, <1>2, <1>4, <1>6, <1>7, <1>8
  <1>9. CASE ~ IsDue(timer, time)
    BY <1>1, <1>2, <1>4, <1>9
  <1> QED
    BY <1>8, <1>9

LEMMA AgainEffect ==
    ASSUME IInv, Exact, PassInv, SchedInv, CallbackAgain
    PROVE  /\ timer \in Addr /\ heap[timer].live
           /\ heap'[timer].live /\ heap'[timer].callback = heap[timer].callback
           /\ heap'[timer].interval = heap[timer].interval
           /\ heap'[timer].start = heap[timer].start + heap[timer].interval
           /\ \A x \in Addr \ {timer} : heap'[x] = heap[x]
           /\ pc' = "loop" /\ UNCHANGED <<timer_table, now, fires, since>>
  <1>1. timer \in Addr /\ heap[timer].live /\ pc = "callback" /\ heap \in [Addr -> Node]
    BY DEF CallbackAgain, PassInv, IInv, TypeOK
  <1>2. heap[timer].start + heap[timer].interval <= now
    BY <1>1 DEF SchedInv, OnTime
  <1>3. NextStart(timer) = heap[timer].start + heap[timer].interval
    <2>1. heap[timer].start \in Nat /\ heap[timer].interval \in Nat /\ now \in Nat
      BY <1>1, LiveFields DEF IInv, TypeOK
    <2>2. heap[timer].start + heap[timer].interval \in 0 .. now
      BY <1>2, <2>1
    <2> QED
      BY <2>2, ReadsExact DEF NextStart
  <1>4. heap' = [heap EXCEPT ![timer].start = NextStart(timer)]
    BY DEF CallbackAgain
  <1> HIDE DEF NextStart
  <1>5. /\ heap'[timer].live = heap[timer].live /\ heap'[timer].callback = heap[timer].callback
        /\ heap'[timer].interval = heap[timer].interval /\ heap'[timer].start = NextStart(timer)
    BY <1>1, <1>4 DEF Node
  <1>6. \A x \in Addr \ {timer} : heap'[x] = heap[x]
    BY <1>1, <1>4
  <1>7. pc' = "loop" /\ UNCHANGED <<timer_table, now, fires, since>>
    BY <1>1 DEF CallbackAgain, AfterAccess
  <1> QED
    BY <1>1, <1>3, <1>5, <1>6, <1>7

LEMMA DoneEffect ==
    ASSUME IInv, PassInv, CallbackDone
    PROVE  /\ timer \in Addr /\ heap[timer].live /\ ~ heap'[timer].live
           /\ \A x \in Addr \ {timer} : SameTimer(heap', heap, x)
           /\ pc' = "loop" /\ now' = now
           /\ \A d \in Callbacks \ {heap[timer].callback} : fires'[d] = fires[d] /\ since'[d] = since[d]
  <1>1. timer \in Addr /\ heap[timer].live /\ heap \in [Addr -> Node]
    BY DEF CallbackDone, PassInv, IInv, TypeOK
  <1>2. heap'[timer] = FreeNode /\ \A x \in Addr \ {timer} : SameTimer(heap', heap, x)
    BY <1>1, UnlinkLeaves DEF CallbackDone
  <1>3. ~ heap'[timer].live
    BY <1>2 DEF FreeNode
  <1> QED
    BY <1>1, <1>2, <1>3 DEF CallbackDone, AfterAccess

\* Every step keeps the schedule.
LEMMA ScheduleKept ==
    ASSUME IInv, Exact, PassInv, SchedInv, [Next]_vars
    PROVE  SchedInv'
  <1>1. now \in Nat /\ now <= now /\ heap \in [Addr -> Node] /\ fires \in [Callbacks -> 0 .. MaxNow + 1]
    BY DEF IInv, TypeOK
  <1>2. \A x \in Addr : heap[x].live => OnTime(x) /\ heap[x].callback \in Callbacks
    BY LiveFields DEF SchedInv
  \* Steps that leave the timers alone.
  <1>3. ASSUME UNCHANGED <<heap, fires, since>>, now' \in Nat, now <= now',
               \A x \in Addr : heap[x].live =>
                  ((pc' = "callback" /\ x = timer') <=> (pc = "callback" /\ x = timer))
        PROVE  SchedInv'
    <2>1. ASSUME NEW x \in Addr, heap[x].live
          PROVE  OnTime(x)'
      <3>1. SameTimer(heap', heap, x)
        BY <1>3 DEF SameTimer
      <3>2. /\ fires'[heap[x].callback] = fires[heap[x].callback]
            /\ since'[heap[x].callback] = since[heap[x].callback]
        BY <1>3
      <3>3. (pc' = "callback" /\ x = timer') <=> (pc = "callback" /\ x = timer)
        BY <1>3, <2>1
      <3> QED
        BY <1>2, <1>3, <2>1, <3>1, <3>2, <3>3, OnTimeStays
    <2> QED
      BY <1>3, <2>1 DEF SchedInv
  <1>4. CASE Tick
    <2>1. /\ UNCHANGED <<heap, fires, since, pc, timer>>
          /\ now' \in Nat /\ now <= now'
      BY <1>1, <1>4 DEF Tick
    <2> QED
      BY <1>3, <2>1
  <1>5. ASSUME NEW c \in Callbacks, MainCall(c)
        PROVE  SchedInv'
    BY <1>5, CallOnTime DEF MainCall, Exact
  <1>6. ASSUME NEW c \in Callbacks, CallbackCall(c)
        PROVE  SchedInv'
    <2>1. heap[timer].live
      BY <1>6 DEF CallbackCall, PassInv
    <2>2. /\ timer \in Addr /\ heap[timer].callback # c
          /\ "reset" \notin AllowedOps(c) /\ Call(AllowedOps(c), c)
      BY <1>6, <2>1, CarefulCall
    <2>3. now' = now /\ pc' = pc /\ timer' = timer
      BY <1>6 DEF CallbackCall
    <2> QED
      BY <2>1, <2>2, <2>3, CallOnTime
  <1>7. CASE PeriodicStart
    BY <1>1, <1>3, <1>7 DEF PeriodicStart
  <1>8. CASE PeriodicEnd
    BY <1>1, <1>3, <1>8 DEF PeriodicEnd
  <1>9. CASE PeriodicVisit
    <2>1. /\ timer \in Addr /\ heap[timer].live
          /\ UNCHANGED <<heap, timer_table, now, since>>
          /\ \/ /\ pc' = "callback" /\ timer' = timer
                /\ heap[timer].start + heap[timer].interval <= now
                /\ fires' = [fires EXCEPT ![heap[timer].callback] = @ + 1]
             \/ pc' = "loop" /\ fires' = fires
      BY <1>9, FiringEffect
    <2>2. pc = "loop"
      BY <1>9 DEF PeriodicVisit
    <2>3. CASE pc' = "callback"
      <3>1. /\ timer' = timer /\ heap[timer].start + heap[timer].interval <= now
            /\ fires' = [fires EXCEPT ![heap[timer].callback] = @ + 1]
        BY <2>1, <2>3
      <3>2. ASSUME NEW x \in Addr, heap[x].live, x # timer
            PROVE  OnTime(x)'
        <4>1. heap[x].callback # heap[timer].callback
          BY <2>1, <3>2 DEF IInv, ListInv, NodesInv
        <4>2. SameTimer(heap', heap, x) /\ since'[heap[x].callback] = since[heap[x].callback]
          BY <2>1 DEF SameTimer
        <4>3. fires'[heap[x].callback] = fires[heap[x].callback]
          BY <1>1, <1>2, <2>1, <3>1, <3>2, <4>1
        <4>4. (pc' = "callback" /\ x = timer') <=> (pc = "callback" /\ x = timer)
          BY <2>2, <3>1, <3>2
        <4> QED
          BY <1>1, <1>2, <2>1, <3>2, <4>2, <4>3, <4>4, OnTimeStays
      <3>3. OnTime(timer)'
        <4>1. fires'[heap[timer].callback] = fires[heap[timer].callback] + 1
          BY <1>1, <1>2, <2>1, <3>1
        <4>2. Done(timer)' = Done(timer)
          BY <1>1, <1>2, <2>1, <2>2, <2>3, <3>1, <4>1 DEF Done
        <4> QED
          BY <1>2, <2>1, <3>1, <4>2 DEF OnTime
      <3> QED
        BY <2>1, <3>1, <3>2, <3>3 DEF SchedInv
    <2>4. CASE pc' = "loop"
      BY <1>1, <1>3, <2>1, <2>2, <2>4
    <2> QED
      BY <2>1, <2>3, <2>4
  <1>10. CASE CallbackAgain
    <2>1. /\ timer \in Addr /\ heap[timer].live
          /\ heap'[timer].live /\ heap'[timer].callback = heap[timer].callback
          /\ heap'[timer].interval = heap[timer].interval
          /\ heap'[timer].start = heap[timer].start + heap[timer].interval
          /\ \A x \in Addr \ {timer} : heap'[x] = heap[x]
          /\ pc' = "loop" /\ UNCHANGED <<timer_table, now, fires, since>>
      BY <1>10, AgainEffect
    <2>2. pc = "callback"
      BY <1>10 DEF CallbackAgain
    <2>3. ASSUME NEW x \in Addr \ {timer}, heap'[x].live
          PROVE  OnTime(x)'
      <3>1. SameTimer(heap', heap, x) /\ heap[x].live
        BY <2>1, <2>3 DEF SameTimer
      <3> QED
        BY <1>1, <1>2, <2>1, <2>3, <3>1, OnTimeStays
    <2>4. ASSUME NEW x \in Addr, x = timer
          PROVE  OnTime(x)'
      <3> DEFINE c == heap[timer].callback
                 i == heap[timer].interval
                 start == heap[timer].start
      <3>1. start \in Nat /\ i \in Nat /\ since[c] \in Nat /\ fires[c] \in Nat
        BY <2>1, LiveFields, TimerAssumption
      <3>2. Along(start, i, since[c], fires[c] - 1) /\ start + i <= now
        BY <1>2, <2>1, <2>2 DEF OnTime, Done
      <3>3. Along(start + i, i, since[c], (fires[c] - 1) + 1)
        BY <3>1, <3>2, AlongNext
      <3>4. (fires[c] - 1) + 1 = fires[c]
        BY <3>1
      <3>5. Done(x)' = fires[c]
        BY <2>1, <2>4 DEF Done
      <3>6. /\ heap'[x].start = start + i /\ heap'[x].interval = i
            /\ since'[heap'[x].callback] = since[c] /\ now' = now /\ pc' = "loop"
        BY <2>1, <2>4
      <3> HIDE DEF c, i, start
      <3> QED
        BY <3>2, <3>3, <3>4, <3>5, <3>6 DEF OnTime
    <2> QED
      BY <2>3, <2>4 DEF SchedInv
  <1>11. CASE CallbackDone
    <2>1. /\ timer \in Addr /\ heap[timer].live /\ ~ heap'[timer].live
          /\ \A x \in Addr \ {timer} : SameTimer(heap', heap, x)
          /\ pc' = "loop" /\ now' = now
          /\ \A d \in Callbacks \ {heap[timer].callback} : fires'[d] = fires[d] /\ since'[d] = since[d]
      BY <1>11, DoneEffect
    <2>2. ASSUME NEW x \in Addr, heap'[x].live
          PROVE  OnTime(x)'
      <3>1. x # timer /\ SameTimer(heap', heap, x) /\ heap[x].live
        BY <2>1, <2>2 DEF SameTimer
      <3>2. heap[x].callback # heap[timer].callback
        BY <2>1, <3>1 DEF IInv, ListInv, NodesInv
      <3>3. /\ fires'[heap[x].callback] = fires[heap[x].callback]
            /\ since'[heap[x].callback] = since[heap[x].callback]
        BY <1>2, <2>1, <3>1, <3>2
      <3> QED
        BY <1>1, <1>2, <2>1, <3>1, <3>3, OnTimeStays
    <2> QED
      BY <2>2 DEF SchedInv
  <1>12. CASE UNCHANGED vars
    BY <1>1, <1>3, <1>12 DEF vars
  <1> QED
    BY <1>4, <1>5, <1>6, <1>7, <1>8, <1>9, <1>10, <1>11, <1>12 DEF Next, TimerPeriodic

LEMMA ScheduleHolds ==
    ASSUME IInv, Exact, SchedInv
    PROVE  OnSchedule
  <1> SUFFICES ASSUME NEW c \in Active
               PROVE  LET done == IF Running = c THEN fires[c] - 1 ELSE fires[c]
                      IN  /\ fires[c] * TimerOf(c).interval <= now - since[c]
                          /\ TimerOf(c).start = (since[c] + done * TimerOf(c).interval) % TIME_MOD
    BY DEF OnSchedule
  <1> DEFINE a == TimerGet(heap, timer_table, c)
             i == heap[a].interval
             start == heap[a].start
             done == IF Running = c THEN fires[c] - 1 ELSE fires[c]
  <1>1. c \in Callbacks /\ a \in Addr /\ heap[a].live /\ heap[a].callback = c /\ TimerOf(c) = heap[a]
    BY GetFinds DEF Active, IInv, TimerOf
  <1>2. /\ start \in Nat /\ start < TIME_MOD /\ i \in Nat \ {0}
        /\ since[c] \in Nat /\ fires[c] \in Nat /\ now \in Nat /\ TIME_MOD \in Nat \ {0}
    BY <1>1, LiveFields, TimerAssumption DEF IInv, TypeOK
  <1>3. Running = c <=> pc = "callback" /\ a = timer
    <2>1. ASSUME pc = "callback", heap[timer].callback = c
          PROVE  a = timer
      <3>1. timer \in Addr /\ ListInv(heap, timer_table)
        BY <2>1 DEF IInv
      <3>2. heap[timer].live
        <4>1. ~ heap[timer].live => heap[timer].callback = NULL
          BY <3>1 DEF ListInv, NodesInv, FreeNode
        <4> QED
          BY <1>1, <2>1, <4>1, TimerAssumption
      <3> QED
        BY <2>1, <3>1, <3>2, GetIs
    <2> QED
      BY <1>1, <2>1, TimerAssumption DEF Running
  <1>4. OnTime(a)
    BY <1>1 DEF SchedInv
  <1>5. Along(start, i, since[c], done) /\ start <= now /\ (Running = c => start + i <= now)
    BY <1>1, <1>3, <1>4 DEF OnTime, Done
  <1> HIDE DEF a, i, start
  <1>6. done \in Nat /\ done * i = start - since[c]
    BY <1>2, <1>5, AlongBounds
  <1>7. TimerOf(c).interval = i /\ TimerOf(c).start = start
    BY <1>1 DEF i, start
  <1>8. fires[c] * i <= now - since[c]
    <2>1. CASE Running = c
      <3>1. Along(start + i, i, since[c], done + 1) /\ start + i \in Nat
        BY <1>2, <1>5, AlongNext
      <3>2. (done + 1) * i = (start + i) - since[c]
        BY <1>2, <3>1, AlongBounds
      <3>3. done + 1 = fires[c]
        BY <1>2, <2>1
      <3>4. fires[c] * i = (start + i) - since[c]
        BY <3>2, <3>3
      <3> QED
        BY <1>2, <1>5, <2>1, <3>4
    <2>2. CASE Running # c
      <3>1. fires[c] * i = start - since[c]
        BY <1>6, <2>2
      <3> QED
        BY <1>2, <1>5, <3>1
    <2> QED
      BY <2>1, <2>2
  <1>9. start = (since[c] + done * i) % TIME_MOD
    <2>1. since[c] + done * i = start /\ start \in 0 .. TIME_MOD - 1
      BY <1>2, <1>6
    <2>2. start % TIME_MOD = start
      BY <1>2, <2>1, ModSmall
    <2> QED
      BY <2>1, <2>2
  <1> QED
    BY <1>7, <1>8, <1>9

\* Used so, a timer fires once for every interval at most, and its schedule does
\* not drift (timer.h:97, timer.c:162, timer.c:180).
THEOREM SchedulesDoNotDrift ==
    ASSUME Exact
    PROVE  Spec => []OnSchedule
  <1>1. {"set", "clear"} \cap CallbackOps \subseteq CarefulOps
    BY DEF Exact
  <1>2. Init => IInv /\ PassInv /\ SchedInv
    <2>1. Init => \A x \in Addr : ~ heap[x].live
      BY DEF Init, FreeNode
    <2>2. Init => SchedInv
      BY <2>1 DEF SchedInv
    <2> QED
      BY <2>2, InitHolds DEF Init, PassInv
  <1>3. IInv /\ PassInv /\ SchedInv /\ [Next]_vars => IInv' /\ PassInv' /\ SchedInv'
    BY <1>1, StepKeeps, PassKeeps, ScheduleKept
  <1>4. IInv /\ SchedInv => OnSchedule
    BY ScheduleHolds
  <1> QED
    BY <1>2, <1>3, <1>4, PTL DEF Spec
----------------------------------------------------------------------------
\* The abstract table that a list stands for.
TimersIn(h, head) ==
    [c \in Callbacks |->
        LET a == TimerGet(h, head, c)
        IN  IF a # NULL THEN [start |-> h[a].start, interval |-> h[a].interval] ELSE NULL]

TimerRecord == [start : Nat, interval : Nat]

LEMMA TableEntries ==
    ASSUME NEW h, NEW head, ListInv(h, head)
    PROVE  /\ \A x \in Addr : h[x].live =>
                 TimersIn(h, head)[h[x].callback] = [start |-> h[x].start, interval |-> h[x].interval]
           /\ \A c \in Callbacks : (\A x \in Addr : h[x].live => h[x].callback # c) =>
                 TimersIn(h, head)[c] = NULL
  <1>1. ASSUME NEW x \in Addr, h[x].live
        PROVE  TimersIn(h, head)[h[x].callback] = [start |-> h[x].start, interval |-> h[x].interval]
    <2>1. h[x].callback \in Callbacks /\ TimerGet(h, head, h[x].callback) = x /\ x # NULL
      BY <1>1, GetIs, TimerAssumption
    <2> QED
      BY <2>1 DEF TimersIn
  <1>2. ASSUME NEW c \in Callbacks, \A x \in Addr : h[x].live => h[x].callback # c
        PROVE  TimersIn(h, head)[c] = NULL
    <2>1. TimerGet(h, head, c) = NULL
      BY <1>2, GetFinds
    <2> QED
      BY <2>1 DEF TimersIn
  <1> QED
    BY <1>1, <1>2

\* If only the timer of c changes, so does only its entry.
LEMMA TableChange ==
    ASSUME NEW h, NEW head, NEW g, NEW ghead, NEW c \in Callbacks,
           ListInv(h, head), ListInv(g, ghead), OthersSame(g, h, c)
    PROVE  TimersIn(g, ghead) = [TimersIn(h, head) EXCEPT ![c] = TimersIn(g, ghead)[c]]
  <1>1. ASSUME NEW d \in Callbacks, d # c
        PROVE  TimersIn(g, ghead)[d] = TimersIn(h, head)[d]
    <2>1. CASE \E x \in Addr : h[x].live /\ h[x].callback = d
      <3>1. PICK x \in Addr : h[x].live /\ h[x].callback = d
        BY <2>1
      <3>2. SameTimer(g, h, x)
        BY <1>1, <3>1 DEF OthersSame
      <3>3. TimersIn(h, head)[d] = [start |-> h[x].start, interval |-> h[x].interval]
        BY <3>1, TableEntries
      <3>4. TimersIn(g, ghead)[d] = [start |-> g[x].start, interval |-> g[x].interval]
        <4>1. g[x].live /\ g[x].callback = d
          BY <3>1, <3>2 DEF SameTimer
        <4> QED
          BY <4>1, TableEntries
      <3> QED
        BY <3>2, <3>3, <3>4 DEF SameTimer
    <2>2. CASE \A x \in Addr : h[x].live => h[x].callback # d
      <3>1. \A x \in Addr : g[x].live => g[x].callback # d
        BY <1>1, <2>2 DEF OthersSame, SameTimer
      <3>2. TimersIn(h, head)[d] = NULL
        BY <2>2, TableEntries
      <3>3. TimersIn(g, ghead)[d] = NULL
        BY <3>1, TableEntries
      <3> QED
        BY <3>2, <3>3
    <2> QED
      BY <2>1, <2>2
  <1>2. /\ TimersIn(g, ghead) = [d \in Callbacks |-> TimersIn(g, ghead)[d]]
        /\ TimersIn(h, head) = [d \in Callbacks |-> TimersIn(h, head)[d]]
    BY DEF TimersIn
  <1> QED
    BY <1>1, <1>2

LEMMA StepTable ==
    ASSUME NEW c \in Callbacks, ListInv(heap, timer_table), ListInv(heap', timer_table'),
           OthersSame(heap', heap, c)
    PROVE  TimersIn(heap', timer_table')
             = [TimersIn(heap, timer_table) EXCEPT ![c] = TimersIn(heap', timer_table')[c]]
  BY TableChange

\* A call does to the table what Set, Clear or Restart does, or nothing.
LEMMA CallOnTable ==
    ASSUME IInv, Exact, NULL \notin TimerRecord,
           NEW ops, "reset" \notin ops, NEW c \in Callbacks, Call(ops, c)
    PROVE  LET T == TimersIn(heap, timer_table)
           IN  \/ \E i \in Intervals : T' = [T EXCEPT ![c] = [start |-> now, interval |-> i]]
               \/ T[c] # NULL /\ T' = [T EXCEPT ![c] = NULL]
               \/ T[c] # NULL /\ T' = [T EXCEPT ![c].start = now]
               \/ T' = T
  <1> DEFINE T == TimersIn(heap, timer_table)
             U == TimersIn(heap', timer_table')
  <1>0. T' = U
    OBVIOUS
  <1>1. now \in 0 .. MaxNow /\ ListInv(heap, timer_table) /\ HistoryOK
    BY DEF IInv, TypeOK, HistoryOK
  <1>2. /\ OthersSame(heap', heap, c)
        /\ \/ \E i \in Intervals, x \in Addr : "set" \in ops /\ FreshTimer(c, i, x)
           \/ "clear" \in ops /\ \A x \in Addr : heap'[x].live => heap'[x].callback # c
           \/ \E x \in Addr : /\ heap[x].live /\ heap[x].callback = c
                            /\ FreshTimer(c, heap[x].interval, x)
           \/ UNCHANGED <<heap, timer_table, fires, since>>
    BY <1>1, CallEffects
  <1>3. ListInv(heap', timer_table')
    BY <1>1, CallKeeps
  <1>4. U = [T EXCEPT ![c] = U[c]]
    <2>1. ListInv(heap, timer_table) /\ ListInv(heap', timer_table') /\ OthersSame(heap', heap, c)
      BY <1>1, <1>2, <1>3
    <2> QED
      BY ONLY <2>1, c \in Callbacks, StepTable
  <1>5. T = [d \in Callbacks |-> T[d]]
    BY DEF TimersIn
  <1>6. ASSUME NEW i, NEW x \in Addr, FreshTimer(c, i, x)
        PROVE  U[c] = [start |-> now, interval |-> i]
    <2>1. /\ heap'[x].live /\ heap'[x].callback = c
          /\ heap'[x].start = now /\ heap'[x].interval = i
      BY <1>6, ReadsExact DEF FreshTimer
    <2> QED
      BY <1>3, <2>1, TableEntries
  <1> HIDE DEF T, U
  <1>7. CASE \E i \in Intervals, x \in Addr : FreshTimer(c, i, x)
    <2>1. PICK i \in Intervals, x \in Addr : FreshTimer(c, i, x)
      BY <1>7
    <2>2. U = [T EXCEPT ![c] = [start |-> now, interval |-> i]]
      BY <1>4, <1>6, <2>1
    <2> QED
      BY <1>0, <2>2 DEF T
  <1>8. CASE \A x \in Addr : heap'[x].live => heap'[x].callback # c
    <2>1. U[c] = NULL
      BY <1>3, <1>8, TableEntries DEF U
    <2>2. U = [T EXCEPT ![c] = NULL]
      BY <1>4, <2>1
    <2>3. T[c] = NULL => U = T
      BY <1>5, <2>2
    <2> QED
      BY <1>0, <2>2, <2>3 DEF T
  <1>9. CASE \E x \in Addr : /\ heap[x].live /\ heap[x].callback = c
                           /\ FreshTimer(c, heap[x].interval, x)
    <2>1. PICK x \in Addr : /\ heap[x].live /\ heap[x].callback = c
                           /\ FreshTimer(c, heap[x].interval, x)
      BY <1>9
    <2>2. U = [T EXCEPT ![c] = [start |-> now, interval |-> heap[x].interval]]
      BY <1>4, <1>6, <2>1
    <2>3. T[c] = [start |-> heap[x].start, interval |-> heap[x].interval]
      BY <1>1, <2>1, TableEntries DEF T
    <2>4. [T[c] EXCEPT !.start = now] = [start |-> now, interval |-> heap[x].interval]
      BY <2>3
    <2>5. T[c] # NULL
      <3>1. heap[x].start \in Nat /\ heap[x].interval \in Nat
        BY <2>1, LiveFields
      <3> QED
        BY <2>3, <3>1 DEF TimerRecord
    <2>6. U = [T EXCEPT ![c].start = now]
      BY <2>2, <2>4
    <2> QED
      BY <1>0, <2>5, <2>6 DEF T
  <1>10. CASE UNCHANGED <<heap, timer_table, fires, since>>
    BY <1>10
  <1> QED
    BY <1>2, <1>7, <1>8, <1>9, <1>10

LEMMA TableIsList == Timers = TimersIn(heap, timer_table)
  BY DEF Timers, TimersIn, Active, TimerOf

\* The steps of the list map to steps of the table.
LEMMA StepRefines ==
    ASSUME IInv, Exact, PassInv, SchedInv, NULL \notin TimerRecord, [Next]_vars
    PROVE  [Table!Next]_(Table!vars)
  <1> DEFINE T == TimersIn(heap, timer_table)
  <1>1. Timers = T /\ Timers' = T'
    BY DEF Timers, TimersIn, Active, TimerOf
  <1>2. ListInv(heap, timer_table) /\ heap \in [Addr -> Node]
    BY DEF IInv, TypeOK
  <1>3. T = [d \in Callbacks |-> T[d]]
    BY DEF TimersIn
  <1>4. pc # "callback" => Running = NULL
    BY DEF Running
  \* Steps that leave the table alone.
  <1>5. ASSUME UNCHANGED <<heap, timer_table, now>>, Running' = Running
        PROVE  UNCHANGED Table!vars
    <2>1. T' = T
      BY <1>5
    <2> QED
      BY <1>1, <1>5, <2>1 DEF Table!vars
  \* Calls.
  <1>6. ASSUME NEW ops, "reset" \notin ops, NEW c \in Callbacks, Call(ops, c),
               now' = now, Running' = Running, Running # c
        PROVE  [Table!Next]_(Table!vars)
    <2>1. \/ \E i \in Intervals : T' = [T EXCEPT ![c] = [start |-> now, interval |-> i]]
          \/ T[c] # NULL /\ T' = [T EXCEPT ![c] = NULL]
          \/ T[c] # NULL /\ T' = [T EXCEPT ![c].start = now]
          \/ T' = T
      BY <1>6, CallOnTable
    <2> HIDE DEF T
    <2>2. ASSUME NEW i \in Intervals, T' = [T EXCEPT ![c] = [start |-> now, interval |-> i]]
          PROVE  Table!Next
      BY <1>1, <1>6, <2>2 DEF Table!Next, Table!Set
    <2>3. CASE T[c] # NULL /\ T' = [T EXCEPT ![c] = NULL]
      BY <1>1, <1>6, <2>3 DEF Table!Next, Table!Clear, Table!Active
    <2>4. CASE T[c] # NULL /\ T' = [T EXCEPT ![c].start = now]
      BY <1>1, <1>6, <2>4 DEF Table!Next, Table!Restart, Table!Active
    <2>5. CASE T' = T
      BY <1>1, <1>6, <2>5 DEF Table!vars
    <2> QED
      BY <2>1, <2>2, <2>3, <2>4, <2>5
  <1>7. CASE Tick
    <2>1. now' = now + 1 /\ UNCHANGED <<heap, timer_table, pc, timer>>
      BY <1>7 DEF Tick
    <2>2. Timers' = Timers
      BY <1>1, <2>1
    <2>3. Running' = Running
      BY <2>1 DEF Running
    <2> QED
      BY <2>1, <2>2, <2>3 DEF Table!Next, Table!Tick
  <1>8. ASSUME NEW c \in Callbacks, MainCall(c)
        PROVE  [Table!Next]_(Table!vars)
    <2>1. Call(MainOps, c) /\ now' = now /\ pc = "main" /\ pc' = "main" /\ "reset" \notin MainOps
      BY <1>8 DEF MainCall, Exact
    <2>2. Running = NULL /\ Running' = NULL /\ NULL # c
      BY <2>1, TimerAssumption DEF Running
    <2> QED
      BY <1>6, <2>1, <2>2
  <1>9. ASSUME NEW c \in Callbacks, CallbackCall(c)
        PROVE  [Table!Next]_(Table!vars)
    <2>1. pc = "callback" /\ pc' = "callback" /\ timer' = timer /\ now' = now /\ heap[timer].live
      BY <1>9 DEF CallbackCall, PassInv
    <2>2. /\ timer \in Addr /\ heap[timer].callback # c
          /\ "reset" \notin AllowedOps(c) /\ Call(AllowedOps(c), c)
      BY <1>9, <2>1, CarefulCall
    <2>3. OthersSame(heap', heap, c)
      <3>1. now \in 0 .. MaxNow /\ HistoryOK
        BY DEF IInv, TypeOK, HistoryOK
      <3> QED
        BY <1>2, <2>2, <3>1, CallEffects
    <2>4. heap'[timer].callback = heap[timer].callback
      BY <2>1, <2>2, <2>3 DEF OthersSame, SameTimer
    <2>5. Running = heap[timer].callback /\ Running' = Running
      BY <2>1, <2>4 DEF Running
    <2> QED
      BY <1>6, <2>1, <2>2, <2>5
  <1>10. CASE PeriodicStart
    <2>1. UNCHANGED <<heap, timer_table, now>> /\ Running' = Running
      BY <1>10 DEF PeriodicStart, Running
    <2> QED
      BY <1>5, <2>1
  <1>11. CASE PeriodicEnd
    <2>1. UNCHANGED <<heap, timer_table, now>> /\ Running' = Running
      BY <1>11 DEF PeriodicEnd, Running
    <2> QED
      BY <1>5, <2>1
  <1>12. CASE PeriodicVisit
    <2>1. /\ timer \in Addr /\ heap[timer].live
          /\ UNCHANGED <<heap, timer_table, now, since>>
          /\ \/ /\ pc' = "callback" /\ timer' = timer
                /\ heap[timer].start + heap[timer].interval <= now
             \/ pc' = "loop"
      BY <1>12, FiringEffect
    <2>2. Running = NULL
      BY <1>4, <1>12 DEF PeriodicVisit
    <2>3. CASE pc' = "loop"
      <3>1. Running' = NULL
        BY <2>3 DEF Running
      <3> QED
        BY <1>5, <2>1, <2>2, <3>1
    <2>4. CASE pc' = "callback"
      <3> DEFINE c == heap[timer].callback
      <3>1. T[c] = [start |-> heap[timer].start, interval |-> heap[timer].interval]
        BY <1>2, <2>1, TableEntries
      <3>2. /\ c \in Callbacks /\ now \in Nat
            /\ heap[timer].start \in Nat /\ heap[timer].interval \in Nat
        BY <2>1, LiveFields DEF IInv, TypeOK
      <3>3. heap[timer].start + heap[timer].interval <= now /\ timer' = timer
        BY <2>1, <2>4
      <3>4. T[c] # NULL
        BY <3>1, <3>2 DEF TimerRecord
      <3>5. now - T[c].start >= T[c].interval
        BY <3>1, <3>2, <3>3
      <3>6. Running' = c
        BY <2>1, <2>4, <3>3 DEF Running
      <3>7. T' = T /\ now' = now
        BY <2>1
      <3> HIDE DEF T, c
      <3>8. Table!Fire(c)
        BY <1>1, <2>2, <3>2, <3>4, <3>5, <3>6, <3>7 DEF Table!Fire, Table!Active
      <3> QED
        BY <3>2, <3>8 DEF Table!Next
    <2> QED
      BY <2>1, <2>3, <2>4
  \* Both ways in which a callback returns.
  <1>13. ASSUME NEW again \in BOOLEAN, timer \in Addr, heap[timer].live, pc = "callback",
                pc' = "loop", now' = now, ListInv(heap', timer_table'),
                \A x \in Addr \ {timer} : SameTimer(heap', heap, x),
                again => /\ heap'[timer].live /\ heap'[timer].callback = heap[timer].callback
                         /\ heap'[timer].interval = heap[timer].interval
                         /\ heap'[timer].start = heap[timer].start + heap[timer].interval,
                ~ again => ~ heap'[timer].live
         PROVE  Table!Next
    <2> DEFINE c == heap[timer].callback
               U == TimersIn(heap', timer_table')
    <2>1. c \in Callbacks /\ Running = c /\ c # NULL /\ Running' = NULL
      BY <1>13, LiveFields, TimerAssumption DEF Running
    <2>2. OthersSame(heap', heap, c)
      BY <1>13 DEF OthersSame
    <2>3. U = [T EXCEPT ![c] = U[c]]
      <3>1. /\ ListInv(heap, timer_table) /\ ListInv(heap', timer_table')
            /\ OthersSame(heap', heap, c) /\ c \in Callbacks
        BY <1>2, <1>13, <2>1, <2>2
      <3> QED
        BY ONLY <3>1, StepTable
    <2>4. T[c] = [start |-> heap[timer].start, interval |-> heap[timer].interval]
      BY <1>2, <1>13, TableEntries
    <2>5. U[c] = IF again THEN [start    |-> T[c].start + T[c].interval,
                                interval |-> T[c].interval]
                 ELSE NULL
      <3>1. CASE again
        BY <1>13, <2>4, <3>1, TableEntries
      <3>2. CASE ~ again
        <4>1. \A x \in Addr : heap'[x].live => heap'[x].callback # c
          BY <1>13, <3>2 DEF SameTimer, IInv, ListInv, NodesInv
        <4>2. U[c] = NULL
          BY <1>13, <2>1, <4>1, TableEntries
        <4> QED
          BY <3>2, <4>2
      <3> QED
        BY <3>1, <3>2
    <2>6. T' = U
      OBVIOUS
    <2> HIDE DEF T, U, c
    <2>7. Table!Return(again)
      BY <1>1, <1>13, <2>1, <2>3, <2>5, <2>6 DEF Table!Return
    <2> QED
      BY <1>13, <2>7 DEF Table!Next
  <1>14. CASE CallbackAgain
    <2>1. /\ timer \in Addr /\ heap[timer].live
          /\ heap'[timer].live /\ heap'[timer].callback = heap[timer].callback
          /\ heap'[timer].interval = heap[timer].interval
          /\ heap'[timer].start = heap[timer].start + heap[timer].interval
          /\ \A x \in Addr \ {timer} : SameTimer(heap', heap, x)
          /\ pc' = "loop" /\ now' = now
      BY <1>14, AgainEffect DEF SameTimer
    <2>2. ListInv(heap', timer_table') /\ pc = "callback"
      BY <1>14, AgainKeeps DEF CallbackAgain
    <2> QED
      BY <1>13, <2>1, <2>2
  <1>15. CASE CallbackDone
    <2>1. /\ timer \in Addr /\ heap[timer].live /\ ~ heap'[timer].live
          /\ \A x \in Addr \ {timer} : SameTimer(heap', heap, x)
          /\ pc' = "loop" /\ now' = now
      BY <1>15, DoneEffect
    <2>2. ListInv(heap', timer_table') /\ pc = "callback"
      BY <1>15, DoneKeeps DEF CallbackDone
    <2> QED
      BY <1>13, <2>1, <2>2
  <1>16. CASE UNCHANGED vars
    <2>1. UNCHANGED <<heap, timer_table, now>> /\ Running' = Running
      BY <1>16 DEF vars, Running
    <2> QED
      BY <1>5, <2>1
  <1> QED
    BY <1>7, <1>8, <1>9, <1>10, <1>11, <1>12, <1>14, <1>15, <1>16 DEF Next, TimerPeriodic

\* Used so, the list with its passes is the table of timers that timer.h promises
\* (timer.h:97).
THEOREM ListImplementsTable ==
    ASSUME Exact, NULL \notin TimerRecord
    PROVE  Spec => Refinement
  <1>1. {"set", "clear"} \cap CallbackOps \subseteq CarefulOps
    BY DEF Exact
  <1>2. Init => IInv /\ PassInv /\ SchedInv
    <2>1. Init => \A x \in Addr : ~ heap[x].live
      BY DEF Init, FreeNode
    <2>2. Init => SchedInv
      BY <2>1 DEF SchedInv
    <2> QED
      BY <2>2, InitHolds DEF Init, PassInv
  <1>3. IInv /\ PassInv /\ SchedInv /\ [Next]_vars => IInv' /\ PassInv' /\ SchedInv'
    BY <1>1, StepKeeps, PassKeeps, ScheduleKept
  <1>4. Init => Table!Init
    <2> SUFFICES ASSUME Init PROVE Table!Init
      OBVIOUS
    <2>1. ListInv(heap, timer_table)
      BY InitHolds DEF IInv
    <2>2. \A x \in Addr : ~ heap[x].live
      BY DEF Init, FreeNode
    <2>3. \A c \in Callbacks : TimersIn(heap, timer_table)[c] = NULL
      BY <2>1, <2>2, TableEntries
    <2>4. TimersIn(heap, timer_table) = [c \in Callbacks |-> TimersIn(heap, timer_table)[c]]
      BY DEF TimersIn
    <2>5. Timers = [c \in Callbacks |-> NULL]
      BY <2>3, <2>4, TableIsList
    <2>6. Running = NULL /\ now = 0
      BY DEF Init, Running
    <2> QED
      BY <2>5, <2>6 DEF Table!Init
  <1>5. IInv /\ PassInv /\ SchedInv /\ [Next]_vars => [Table!Next]_(Table!vars)
    BY StepRefines
  <1> QED
    BY <1>2, <1>3, <1>4, <1>5, PTL DEF Spec, Refinement, Table!Spec
----------------------------------------------------------------------------
\* The abstract table by itself, without a bound on time.
VARIABLES t_now, t_timers, t_running

Promise == INSTANCE TimerTable WITH now <- t_now, timers <- t_timers, running <- t_running

\* The timer of a running callback has expired; it stays so until the callback
\* returns, when its start moves on by an interval that has elapsed.
TableInv ==
    /\ t_now \in Nat
    /\ t_timers \in [Callbacks -> TimerRecord \cup {NULL}]
    /\ t_running \in Callbacks \cup {NULL}
    /\ t_running # NULL =>
          /\ t_running \in Promise!Active
          /\ t_timers[t_running].start + t_timers[t_running].interval <= t_now
    /\ Promise!StartNotInFuture

LEMMA TableStepKeeps ==
    ASSUME NULL \notin TimerRecord, TableInv, [Promise!Next]_(Promise!vars)
    PROVE  TableInv'
  <1> USE DEF TableInv, Promise!StartNotInFuture, Promise!Active, TimerRecord
  <1>0. Intervals \subseteq Nat /\ NULL \notin Callbacks
    BY TimerAssumption
  <1>1. CASE Promise!Tick
    BY <1>1 DEF Promise!Tick
  <1>2. ASSUME NEW c \in Callbacks, NEW i \in Intervals, Promise!Set(c, i)
        PROVE  TableInv'
    BY <1>0, <1>2 DEF Promise!Set
  <1>3. ASSUME NEW c \in Callbacks, Promise!Clear(c)
        PROVE  TableInv'
    BY <1>0, <1>3 DEF Promise!Clear
  <1>4. ASSUME NEW c \in Callbacks, Promise!Restart(c)
        PROVE  TableInv'
    BY <1>0, <1>4 DEF Promise!Restart
  <1>5. ASSUME NEW c \in Callbacks, Promise!Fire(c)
        PROVE  TableInv'
    BY <1>0, <1>5 DEF Promise!Fire
  <1>6. ASSUME NEW again \in BOOLEAN, Promise!Return(again)
        PROVE  TableInv'
    BY <1>0, <1>6 DEF Promise!Return
  <1>7. CASE UNCHANGED Promise!vars
    BY <1>7 DEF Promise!vars
  <1> QED
    BY <1>1, <1>2, <1>3, <1>4, <1>5, <1>6, <1>7 DEF Promise!Next

\* No timer of timer.h ever starts in the future: neither the catch-up of a
\* late timer nor a restart moves a start past the present (timer.c:121,
\* timer.c:180).
THEOREM StartsPast ==
    ASSUME NULL \notin TimerRecord
    PROVE  Promise!Spec => []Promise!StartNotInFuture
  <1>1. Promise!Init => TableInv
    BY DEF Promise!Init, TableInv, Promise!StartNotInFuture, Promise!Active
  <1>2. TableInv /\ [Promise!Next]_(Promise!vars) => TableInv'
    BY TableStepKeeps
  <1>3. TableInv => Promise!StartNotInFuture
    BY DEF TableInv
  <1> QED
    BY <1>1, <1>2, <1>3, PTL DEF Promise!Spec
============================================================================
