--------------------------- MODULE PcmRequestProofs ---------------------------
(***************************************************************************)
(* The control requests of the PCM bridge, for any scenes, backlogs and      *)
(* schedules.  A request is in the listen backlog, in the pending slot,     *)
(* being served, or answered; every step of the HTTP thread moves it on and *)
(* none lets go of it.  What is counted is a parameter, a set of            *)
(* connections: those whose request has come in (Ready), for any server,    *)
(* and all that are still coming (Coming), for a server that does not       *)
(* abandon its own requests.                                                *)
(***************************************************************************)
EXTENDS PcmBridgeProofs, FiniteSetTheorems

USE RingAssumption, StreamAssumption, RelayAssumption
    DEF RingAssumption, StreamAssumption, RelayAssumption

-----------------------------------------------------------------------------
(* How many elements of a sequence are in a set.                            *)

Spots(s, K) == {i \in 1 .. Len(s) : s[i] \in K}
CountIn(s, K) == Cardinality(Spots(s, K))
Bit(c, K) == IF c \in K THEN 1 ELSE 0

LEMMA SpotsFinite ==
  ASSUME NEW n, n \in Nat, NEW S, S \subseteq 1 .. n
  PROVE  IsFiniteSet(S) /\ Cardinality(S) \in Nat
<1>1. IsFiniteSet(1 .. n)
  BY FS_Interval
<1>2. IsFiniteSet(S)
  BY <1>1, FS_Subset
<1> QED
  BY <1>2, FS_CardinalityType

LEMMA CountType ==
  ASSUME NEW T, NEW s \in Seq(T), NEW K
  PROVE  IsFiniteSet(Spots(s, K)) /\ CountIn(s, K) \in Nat
<1>1. Len(s) \in Nat /\ Spots(s, K) \subseteq 1 .. Len(s)
  BY DEF Spots
<1>2. IsFiniteSet(Spots(s, K)) /\ Cardinality(Spots(s, K)) \in Nat
  BY <1>1, SpotsFinite
<1> QED
  BY <1>2 DEF CountIn

\* One more element at the end of a range.
LEMMA CountNext ==
  ASSUME NEW n, n \in Nat, NEW S, S \subseteq 1 .. n
  PROVE  Cardinality(S \cup {n + 1}) = Cardinality(S) + 1
<1>1. IsFiniteSet(S)
  BY SpotsFinite
<1>2. n + 1 \notin S
  OBVIOUS
<1> QED
  BY <1>1, <1>2, FS_AddElement

LEMMA CountAppend ==
  ASSUME NEW T, NEW s \in Seq(T), NEW c \in T, NEW K
  PROVE  CountIn(Append(s, c), K) = CountIn(s, K) + Bit(c, K)
<1> DEFINE n == Len(s)
           a == Append(s, c)
<1>1. /\ n \in Nat /\ Len(a) = n + 1 /\ a[n + 1] = c
      /\ \A i \in 1 .. n : a[i] = s[i]
  OBVIOUS
<1>2. Spots(s, K) \subseteq 1 .. n /\ n \in Nat
  BY <1>1 DEF Spots
<1> HIDE DEF a, n
<1>3. Spots(a, K) = Spots(s, K) \cup (IF c \in K THEN {n + 1} ELSE {})
  <2>1. 1 .. (n + 1) = (1 .. n) \cup {n + 1}
    BY <1>1
  <2>2. Spots(a, K) = {i \in 1 .. (n + 1) : a[i] \in K}
    BY <1>1 DEF Spots
  <2>3. Spots(s, K) = {i \in 1 .. n : a[i] \in K}
    BY <1>1 DEF Spots, n
  <2> QED
    BY <1>1, <2>1, <2>2, <2>3
<1>4. Cardinality(Spots(s, K) \cup {n + 1}) = Cardinality(Spots(s, K)) + 1
  BY <1>2, CountNext
<1>5. Cardinality(Spots(s, K)) \in Nat
  BY <1>2, SpotsFinite
<1>6. Cardinality(Spots(a, K)) = Cardinality(Spots(s, K)) + Bit(c, K)
  <2>1. CASE c \in K
    BY <1>3, <1>4, <2>1 DEF Bit
  <2>2. CASE c \notin K
    <3>1. Spots(a, K) = Spots(s, K)
      BY <1>3, <2>2
    <3> QED
      BY <1>5, <2>2, <3>1 DEF Bit
  <2> QED
    BY <2>1, <2>2
<1> QED
  BY <1>6 DEF CountIn, a

\* The first element leaves.
LEMMA CountTail ==
  ASSUME NEW T, NEW s \in Seq(T), s # <<>>, NEW K
  PROVE  CountIn(s, K) = CountIn(Tail(s), K) + Bit(Head(s), K)
<1> DEFINE n == Len(s)
           t == Tail(s)
           A == Spots(s, K)
           B == Spots(t, K)
           C == A \ {1}
           f == [i \in B |-> i + 1]
<1>1. /\ n \in Nat /\ n > 0 /\ t \in Seq(T) /\ Len(t) = n - 1 /\ Head(s) = s[1]
      /\ \A i \in 1 .. (n - 1) : t[i] = s[i + 1]
  OBVIOUS
<1>2. A = {i \in 1 .. n : s[i] \in K} /\ B = {i \in 1 .. (n - 1) : s[i + 1] \in K}
  BY <1>1 DEF Spots
<1>3. IsFiniteSet(A) /\ IsFiniteSet(B) /\ Cardinality(B) \in Nat /\ Cardinality(A) \in Nat
  BY <1>1, CountType DEF CountIn
<1> HIDE DEF A, B, n, t
<1>4. f \in Bijection(B, C)
  <2>1. \A i \in B : i + 1 \in C
    BY <1>1, <1>2
  <2>2. \A i, j \in B : i + 1 = j + 1 => i = j
    BY <1>1, <1>2
  <2>3. \A k \in C : k - 1 \in B /\ (k - 1) + 1 = k
    BY <1>1, <1>2
  <2> HIDE DEF C
  <2>4. f \in [B -> C] /\ \A i \in B : f[i] = i + 1
    BY <2>1
  <2> HIDE DEF f
  <2>5. f \in Injection(B, C)
    BY <2>2, <2>4 DEF Injection, IsInjective
  <2>6. \A k \in C : \E i \in B : f[i] = k
    BY <2>3, <2>4
  <2> QED
    BY <2>4, <2>5, <2>6 DEF Bijection, Surjection
<1>5. Cardinality(C) = Cardinality(B)
  <2>1. ExistsBijection(B, C)
    BY <1>4 DEF ExistsBijection
  <2> QED
    BY <1>3, <2>1, FS_Bijection
<1>7. /\ 1 \in A => Cardinality(C) = Cardinality(A) - 1
      /\ 1 \notin A => C = A
  <2>1. Cardinality(A \ {1}) = IF 1 \in A THEN Cardinality(A) - 1 ELSE Cardinality(A)
    BY <1>3, FS_RemoveElement
  <2> QED
    BY <2>1
<1> HIDE DEF C
<1>6. Cardinality(A) = Cardinality(C) + Bit(s[1], K)
  <2>1. CASE 1 \in A
    <3>1. Cardinality(C) = Cardinality(A) - 1
      BY <1>7, <2>1
    <3>2. Bit(s[1], K) = 1
      BY <1>1, <1>2, <2>1 DEF Bit
    <3> QED
      BY <1>3, <3>1, <3>2
  <2>2. CASE 1 \notin A
    <3>1. C = A /\ Bit(s[1], K) = 0
      BY <1>1, <1>2, <1>7, <2>2 DEF Bit
    <3> QED
      BY <1>3, <3>1
  <2> QED
    BY <2>1, <2>2
<1> QED
  BY <1>1, <1>5, <1>6 DEF CountIn, A, B, t

\* One element changes in place.
LEMMA CountReplace ==
  ASSUME NEW T, NEW s \in Seq(T), NEW i \in DOMAIN s, NEW d \in T, NEW K,
         NEW u, u = [s EXCEPT ![i] = d], s[i] \in K => d \in K
  PROVE  CountIn(u, K) >= CountIn(s, K)
<1>1. /\ u \in Seq(T) /\ Len(u) = Len(s) /\ DOMAIN s = 1 .. Len(s) /\ u[i] = d
      /\ \A j \in 1 .. Len(s) : j # i => u[j] = s[j]
  OBVIOUS
<1>2. Spots(s, K) \subseteq Spots(u, K)
  BY <1>1 DEF Spots
<1>3. IsFiniteSet(Spots(u, K)) /\ CountIn(u, K) \in Nat /\ CountIn(s, K) \in Nat
  BY <1>1, CountType
<1> QED
  BY <1>2, <1>3, FS_Subset DEF CountIn

-----------------------------------------------------------------------------
(* The connections that count.                                              *)

\* The request has come in.
Ready == {c \in Conns : c.kind \in Controls /\ c.head \in {"sent", "read"}}

\* It has, or it will.
Coming == {c \in Conns : c.kind \in Controls /\ c.head \in {"silent", "sent", "read"}}

\* A look at the socket does not change what counts, and what is served counts.
Countable(K) ==
  \A c \in Conns :
    /\ TryRead(c) \in K <=> c \in K
    /\ IsControl(c) => c \in K
    /\ c \in K => IsControl(TryRead(c)) \/ Waits(c)
    /\ c = NoConn \/ IsStream(c) => c \notin K

LEMMA ReadConn ==
  ASSUME NEW c \in Conns
  PROVE  /\ TryRead(c) \in Conns /\ NoConn \in Conns
         /\ TryRead(TryRead(c)) = TryRead(c)
         /\ TryRead(NoConn) = NoConn
         /\ ~IsControl(NoConn) /\ ~IsStream(NoConn)
         /\ Waits(TryRead(c)) => TryRead(c) = c
<1>1. TryRead(c) \in Conns /\ NoConn \in Conns
  BY ConnTypes DEF Conns
<1>2. NoConn.head = "none"
  BY DEF NoConn
<1>3. TryRead(NoConn) = NoConn /\ ~IsControl(NoConn) /\ ~IsStream(NoConn)
  BY <1>2 DEF TryRead, IsControl, IsStream
<1>4. CASE c.head = "sent"
  <2>1. c # NoConn
    BY <1>2, <1>4
  <2>2. TryRead(c).head = "read"
    BY <1>4, <2>1 DEF TryRead, Conns
  <2> QED
    BY <1>1, <1>3, <2>2 DEF TryRead, Waits
<1>5. CASE c.head = "gone"
  <2>1. TryRead(c) = NoConn
    BY <1>5 DEF TryRead
  <2> QED
    BY <1>1, <1>2, <1>3, <2>1 DEF Waits
<1>6. CASE c.head \notin {"sent", "gone"}
  <2>1. TryRead(c) = c
    BY <1>6 DEF TryRead
  <2> QED
    BY <1>1, <1>3, <2>1
<1> QED
  BY <1>4, <1>5, <1>6

LEMMA SetsCountable == Countable(Ready) /\ Countable(Coming)
<1> SUFFICES ASSUME NEW c \in Conns, NEW K \in {Ready, Coming}
             PROVE  /\ TryRead(c) \in K <=> c \in K
                    /\ IsControl(c) => c \in K
                    /\ c \in K => IsControl(TryRead(c)) \/ Waits(c)
                    /\ c = NoConn \/ IsStream(c) => c \notin K
  BY DEF Countable
<1>1. NoConn.head = "none" /\ NoConn.kind = "none" /\ "none" \notin Controls
      /\ "get" \notin Controls
  BY DEF NoConn, Controls
<1>2. \A d \in Conns : d \in K => d.kind \in Controls /\ d.head \in {"silent", "sent", "read"}
  BY DEF Ready, Coming
<1>3. \A d \in Conns : d.kind \in Controls /\ d.head \in {"sent", "read"} => d \in K
  BY DEF Ready, Coming
<1>4. TryRead(c) \in Conns
  BY ReadConn
<1>5. CASE c.head = "sent"
  <2>1. c # NoConn
    BY <1>1, <1>5
  <2>2. TryRead(c).head = "read" /\ TryRead(c).kind = c.kind
    BY <1>5, <2>1 DEF TryRead, Conns
  <2> QED
    BY <1>1, <1>2, <1>3, <1>4, <1>5, <2>2 DEF IsControl, IsStream
<1>6. CASE c.head = "gone"
  <2>1. TryRead(c) = NoConn
    BY <1>6 DEF TryRead
  <2> QED
    BY <1>1, <1>2, <1>4, <1>6, <2>1 DEF IsControl, IsStream
<1>7. CASE c.head \notin {"sent", "gone"}
  <2>1. TryRead(c) = c
    BY <1>7 DEF TryRead
  <2> QED
    BY <1>1, <1>2, <1>3, <1>7, <2>1 DEF IsControl, IsStream, Waits
<1> QED
  BY <1>5, <1>6, <1>7

-----------------------------------------------------------------------------
(* The balance of the pending slot.                                         *)

LEMMA BitType ==
  ASSUME NEW c, NEW K
  PROVE  Bit(c, K) \in Nat
BY DEF Bit

\* A connection that is accepted, and the one that was in the slot, are kept or
\* served; what is closed does not count.
LEMMA AcceptBalance ==
  ASSUME slot \in Conns, NEW c \in Conns, NEW K, Countable(K), ~(slot \in K /\ Waits(slot))
  PROVE  /\ Accepted(c).serve \in Seq(Conns)
         /\ Accepted(c).slot \in {NoConn, slot, TryRead(slot), c, TryRead(c)}
         /\ Bit(Accepted(c).slot, K) + Len(Accepted(c).serve) = Bit(slot, K) + Bit(c, K)
<1> DEFINE new == TryRead(c)
           old == TryRead(slot)
<1>1. new \in Conns /\ old \in Conns
  BY ReadConn
<1>2. Bit(new, K) = Bit(c, K) /\ Bit(old, K) = Bit(slot, K) /\ Bit(NoConn, K) = 0
  <2>1. NoConn \in Conns
    BY ReadConn
  <2> QED
    BY <2>1 DEF Countable, Bit
<1>3. IsControl(new) => Bit(c, K) = 1
  BY <1>1, <1>2 DEF Countable, Bit
<1>4. Bit(slot, K) = IF IsControl(old) THEN 1 ELSE 0
  BY <1>1, <1>2 DEF Countable, Bit
<1>5. Bit(c, K) \in Nat /\ Bit(slot, K) \in Nat
  BY BitType
<1> HIDE DEF new, old
<1>6. CASE slot = NoConn
  <2>1. Accepted(c) = [slot |-> c, serve |-> <<>>]
    BY <1>6 DEF Accepted
  <2> QED
    BY <1>2, <1>5, <1>6, <2>1
<1>7. CASE slot # NoConn /\ new = NoConn
  <2>1. Accepted(c) = [slot |-> slot, serve |-> <<>>]
    BY <1>7 DEF Accepted, new
  <2>2. Bit(c, K) = 0
    BY <1>2, <1>7
  <2> QED
    BY <1>5, <2>1, <2>2
<1>8. CASE slot # NoConn /\ new # NoConn /\ IsControl(new) /\ IsControl(old)
  <2>1. Accepted(c) = [slot |-> NoConn, serve |-> <<old, new>>]
    BY <1>8 DEF Accepted, new, old
  <2>2. <<old, new>> \in Seq(Conns) /\ Len(<<old, new>>) = 2
    BY <1>1
  <2> QED
    BY <1>2, <1>3, <1>4, <1>8, <2>1, <2>2
<1>9. CASE slot # NoConn /\ new # NoConn /\ IsControl(new) /\ ~IsControl(old)
  <2>1. Accepted(c) = [slot |-> old, serve |-> <<new>>]
    BY <1>9 DEF Accepted, new, old
  <2>2. <<new>> \in Seq(Conns) /\ Len(<<new>>) = 1
    BY <1>1
  <2>3. old \in {NoConn, slot, TryRead(slot), c, TryRead(c)}
    BY DEF old
  <2> QED
    BY <1>2, <1>3, <1>4, <1>9, <2>1, <2>2, <2>3
<1>10. CASE slot # NoConn /\ new # NoConn /\ ~IsControl(new)
  <2> DEFINE t == IF IsControl(old) THEN <<old>> ELSE <<>>
  <2>1. Accepted(c) = [slot |-> new, serve |-> t]
    BY <1>10 DEF Accepted, new, old
  <2>2. t \in Seq(Conns) /\ Len(t) = Bit(slot, K)
    BY <1>1, <1>4
  <2>3. new \in {NoConn, slot, TryRead(slot), c, TryRead(c)}
    BY DEF new
  <2> HIDE DEF t
  <2> QED
    BY <1>2, <1>5, <2>1, <2>2, <2>3
<1> QED
  BY <1>6, <1>7, <1>8, <1>9, <1>10

\* A request that is settled goes from the slot to those being served.
LEMMA SettleBalance ==
  ASSUME NEW c \in Conns, NEW serve \in Seq(Conns), NEW kinds, NEW K, Countable(K),
         Settled(c, serve, kinds)
  PROVE  /\ todo' \in Seq(Conns) /\ slot' \in {c, NoConn}
         /\ Bit(slot', K) + Len(todo') = Bit(c, K) + Len(serve)
<1>1. CASE IsControl(c) /\ c.kind \in kinds
  <2>1. slot' = NoConn /\ todo' = Append(serve, c)
    BY <1>1 DEF Settled
  <2>2. Append(serve, c) \in Seq(Conns) /\ Len(Append(serve, c)) = Len(serve) + 1
        /\ Len(serve) \in Nat
    OBVIOUS
  <2>3. Bit(c, K) = 1 /\ Bit(NoConn, K) = 0
    BY <1>1, ReadConn DEF Countable, Bit
  <2> QED
    BY <2>1, <2>2, <2>3
<1>2. CASE ~(IsControl(c) /\ c.kind \in kinds)
  BY <1>2 DEF Settled
<1> QED
  BY <1>1, <1>2

-----------------------------------------------------------------------------
(* The load: what was sent and is on its way, being served or answered.     *)

LoadOf(l, s, t, a, K) == CountIn(l, K) + Bit(s, K) + Len(t) + a
Load(K) == LoadOf(listen, slot, todo, answered, K)

ServeInv ==
  /\ todo \in Seq(Conns) /\ answered \in Nat
  /\ pc = "attach" => IsStream(slot)

\* A request that is awaited in the slot has no newcomer and no timeout to fear.
Owing(K) == slot \in K /\ Waits(slot) => listen = <<>> /\ "head" \notin scene.may

\* Where the slot and the backlog go in a step of the HTTP thread.
ConnMove ==
  \/ listen' = listen /\ slot' \in {NoConn, slot, TryRead(slot)}
  \/ /\ listen # <<>> /\ listen' = Tail(listen)
     /\ slot' \in {NoConn, slot, TryRead(slot), Head(listen), TryRead(Head(listen))}

Moves(K) ==
  /\ ServeInv' /\ ConnMove /\ posted' = posted
  /\ LoadOf(listen', slot', todo', answered', K) = Load(K)

LEMMA LoadType ==
  ASSUME RelayTypes, ServeInv, NEW K
  PROVE  /\ CountIn(listen, K) \in Nat /\ Bit(slot, K) \in Nat /\ Len(todo) \in Nat
         /\ answered \in Nat /\ Load(K) \in Nat
<1>1. CountIn(listen, K) \in Nat
  BY CountType DEF RelayTypes
<1>2. Len(todo) \in Nat /\ answered \in Nat
  BY DEF ServeInv
<1> QED
  BY <1>1, <1>2, BitType DEF Load, LoadOf

\* Slot, backlog and service stay as they are.
LEMMA Still ==
  ASSUME ServeInv, NEW K, UNCHANGED <<slot, listen, todo, answered, posted>>,
         pc' = "attach" => pc = "attach"
  PROVE  Moves(K)
BY DEF Moves, ServeInv, ConnMove, Load

\* The first request is answered.
LEMMA Answers ==
  ASSUME RelayTypes, ServeInv, NEW K, todo # <<>>, Replies,
         UNCHANGED <<slot, listen, pc, posted>>
  PROVE  Moves(K)
<1>1. /\ todo' = Tail(todo) /\ answered' = answered + 1
      /\ todo' \in Seq(Conns) /\ Len(todo') = Len(todo) - 1 /\ Len(todo) \in Nat
  BY DEF Replies, ServeInv
<1>2. CountIn(listen, K) \in Nat /\ Bit(slot, K) \in Nat /\ answered \in Nat
  BY LoadType
<1>3. LoadOf(listen', slot', todo', answered', K) = Load(K)
  <2>1. LoadOf(listen', slot', todo', answered', K)
          = CountIn(listen, K) + Bit(slot, K) + Len(todo') + answered'
    BY DEF LoadOf
  <2> QED
    BY <1>1, <1>2, <2>1 DEF Load, LoadOf
<1>4. ServeInv' /\ ConnMove
  BY <1>1, <1>2 DEF ServeInv, ConnMove
<1> QED
  BY <1>3, <1>4 DEF Moves

\* The slot is read, and settled if its request is complete.
LEMMA SlotSettles ==
  ASSUME RelayTypes, ServeInv, NEW K, Countable(K), todo = <<>>,
         NEW kinds, Settled(TryRead(slot), <<>>, kinds),
         UNCHANGED <<listen, answered, posted>>, pc' # "attach"
  PROVE  Moves(K)
<1>1. slot \in Conns /\ TryRead(slot) \in Conns /\ <<>> \in Seq(Conns) /\ Len(<<>>) = 0
  BY ReadConn DEF RelayTypes
<1>2. /\ todo' \in Seq(Conns) /\ slot' \in {TryRead(slot), NoConn}
      /\ Bit(slot', K) + Len(todo') = Bit(TryRead(slot), K) + Len(<<>>)
  BY <1>1, SettleBalance
<1>3. Bit(TryRead(slot), K) = Bit(slot, K)
  BY <1>1 DEF Countable, Bit
<1>4. /\ CountIn(listen, K) \in Nat /\ Bit(slot, K) \in Nat /\ answered \in Nat
      /\ Bit(slot', K) \in Nat /\ Len(todo') \in Nat
  BY <1>2, LoadType, BitType
<1>5. LoadOf(listen', slot', todo', answered', K) = Load(K)
  <2>1. LoadOf(listen', slot', todo', answered', K)
          = CountIn(listen, K) + Bit(slot', K) + Len(todo') + answered
    BY DEF LoadOf
  <2>2. Load(K) = CountIn(listen, K) + Bit(slot, K) + 0 + answered
    BY <1>1 DEF Load, LoadOf
  <2> QED
    BY <1>1, <1>2, <1>3, <1>4, <2>1, <2>2
<1>6. ServeInv' /\ ConnMove
  BY <1>2, <1>4 DEF ServeInv, ConnMove
<1> QED
  BY <1>5, <1>6 DEF Moves

\* The head of the backlog comes in: what it and the slot held is in the slot or
\* being served afterwards.
LEMMA HeadComesIn ==
  ASSUME RelayTypes, ServeInv, NEW K, todo = <<>>, listen # <<>>,
         listen' = Tail(listen), UNCHANGED <<answered, posted>>, pc' # "attach",
         todo' \in Seq(Conns),
         slot' \in {NoConn, slot, TryRead(slot), Head(listen), TryRead(Head(listen))},
         Bit(slot', K) + Len(todo') = Bit(slot, K) + Bit(Head(listen), K)
  PROVE  Moves(K)
<1>1. CountIn(listen, K) = CountIn(Tail(listen), K) + Bit(Head(listen), K)
  BY CountTail DEF RelayTypes
<1>2. /\ CountIn(listen, K) \in Nat /\ Bit(slot, K) \in Nat /\ answered \in Nat
      /\ Bit(slot', K) \in Nat /\ Len(todo') \in Nat /\ Bit(Head(listen), K) \in Nat
  BY LoadType, BitType
<1>3. CountIn(Tail(listen), K) \in Nat
  <2>1. Tail(listen) \in Seq(Conns)
    BY BacklogTypes DEF RelayTypes
  <2> QED
    BY <2>1, CountType
<1>4. LoadOf(listen', slot', todo', answered', K) = Load(K)
  <2>1. LoadOf(listen', slot', todo', answered', K)
          = CountIn(Tail(listen), K) + Bit(slot', K) + Len(todo') + answered
    BY DEF LoadOf
  <2>2. Load(K) = CountIn(listen, K) + Bit(slot, K) + 0 + answered
    BY DEF Load, LoadOf
  <2>3. PICK rest \in Nat, first \in Nat, old \in Nat, new \in Nat, n \in Nat, done0 \in Nat :
          /\ rest = CountIn(Tail(listen), K) /\ first = Bit(Head(listen), K)
          /\ old = Bit(slot, K) /\ new = Bit(slot', K) /\ n = Len(todo') /\ done0 = answered
    BY <1>2, <1>3
  <2>4. new + n = old + first /\ CountIn(listen, K) = rest + first
    BY <1>1, <2>3
  <2>5. /\ LoadOf(listen', slot', todo', answered', K) = rest + new + n + done0
        /\ Load(K) = (rest + first) + old + 0 + done0
    BY <2>1, <2>2, <2>3, <2>4
  <2>6. rest + new + n + done0 = (rest + first) + old + 0 + done0
    BY <2>4
  <2> QED
    BY <2>5, <2>6
<1>5. ServeInv' /\ ConnMove
  BY <1>2 DEF ServeInv, ConnMove
<1> QED
  BY <1>4, <1>5 DEF Moves

-----------------------------------------------------------------------------
(* The steps of the HTTP thread.                                            *)

LEMMA ServeLoad ==
  ASSUME BridgeInv, ServeInv, NEW K, Serve
  PROVE  Moves(K)
<1>0. RelayTypes /\ (half # "none" => todo # <<>>)
  BY DEF BridgeInv, MarkerInv
<1>1. CASE ServeBoundary \/ PlantBoundary \/ ServeArm
  BY <1>1, Still DEF ServeBoundary, PlantBoundary, ServeArm, connVars
<1>2. CASE ServeForeign \/ ServeLateArm \/ ServeRelease \/ ServeBrowseKeep \/ ServeSeekKeep
  <2>1. todo # <<>> /\ Replies /\ UNCHANGED <<slot, listen, pc, posted>>
    BY <1>2 DEF ServeForeign, ServeLateArm, ServeRelease, ServeBrowseKeep, ServeSeekKeep, Serving,
                connVars
  <2> QED
    BY <1>0, <2>1, Answers
<1>3. CASE MarkBoundary \/ RaiseArm
  <2>1. half # "none" /\ Replies /\ UNCHANGED <<slot, listen, pc, posted>>
    BY <1>3 DEF MarkBoundary, RaiseArm, connVars
  <2> QED
    BY <1>0, <2>1, Answers
<1> QED
  BY <1>1, <1>2, <1>3 DEF Serve

LEMMA LoopLoad ==
  ASSUME BridgeInv, ServeInv, NEW K, Countable(K), Owing(K), LoopStep
  PROVE  Moves(K)
<1>0. RelayTypes /\ slot \in Conns /\ NoConn \in Conns
  BY ReadConn DEF BridgeInv, RelayTypes
<1>p. ASSUME NEW to, todo = <<>>, PassBegins(to) PROVE Moves(K)
  BY <1>0, <1>p, SlotSettles DEF PassBegins
<1>g. ASSUME NEW p, p # "attach", Goto(p) PROVE Moves(K)
  BY <1>g, Still DEF Goto, connVars, serveVars
<1>h. ASSUME listen # <<>>, todo = <<>>
      PROVE  LET a == Accepted(Head(listen)) IN
             /\ Head(listen) \in Conns /\ a.serve \in Seq(Conns) /\ a.slot \in Conns
             /\ a.slot \in {NoConn, slot, TryRead(slot), Head(listen), TryRead(Head(listen))}
             /\ Bit(a.slot, K) + Len(a.serve) = Bit(slot, K) + Bit(Head(listen), K)
  <2>1. Head(listen) \in Conns /\ ~(slot \in K /\ Waits(slot))
    BY <1>0, <1>h, BacklogTypes DEF RelayTypes, Owing
  <2>2. Accepted(Head(listen)).slot \in Conns
    BY <1>0, <2>1, AcceptTypes
  <2> QED
    BY <1>0, <2>1, <2>2, AcceptBalance
<1>r. \A c \in Conns : Bit(TryRead(c), K) = Bit(c, K) /\ TryRead(TryRead(c)) = TryRead(c)
  BY ReadConn DEF Countable, Bit
<1>1. CASE Top
  BY <1>1, <1>p, <1>g DEF Top, At
<1>2. CASE PassAccepts
  <2> DEFINE a == Accepted(Head(listen))
             h == Head(listen)
  <2>1. /\ todo = <<>> /\ listen # <<>> /\ listen' = Tail(listen) /\ pc' # "attach"
        /\ Settled(TryRead(a.slot), a.serve, {"arm", "seekKeep"})
        /\ UNCHANGED <<answered, posted>>
    BY <1>2 DEF PassAccepts, At
  <2>2. /\ h \in Conns /\ a.serve \in Seq(Conns) /\ a.slot \in Conns
        /\ a.slot \in {NoConn, slot, TryRead(slot), h, TryRead(h)}
        /\ Bit(a.slot, K) + Len(a.serve) = Bit(slot, K) + Bit(h, K)
    BY <1>h, <2>1
  <2>3. TryRead(a.slot) \in Conns /\ Bit(TryRead(a.slot), K) = Bit(a.slot, K)
    BY <1>r, <2>2, ReadConn
  <2>4. TryRead(a.slot) \in {NoConn, slot, TryRead(slot), h, TryRead(h)}
    BY <1>0, <1>r, <2>2, ReadConn
  <2> HIDE DEF a, h
  <2>5. /\ todo' \in Seq(Conns) /\ slot' \in {TryRead(a.slot), NoConn}
        /\ Bit(slot', K) + Len(todo') = Bit(TryRead(a.slot), K) + Len(a.serve)
    BY <2>1, <2>2, <2>3, SettleBalance
  <2>6. /\ slot' \in {NoConn, slot, TryRead(slot), h, TryRead(h)}
        /\ Bit(slot', K) + Len(todo') = Bit(slot, K) + Bit(h, K)
    BY <2>2, <2>3, <2>4, <2>5
  <2> QED
    BY <1>0, <2>1, <2>5, <2>6, HeadComesIn DEF h
<1>3. CASE PassEnds
  BY <1>3, <1>g DEF PassEnds, BridgeInv, RelayTypes
<1>4. CASE KeepPass
  BY <1>4, <1>p, <1>g DEF KeepPass, At
<1>5. CASE KeepClear \/ CloseFlushed \/ Closed \/ Attached
  BY <1>5, Still DEF KeepClear, CloseFlushed, Closed, Attached, connVars, serveVars
<1>6. CASE Decide \/ DispatchNothing
  BY <1>6, <1>g DEF Decide, DispatchNothing
<1>7. CASE Poll
  <2>1. todo = <<>> /\ pc' # "attach" /\ UNCHANGED <<answered, posted>>
    BY <1>7 DEF Poll, At
  <2>2. CASE listen = <<>>
    <3>1. slot' = TryRead(slot) /\ UNCHANGED <<listen, todo>>
      BY <1>7, <2>2 DEF Poll
    <3>2. ServeInv' /\ ConnMove
      BY <2>1, <3>1 DEF ServeInv, ConnMove
    <3>3. LoadOf(listen', slot', todo', answered', K) = Load(K)
      <4>1. Bit(slot', K) = Bit(slot, K)
        BY <1>0, <1>r, <3>1
      <4> QED
        BY <2>1, <3>1, <4>1 DEF LoadOf, Load
    <3> QED
      BY <2>1, <3>2, <3>3 DEF Moves
  <2>3. CASE listen # <<>>
    <3> DEFINE a == Accepted(Head(listen))
               h == Head(listen)
    <3>1. /\ slot' = IF a.slot = slot THEN TryRead(slot) ELSE a.slot
          /\ todo' = a.serve /\ listen' = Tail(listen)
      BY <1>7, <2>3 DEF Poll
    <3>2. /\ h \in Conns /\ a.serve \in Seq(Conns) /\ a.slot \in Conns
          /\ a.slot \in {NoConn, slot, TryRead(slot), h, TryRead(h)}
          /\ Bit(a.slot, K) + Len(a.serve) = Bit(slot, K) + Bit(h, K)
      BY <1>h, <2>1, <2>3
    <3> HIDE DEF a, h
    <3>3. /\ slot' \in {NoConn, slot, TryRead(slot), h, TryRead(h)}
          /\ Bit(slot', K) = Bit(a.slot, K)
      BY <1>0, <1>r, <3>1, <3>2
    <3>4. Bit(slot', K) + Len(todo') = Bit(slot, K) + Bit(h, K) /\ todo' \in Seq(Conns)
      BY <3>1, <3>2, <3>3
    <3> QED
      BY <1>0, <2>1, <2>3, <3>1, <3>3, <3>4, HeadComesIn DEF h
  <2> QED
    BY <2>2, <2>3
<1>e. ASSUME slot \notin K, slot' = NoConn, UNCHANGED <<listen, todo, answered, posted>>,
             pc' # "attach"
      PROVE  Moves(K)
  <2>1. Bit(slot', K) = Bit(slot, K)
    BY <1>0, <1>e DEF Bit, Countable
  <2>2. ServeInv' /\ ConnMove
    BY <1>e DEF ServeInv, ConnMove
  <2> QED
    BY <1>e, <2>1, <2>2 DEF Moves, Load, LoadOf
<1>8. CASE HeadTimeout
  <2>1. /\ slot' = NoConn /\ UNCHANGED <<listen, todo, answered, posted, pc>>
        /\ Waits(slot) /\ "head" \in scene.may /\ pc # "attach"
    BY <1>8 DEF HeadTimeout, serveVars
  <2>2. slot \notin K
    BY <2>1 DEF Owing
  <2> QED
    BY <1>e, <2>1, <2>2
<1>9. CASE DispatchControl
  <2>1. /\ todo = <<>> /\ IsControl(slot) /\ slot' = NoConn /\ todo' = <<slot>>
        /\ pc' # "attach" /\ UNCHANGED <<listen, answered, posted>>
    BY <1>9 DEF DispatchControl, At
  <2>2. /\ Bit(slot, K) = 1 /\ Bit(slot', K) = 0
        /\ <<slot>> \in Seq(Conns) /\ Len(<<slot>>) = 1 /\ Len(<<>>) = 0
    BY <1>0, <2>1 DEF Countable, Bit
  <2>3. ServeInv' /\ ConnMove
    BY <2>1, <2>2 DEF ServeInv, ConnMove
  <2>4. LoadOf(listen', slot', todo', answered', K) = Load(K)
    <3>1. CountIn(listen, K) \in Nat /\ answered \in Nat
      BY <1>0, LoadType
    <3>2. LoadOf(listen', slot', todo', answered', K) = CountIn(listen, K) + 0 + 1 + answered
      BY <2>1, <2>2 DEF LoadOf
    <3>3. Load(K) = CountIn(listen, K) + 1 + 0 + answered
      BY <2>1, <2>2 DEF Load, LoadOf
    <3> QED
      BY <3>1, <3>2, <3>3
  <2> QED
    BY <2>1, <2>3, <2>4 DEF Moves
<1>10. CASE Takeover
  <2>1. IsStream(slot) /\ UNCHANGED <<slot, listen, todo, answered, posted>>
    BY <1>10 DEF Takeover, connVars, serveVars
  <2>2. ServeInv' /\ ConnMove
    BY <2>1 DEF ServeInv, ConnMove, IsStream
  <2> QED
    BY <2>1, <2>2 DEF Moves, Load, LoadOf
<1>11. CASE Attach \/ AttachFails
  <2>1. /\ pc = "attach" /\ slot' = NoConn /\ pc' # "attach"
        /\ UNCHANGED <<listen, todo, answered, posted>>
    BY <1>11 DEF Attach, AttachFails, At, serveVars
  <2>2. slot \notin K
    BY <1>0, <2>1 DEF ServeInv, Countable
  <2> QED
    BY <1>e, <2>1, <2>2
<1> QED
  BY <1>1, <1>2, <1>3, <1>4, <1>5, <1>6, <1>7, <1>8, <1>9, <1>10, <1>11 DEF LoopStep

LEMMA DrainLoad ==
  ASSUME BridgeInv, ServeInv, NEW K, Countable(K), DrainStep
  PROVE  Moves(K)
<1>0. RelayTypes /\ slot \in Conns /\ NoConn \in Conns
  BY ReadConn DEF BridgeInv, RelayTypes
<1>g. ASSUME NEW p, p # "attach", Goto(p) PROVE Moves(K)
  BY <1>g, Still DEF Goto, connVars, serveVars
<1>1. CASE Drain \/ GateEnds \/ GateOpen \/ PopChunk \/ Trim
  BY <1>1, Still DEF Drain, GateEnds, EndsAtMarker, GateOpen, PopChunk, Trim, connVars, serveVars
<1>2. CASE WriteDoneEnds \/ WriteFails \/ EdgeSeen
  BY <1>2, Still DEF WriteDoneEnds, EndsAtMarker, WriteFails, EdgeSeen, connVars, serveVars
<1>3. CASE GateShut \/ PopNothing \/ WriteDone \/ WriteDeferred
  BY <1>3, <1>g DEF GateShut, PopNothing, WriteDone, WriteDeferred
<1>4. CASE NoEdge \/ TakeLoop \/ Call
  BY <1>4, <1>g DEF NoEdge, TakeLoop, Call
<1>5. CASE WriteTick
  <2>1. todo = <<>> /\ pc' # "attach" /\ UNCHANGED <<answered, posted>>
    BY <1>5 DEF WriteTick, At
  <2>2. CASE slot = NoConn /\ listen # <<>>
    <3>1. PICK h \in Conns : h = Head(listen)
      BY <1>0, <2>2, BacklogTypes DEF RelayTypes
    <3>2. listen' = Tail(listen) /\ Settled(TryRead(h), <<>>, Controls)
      BY <1>5, <2>2, <3>1 DEF WriteTick
    <3>3. TryRead(h) \in Conns /\ <<>> \in Seq(Conns) /\ Len(<<>>) = 0
      BY ReadConn
    <3>4. /\ todo' \in Seq(Conns) /\ slot' \in {TryRead(h), NoConn}
          /\ Bit(slot', K) + Len(todo') = Bit(TryRead(h), K) + Len(<<>>)
      BY <3>2, <3>3, SettleBalance
    <3>5. Bit(TryRead(h), K) = Bit(h, K) /\ Bit(slot, K) = 0
      BY <1>0, <2>2 DEF Countable, Bit
    <3>6. Bit(slot', K) + Len(todo') = Bit(slot, K) + Bit(h, K)
      <4>1. Bit(h, K) \in Nat
        BY BitType
      <4> QED
        BY <3>3, <3>4, <3>5, <4>1
    <3> QED
      BY <1>0, <2>1, <2>2, <3>1, <3>2, <3>4, <3>6, HeadComesIn
  <2>3. CASE ~(slot = NoConn /\ listen # <<>>)
    <3>1. Settled(TryRead(slot), <<>>, Controls) /\ listen' = listen
      BY <1>5, <2>3 DEF WriteTick
    <3> QED
      BY <1>0, <2>1, <3>1, SlotSettles
  <2> QED
    BY <2>2, <2>3
<1> QED
  BY <1>1, <1>2, <1>3, <1>4, <1>5 DEF DrainStep

\* So the HTTP thread loses nothing.
LEMMA HttpLoad ==
  ASSUME BridgeInv, ServeInv, NEW K, Countable(K), Owing(K), HttpStep
  PROVE  Moves(K)
BY ServeLoad, LoopLoad, DrainLoad, HttpStepParts

-----------------------------------------------------------------------------
(* The steps of the peers and of the daemon.                                *)

\* A peer that has not sent yet sends or goes.
LEMMA TurnedConn ==
  ASSUME NEW c \in Conns, Waits(c)
  PROVE  /\ Turned(c) \in Conns /\ ~IsStream(c)
         /\ c \notin Ready
         /\ c \in Coming <=> Turned(c) \in Coming
<1>1. Turned(c) \in Conns
  BY ConnTypes
<1>2. ~IsStream(c) /\ c \notin Ready
  BY DEF Waits, IsStream, Ready
<1>3. c # NoConn
  BY DEF Waits, NoConn
<1>4. /\ Turned(c).kind = c.kind
      /\ Turned(c).head = IF c.head = "silent" THEN "sent" ELSE "gone"
  BY <1>3 DEF Turned, Conns
<1> QED
  BY <1>1, <1>2, <1>4 DEF Coming, Waits

\* What a peer does keeps the load of what has come in, and makes no difference
\* to the load of what is coming.
LEMMA PeerLoad ==
  ASSUME BridgeInv, ServeInv, PeerActs
  PROVE  /\ ServeInv'
         /\ LoadOf(listen', slot', todo', answered', Ready) >= Load(Ready)
         /\ LoadOf(listen', slot', todo', answered', Coming) = Load(Coming)
<1>0. RelayTypes /\ UNCHANGED <<todo, answered, pc>>
  BY DEF BridgeInv, PeerActs, serveVars
<1>1. \A K : /\ CountIn(listen, K) \in Nat /\ Bit(slot, K) \in Nat /\ Len(todo) \in Nat
             /\ answered \in Nat
  BY <1>0, LoadType
<1>2. CASE Waits(slot) /\ slot' = Turned(slot) /\ UNCHANGED listen
  <2>1. /\ ~IsStream(slot) /\ Bit(slot, Ready) = 0 /\ Bit(slot', Ready) \in Nat
        /\ Bit(slot', Coming) = Bit(slot, Coming)
    BY <1>0, <1>2, TurnedConn, BitType DEF RelayTypes, Bit
  <2>2. ServeInv'
    BY <1>0, <2>1 DEF ServeInv
  <2>3. PICK l \in Nat, n \in Nat, a \in Nat, b \in Nat :
          /\ l = CountIn(listen, Ready) /\ n = Len(todo) /\ a = answered /\ b = Bit(slot', Ready)
    BY <1>1, <2>1
  <2>4. /\ LoadOf(listen', slot', todo', answered', Ready) = l + b + n + a
        /\ Load(Ready) = l + 0 + n + a
    BY <1>0, <1>2, <2>1, <2>3 DEF LoadOf, Load
  <2>5. l + b + n + a >= l + 0 + n + a
    OBVIOUS
  <2>6. LoadOf(listen', slot', todo', answered', Coming) = Load(Coming)
    BY <1>0, <1>2, <2>1 DEF LoadOf, Load
  <2> QED
    BY <2>2, <2>4, <2>5, <2>6
<1>3. CASE \E i \in DOMAIN listen : /\ Waits(listen[i])
                                    /\ listen' = [listen EXCEPT ![i] = Turned(listen[i])]
                                    /\ UNCHANGED slot
  <2>1. PICK i \in DOMAIN listen : /\ Waits(listen[i])
                                   /\ listen' = [listen EXCEPT ![i] = Turned(listen[i])]
                                   /\ UNCHANGED slot
    BY <1>3
  <2>2. listen \in Seq(Conns) /\ listen[i] \in Conns
    BY <1>0, <2>1 DEF RelayTypes
  <2>3. PICK d \in Conns : d = Turned(listen[i])
    BY <2>1, <2>2, TurnedConn
  <2>4. listen[i] \notin Ready /\ (listen[i] \in Coming <=> d \in Coming)
    BY <2>1, <2>2, <2>3, TurnedConn
  <2>5. PICK u : u = listen'
    OBVIOUS
  <2>6. u = [listen EXCEPT ![i] = d]
    BY <2>1, <2>3, <2>5
  <2>7. CountIn(u, Ready) >= CountIn(listen, Ready) /\ CountIn(u, Coming) = CountIn(listen, Coming)
    <3>1. PICK l : l = listen
      OBVIOUS
    <3>2. l \in Seq(Conns) /\ i \in DOMAIN l /\ u = [l EXCEPT ![i] = d]
      BY <2>2, <2>6, <3>1
    <3>3. \A K : (l[i] \in K => d \in K) => CountIn(u, K) >= CountIn(l, K)
      BY <3>2, CountReplace
    <3>4. CountIn(u, Ready) >= CountIn(l, Ready)
      BY <2>4, <3>1, <3>3
    <3>5. /\ Len(u) = Len(l) /\ u[i] = d /\ (l[i] \in Coming <=> d \in Coming)
          /\ \A j \in 1 .. Len(l) : j # i => u[j] = l[j]
      BY <2>4, <3>1, <3>2
    <3>6. Spots(u, Coming) = Spots(l, Coming)
      BY <3>5 DEF Spots
    <3>7. CountIn(u, Coming) = CountIn(l, Coming)
      BY <3>6 DEF CountIn
    <3> QED
      BY <3>1, <3>4, <3>7
  <2>8. u \in Seq(Conns)
    BY <2>2, <2>6
  <2>9. CountIn(u, Ready) \in Nat
    BY <2>8, CountType
  <2>10. PICK l \in Nat, b \in Nat, n \in Nat, a \in Nat, m \in Nat :
           /\ l = CountIn(listen, Ready) /\ b = Bit(slot, Ready) /\ n = Len(todo) /\ a = answered
           /\ m = CountIn(u, Ready)
    BY <1>1, <2>9
  <2>11. /\ LoadOf(listen', slot', todo', answered', Ready) = m + b + n + a
         /\ Load(Ready) = l + b + n + a /\ m >= l
    BY <1>0, <2>1, <2>5, <2>7, <2>10 DEF LoadOf, Load
  <2>12. m + b + n + a >= l + b + n + a
    BY <2>11
  <2>13. LoadOf(listen', slot', todo', answered', Coming) = Load(Coming)
    BY <1>0, <2>1, <2>5, <2>7 DEF LoadOf, Load
  <2>14. ServeInv'
    BY <1>0, <2>1 DEF ServeInv, IsStream
  <2> QED
    BY <2>11, <2>12, <2>13, <2>14
<1> QED
  BY <1>2, <1>3 DEF PeerActs

\* A new connection adds what it brings.
LEMMA PostLoad ==
  ASSUME BridgeInv, ServeInv, Post, NEW K
  PROVE  LET c == scene.net[posted + 1]
             d == [kind |-> c.kind, local |-> c.local, head |-> c.head]
         IN  /\ IsPeer(c) /\ d \in Conns
             /\ LoadOf(listen', slot', todo', answered', K) = Load(K) + Bit(d, K)
<1>0. RelayTypes /\ UNCHANGED <<todo, answered, slot>>
  BY DEF BridgeInv, Post, serveVars
<1>1. PICK c : c = scene.net[posted + 1]
  OBVIOUS
<1>2. IsPeer(c)
  BY <1>0, <1>1, SceneItems DEF Post, BridgeInv, DaemonTypes, RelayTypes
<1>3. PICK d \in Conns : d = [kind |-> c.kind, local |-> c.local, head |-> c.head]
  BY <1>2 DEF IsPeer, Conns
<1>4. listen' = Append(listen, d) /\ listen \in Seq(Conns)
  BY <1>0, <1>1, <1>3 DEF Post, RelayTypes
<1>5. CountIn(Append(listen, d), K) = CountIn(listen, K) + Bit(d, K)
  BY <1>4, CountAppend
<1>6. PICK l \in Nat, b \in Nat, n \in Nat, a \in Nat, m \in Nat :
        /\ l = CountIn(listen, K) /\ b = Bit(slot, K) /\ n = Len(todo) /\ a = answered
        /\ m = Bit(d, K)
  BY <1>0, LoadType, BitType
<1>7. /\ LoadOf(listen', slot', todo', answered', K) = (l + m) + b + n + a
      /\ Load(K) = l + b + n + a
  BY <1>0, <1>4, <1>5, <1>6 DEF LoadOf, Load
<1>8. (l + m) + b + n + a = (l + b + n + a) + m
  OBVIOUS
<1> QED
  BY <1>1, <1>2, <1>3, <1>6, <1>7, <1>8

LEMMA SceneKept ==
  ASSUME BridgeInv, [Next]_bridgeVars
  PROVE  scene' = scene
<1>1. CASE StreamSide
  <2>1. CASE OpStep
    BY <2>1 DEF OpStep, ConnectMarker, ConnectArm, ConnectDone, FlushMarker, FlushArmed,
                FlushUnarmed, FlushKept, FlushWindow, FlushRaise, TearDownWake, TearDownEnds,
                streamVars, daemonVars
  <2>2. CASE OpStart(Seen)
    BY <2>2 DEF OpStart, New, ConnectRing, Cork, FlushRing, TearDown, streamVars, daemonVars
  <2>3. CASE WriteStart(Seen) \/ TickStep
    BY <2>3 DEF WriteStart, TickStep, AskWritable, SinkPlays, WindowCloses, ArmAges, KeepAges,
                RingClock, streamVars, daemonVars
  <2>4. CASE \E w \in Writers : WriterStep(w)
    BY <2>4 DEF WriterStep, WriteAdmit, WritePush, WriteEnd, streamVars, daemonVars
  <2> QED
    BY <1>1, <2>1, <2>2, <2>3, <2>4 DEF StreamSide, TickStep
<1>2. CASE HttpStep \/ PeerStep
  <2>1. cap \in Nat
    BY DEF BridgeInv, RelayTypes
  <2>2. HttpFrame
    BY <1>2, <2>1, HttpStepParts, ServeFrame, LoopFrame, DrainFrame, PeerFrame
  <2> QED
    BY <2>2 DEF HttpFrame, daemonVars
<1>3. CASE UNCHANGED bridgeVars
  BY <1>3 DEF bridgeVars, streamVars, daemonVars
<1> QED
  BY <1>1, <1>2, <1>3 DEF Next, PeerStep

\* The daemon's side does not touch the requests.
RequestVars == <<slot, listen, todo, answered, posted, pc>>

LEMMA DaemonLoad ==
  ASSUME StreamSide \/ UNCHANGED bridgeVars
  PROVE  /\ UNCHANGED RequestVars
         /\ ServeInv => ServeInv'
         /\ \A K : Load(K)' = Load(K)
<1>1. UNCHANGED <<slot, listen, todo, answered, posted, pc>>
  BY DEF StreamSide, bridgeVars, relayVars, connVars, serveVars
<1> QED
  BY <1>1 DEF RequestVars, ServeInv, Load, LoadOf

\* What a step makes of the service.
LEMMA ServeStep ==
  ASSUME BridgeInv, ServeInv, [Next]_bridgeVars
  PROVE  ServeInv'
<1>1. CASE StreamSide \/ UNCHANGED bridgeVars
  BY <1>1, DaemonLoad
<1>2. CASE HttpStep
  <2>1. Countable(Ready) /\ Owing(Ready)
    BY SetsCountable DEF Owing, Ready, Waits
  <2> QED
    BY <1>2, <2>1, HttpLoad DEF Moves
<1>3. CASE Post
  BY <1>3 DEF Post, serveVars, ServeInv
<1>4. CASE PeerActs
  BY <1>4, PeerLoad
<1> QED
  BY <1>1, <1>2, <1>3, <1>4 DEF Next

-----------------------------------------------------------------------------
(* A request that has come in is not dropped.                               *)

(* The requests that came in and are in the backlog, in the slot, being     *)
(* served or answered never get fewer: no accept, no read, no timeout, no   *)
(* pass before a close and no takeover lets go of one (_pending_accept,     *)
(* _pending_settle, _flush_backlog_pass, the stalled write).                *)
NoRequestDropped == [][Load(Ready)' >= Load(Ready)]_bridgeVars

LEMMA ReadyStep ==
  ASSUME BridgeInv, ServeInv, [Next]_bridgeVars
  PROVE  Load(Ready)' >= Load(Ready)
<1>0. Load(Ready) \in Nat /\ Load(Ready)' = LoadOf(listen', slot', todo', answered', Ready)
  BY LoadType DEF Load, BridgeInv, LoadOf
<1>1. CASE StreamSide \/ UNCHANGED bridgeVars
  BY <1>0, <1>1, DaemonLoad
<1>2. CASE HttpStep
  <2>1. Countable(Ready) /\ Owing(Ready)
    BY SetsCountable DEF Owing, Ready, Waits
  <2> QED
    BY <1>0, <1>2, <2>1, HttpLoad DEF Moves
<1>3. CASE Post
  <2>1. PICK d : LoadOf(listen', slot', todo', answered', Ready) = Load(Ready) + Bit(d, Ready)
    BY <1>3, PostLoad
  <2>2. Bit(d, Ready) \in Nat
    BY BitType
  <2> QED
    BY <1>0, <2>1, <2>2
<1>4. CASE PeerActs
  BY <1>0, <1>4, PeerLoad
<1> QED
  BY <1>1, <1>2, <1>3, <1>4 DEF Next

LEMMA ServiceKept == Spec => []ServeInv
<1>1. Init => ServeInv
  BY DEF Init, RelayInit, ServeInv
<1>2. BridgeInv /\ ServeInv /\ [Next]_bridgeVars => ServeInv'
  BY ServeStep
<1> QED
  BY <1>1, <1>2, BridgeInvariant, PTL DEF Spec

(* Whatever daemon, server and player do, a control request that has been   *)
(* sent stays with the bridge until it is answered.  (A server that is      *)
(* still to send one may lose its connection to another one or to the head  *)
(* timeout: that is the code's own choice, and NeverLosesControl says when  *)
(* it does not happen.)                                                     *)
THEOREM NeverDropsRequest == Spec => NoRequestDropped
<1>1. BridgeInv /\ ServeInv /\ [Next]_bridgeVars => (Load(Ready)' >= Load(Ready))
  BY ReadyStep
<1> QED
  BY <1>1, BridgeInvariant, ServiceKept, PTL DEF Spec, NoRequestDropped

-----------------------------------------------------------------------------
(* A server that waits for its own requests loses none.                     *)

\* The connection of a control request sends it, and if it has not yet, it is
\* the last one and the bridge waits for it.
LastOne(sc, n) == n = Len(sc.net) /\ "head" \notin sc.may
Expected(c, sc, n) == c.kind \in Controls => c \in Coming /\ (Waits(c) => LastOne(sc, n))

PromptInv ==
  /\ posted <= Len(scene.net)
  /\ Expected(slot, scene, posted)
  /\ \A i \in 1 .. Len(listen) : Expected(listen[i], scene, posted)
  /\ slot \in Coming /\ Waits(slot) => listen = <<>>
  /\ \A i \in 1 .. Len(listen) : listen[i] \in Coming /\ Waits(listen[i]) => i = Len(listen)
  /\ Load(Coming) = Sent(posted)

\* What is expected of a connection is expected of what is read from it.
LEMMA ExpectedRead ==
  ASSUME NEW c \in Conns, NEW sc, NEW n, Expected(c, sc, n)
  PROVE  Expected(TryRead(c), sc, n) /\ Expected(NoConn, sc, n)
<1>1. NoConn.kind \notin Controls
  BY DEF NoConn, Controls
<1>2. TryRead(c) = NoConn \/ TryRead(c).kind = c.kind
  BY DEF TryRead, Conns
<1>3. c \in Coming <=> TryRead(c) \in Coming
  BY SetsCountable DEF Countable
<1>4. Waits(TryRead(c)) => TryRead(c) = c
  BY ReadConn
<1>5. CASE TryRead(c) = NoConn
  BY <1>1, <1>5 DEF Expected
<1>6. CASE TryRead(c).kind = c.kind
  BY <1>1, <1>3, <1>4, <1>6 DEF Expected
<1> QED
  BY <1>2, <1>5, <1>6

\* A step of the HTTP thread moves what is expected on.
LEMMA HttpPrompt ==
  ASSUME BridgeInv, ServeInv, PromptInv, scene' = scene, HttpStep
  PROVE  PromptInv'
<1>0. /\ RelayTypes /\ slot \in Conns /\ NoConn \in Conns /\ listen \in Seq(Conns)
      /\ Len(listen) \in Nat
  <2>1. RelayTypes /\ slot \in Conns /\ listen \in Seq(Conns)
    BY DEF BridgeInv, RelayTypes
  <2>2. NoConn \in Conns
    BY <2>1, ReadConn
  <2>3. Len(listen) \in Nat
    BY <2>1
  <2> QED
    BY <2>1, <2>2, <2>3
<1>1. Owing(Coming)
  <2>1. slot \in Coming /\ Waits(slot) => slot.kind \in Controls
    BY DEF Coming
  <2> QED
    BY <2>1 DEF Owing, PromptInv, Expected, LastOne
<1>2. Moves(Coming)
  BY <1>1, SetsCountable, HttpLoad
<1>3. posted' = posted /\ Load(Coming)' = Load(Coming) /\ Sent(posted)' = Sent(posted)
  BY <1>2 DEF Moves, Load, LoadOf, Sent
<1>4. ~Waits(NoConn)
  BY DEF Waits, NoConn
<1>5. CASE listen' = listen /\ slot' \in {NoConn, slot, TryRead(slot)}
  <2>1. Expected(slot', scene, posted)
    BY <1>0, <1>5, ExpectedRead DEF PromptInv
  <2>2. slot' \in Coming /\ Waits(slot') => listen = <<>>
    <3>1. Waits(slot') => slot' = slot
      BY <1>0, <1>4, <1>5, ReadConn
    <3> QED
      BY <3>1 DEF PromptInv
  <2> QED
    BY <1>3, <1>5, <2>1, <2>2 DEF PromptInv
<1>6. CASE /\ listen # <<>> /\ listen' = Tail(listen)
           /\ slot' \in {NoConn, slot, TryRead(slot), Head(listen), TryRead(Head(listen))}
  <2>1. PICK h \in Conns : h = Head(listen) /\ h = listen[1]
    BY <1>0, <1>6
  <2>2. /\ Len(listen') = Len(listen) - 1 /\ Len(listen) > 0
        /\ \A i \in 1 .. Len(listen') : listen'[i] = listen[i + 1] /\ i + 1 \in 1 .. Len(listen)
    BY <1>0, <1>6
  <2>3. Expected(h, scene, posted)
    BY <1>0, <2>1, <2>2 DEF PromptInv
  <2>4. Expected(slot', scene, posted)
    BY <1>0, <1>6, <2>1, <2>3, ExpectedRead DEF PromptInv
  <2>5. slot' \in Coming /\ Waits(slot') => listen' = <<>>
    <3>1. Waits(slot') => slot' = slot \/ slot' = h
      BY <1>0, <1>4, <1>6, <2>1, ReadConn
    <3>2. ~(slot \in Coming /\ Waits(slot))
      BY <1>6 DEF PromptInv
    <3>3. h \in Coming /\ Waits(h) => Len(listen) = 1
      BY <1>0, <2>1, <2>2 DEF PromptInv
    <3>4. Len(listen) = 1 => listen' = <<>>
      BY <1>0, <1>6
    <3> QED
      BY <3>1, <3>2, <3>3, <3>4
  <2>6. \A i \in 1 .. Len(listen') : Expected(listen'[i], scene, posted)
    BY <2>2 DEF PromptInv
  <2>7. \A i \in 1 .. Len(listen') : listen'[i] \in Coming /\ Waits(listen'[i]) => i = Len(listen')
    <3> SUFFICES ASSUME NEW i \in 1 .. Len(listen'), listen'[i] \in Coming, Waits(listen'[i])
                 PROVE  i = Len(listen')
      OBVIOUS
    <3>1. i + 1 = Len(listen)
      BY <2>2 DEF PromptInv
    <3> QED
      BY <1>0, <2>2, <3>1
  <2> QED
    BY <1>3, <2>4, <2>5, <2>6, <2>7 DEF PromptInv
<1> QED
  BY <1>2, <1>5, <1>6 DEF Moves, ConnMove

\* A connection that is made brings what is expected.
LEMMA PostPrompt ==
  ASSUME BridgeInv, ServeInv, PromptInv, scene' = scene, Prompt(scene), Post
  PROVE  PromptInv'
<1>0. /\ listen \in Seq(Conns) /\ Len(listen) \in Nat /\ posted \in Nat
      /\ Len(scene.net) \in Nat /\ posted < Len(scene.net)
      /\ posted' = posted + 1 /\ slot' = slot
  BY SceneAssumption DEF BridgeInv, DaemonTypes, RelayTypes, Post
<1>1. PICK c : c = scene.net[posted + 1]
  OBVIOUS
<1>2. PICK d : d = [kind |-> c.kind, local |-> c.local, head |-> c.head]
  OBVIOUS
<1>3. /\ IsPeer(c) /\ d \in Conns /\ listen' = Append(listen, d)
      /\ LoadOf(listen', slot', todo', answered', Coming) = Load(Coming) + Bit(d, Coming)
  <2>1. listen' = Append(listen, d)
    BY <1>1, <1>2 DEF Post
  <2>2. /\ IsPeer(c) /\ d \in Conns
        /\ LoadOf(listen', slot', todo', answered', Coming) = Load(Coming) + Bit(d, Coming)
    BY <1>1, <1>2, PostLoad
  <2> QED
    BY <2>1, <2>2
<1>4. /\ d.kind = c.kind /\ d.head = c.head
      /\ c.kind \in Controls =>
           c.head = "sent" \/ (c.head = "silent" /\ posted + 1 = Len(scene.net)
                               /\ "head" \notin scene.may)
  <2>1. posted + 1 \in 1 .. Len(scene.net)
    BY <1>0
  <2> QED
    BY <1>1, <1>2, <2>1 DEF Prompt
<1>5. Expected(d, scene, posted + 1) /\ (d \in Coming <=> c.kind \in Controls)
  BY <1>3, <1>4 DEF Expected, Coming, LastOne, Waits
<1>6. ~LastOne(scene, posted)
  BY <1>0 DEF LastOne
<1>7. \A e \in Conns : Expected(e, scene, posted) =>
         Expected(e, scene, posted + 1) /\ ~(e \in Coming /\ Waits(e))
  BY <1>6 DEF Expected, Coming
<1>8. /\ Len(listen') = Len(listen) + 1 /\ listen'[Len(listen) + 1] = d
      /\ \A i \in 1 .. Len(listen) : listen'[i] = listen[i] /\ listen[i] \in Conns
  BY <1>0, <1>3
<1>9. Expected(slot', scene, posted + 1) /\ ~(slot' \in Coming /\ Waits(slot'))
  BY <1>0, <1>7 DEF PromptInv, BridgeInv, RelayTypes
<1>10. \A i \in 1 .. Len(listen) :
          /\ Expected(listen'[i], scene, posted + 1)
          /\ ~(listen'[i] \in Coming /\ Waits(listen'[i]))
  BY <1>7, <1>8 DEF PromptInv
<1>11. \A i \in 1 .. Len(listen') : i \in 1 .. Len(listen) \/ i = Len(listen')
  BY <1>0, <1>8
<1>12. \A i \in 1 .. Len(listen') : Expected(listen'[i], scene, posted + 1)
  BY <1>5, <1>8, <1>10, <1>11
<1>13. \A i \in 1 .. Len(listen') : listen'[i] \in Coming /\ Waits(listen'[i]) => i = Len(listen')
  BY <1>10, <1>11
<1>14. Sent(posted + 1) = Sent(posted) + Bit(d, Coming)
  <2> DEFINE A == {i \in 1 .. posted : scene.net[i].kind \in Controls}
             B == {i \in 1 .. posted + 1 : scene.net[i].kind \in Controls}
  <2>1. A \subseteq 1 .. posted
    OBVIOUS
  <2>2. 1 .. posted + 1 = (1 .. posted) \cup {posted + 1}
    BY <1>0
  <2>3. Sent(posted) = Cardinality(A) /\ Sent(posted + 1) = Cardinality(B)
    BY DEF Sent
  <2>4. B = IF c.kind \in Controls THEN A \cup {posted + 1} ELSE A
    BY <1>1, <2>2
  <2> HIDE DEF A, B
  <2>5. Cardinality(A) \in Nat /\ Cardinality(A \cup {posted + 1}) = Cardinality(A) + 1
    BY <1>0, <2>1, SpotsFinite, CountNext
  <2>6. CASE c.kind \in Controls
    BY <1>5, <2>3, <2>4, <2>5, <2>6 DEF Bit
  <2>7. CASE c.kind \notin Controls
    <3>1. B = A /\ Bit(d, Coming) = 0
      BY <1>5, <2>4, <2>7 DEF Bit
    <3> QED
      BY <2>3, <2>5, <3>1
  <2> QED
    BY <2>6, <2>7
<1>15. Load(Coming)' = Sent(posted)'
  <2>1. Load(Coming)' = Load(Coming) + Bit(d, Coming)
    BY <1>3 DEF Load
  <2>2. Sent(posted)' = Sent(posted + 1)
    BY <1>0 DEF Sent
  <2> QED
    BY <1>14, <2>1, <2>2 DEF PromptInv
<1>16. posted' <= Len(scene'.net)
  BY <1>0
<1> QED
  BY <1>0, <1>9, <1>12, <1>13, <1>15, <1>16 DEF PromptInv

\* A peer that sends what was expected.
LEMMA PeerPrompt ==
  ASSUME BridgeInv, ServeInv, PromptInv, scene' = scene, PeerActs
  PROVE  PromptInv'
<1>0. /\ slot \in Conns /\ listen \in Seq(Conns) /\ Len(listen) \in Nat /\ posted' = posted
  BY DEF BridgeInv, RelayTypes, PeerActs
<1>1. Load(Coming)' = Load(Coming) /\ Sent(posted)' = Sent(posted)
  BY <1>0, PeerLoad DEF Load, Sent
<1>2. \A c \in Conns : Waits(c) /\ Expected(c, scene, posted) =>
         Expected(Turned(c), scene, posted) /\ ~(Turned(c) \in Coming /\ Waits(Turned(c)))
  <2> SUFFICES ASSUME NEW c \in Conns, Waits(c), Expected(c, scene, posted)
               PROVE  /\ Expected(Turned(c), scene, posted)
                      /\ ~(Turned(c) \in Coming /\ Waits(Turned(c)))
    OBVIOUS
  <2>1. c # NoConn
    BY DEF Waits, NoConn
  <2>2. Turned(c).kind = c.kind /\ Turned(c).head \in {"sent", "gone"}
    BY <2>1 DEF Turned, Conns
  <2>3. c \in Coming <=> Turned(c) \in Coming
    BY TurnedConn
  <2> QED
    BY <2>2, <2>3 DEF Expected, Waits
<1>3. CASE Waits(slot) /\ slot' = Turned(slot) /\ UNCHANGED listen
  BY <1>0, <1>1, <1>2, <1>3 DEF PromptInv
<1>4. CASE \E i \in DOMAIN listen : /\ Waits(listen[i])
                                    /\ listen' = [listen EXCEPT ![i] = Turned(listen[i])]
                                    /\ UNCHANGED slot
  <2>0. PICK i \in DOMAIN listen : /\ Waits(listen[i])
                                   /\ listen' = [listen EXCEPT ![i] = Turned(listen[i])]
                                   /\ UNCHANGED slot
    BY <1>4
  <2>1. /\ i \in 1 .. Len(listen) /\ Waits(listen[i]) /\ slot' = slot
        /\ listen' = [listen EXCEPT ![i] = Turned(listen[i])]
    BY <1>0, <2>0
  <2>2. PICK d : d = Turned(listen[i])
    OBVIOUS
  <2>3. /\ Len(listen') = Len(listen) /\ listen'[i] = d
        /\ \A j \in 1 .. Len(listen) : j # i => listen'[j] = listen[j]
    BY <1>0, <2>1, <2>2
  <2>4. Expected(d, scene, posted) /\ ~(d \in Coming /\ Waits(d))
    BY <1>0, <1>2, <2>1, <2>2 DEF PromptInv
  <2>5. slot \in Coming /\ Waits(slot) => listen' = <<>>
    BY <1>0, <2>1 DEF PromptInv
  <2>6. \A j \in 1 .. Len(listen') : Expected(listen'[j], scene, posted)
    BY <2>3, <2>4 DEF PromptInv
  <2>7. \A j \in 1 .. Len(listen') : listen'[j] \in Coming /\ Waits(listen'[j]) => j = Len(listen')
    BY <2>3, <2>4 DEF PromptInv
  <2> QED
    BY <1>0, <1>1, <2>1, <2>5, <2>6, <2>7 DEF PromptInv
<1> QED
  BY <1>3, <1>4 DEF PeerActs

LEMMA PromptStep ==
  ASSUME BridgeInv, ServeInv, PromptInv, Prompt(scene), [Next]_bridgeVars
  PROVE  PromptInv'
<1>0. scene' = scene
  BY SceneKept
<1>1. CASE StreamSide \/ UNCHANGED bridgeVars
  <2>1. UNCHANGED <<slot, listen, posted>> /\ Load(Coming)' = Load(Coming)
    BY <1>1, DaemonLoad DEF RequestVars
  <2>2. Sent(posted)' = Sent(posted)
    BY <1>0, <2>1 DEF Sent
  <2> QED
    BY <1>0, <2>1, <2>2 DEF PromptInv
<1> QED
  BY <1>0, <1>1, HttpPrompt, PostPrompt, PeerPrompt DEF Next

\* What counts as coming is what is queued.
LEMMA PromptMeans ==
  ASSUME BridgeInv, ServeInv, PromptInv
  PROVE  NoControlLost
<1>0. slot \in Conns /\ listen \in Seq(Conns) /\ DOMAIN listen = 1 .. Len(listen)
  BY DEF BridgeInv, RelayTypes
<1>1. \A c \in Conns : Expected(c, scene, posted) => (c \in Coming <=> c.kind \in Controls)
  BY DEF Expected, Coming
<1>2. Bit(slot, Coming) = IF slot.kind \in Controls THEN 1 ELSE 0
  BY <1>0, <1>1 DEF PromptInv, Bit
<1>3. Spots(listen, Coming) = {i \in DOMAIN listen : listen[i].kind \in Controls}
  <2>1. \A i \in 1 .. Len(listen) : listen[i] \in Coming <=> listen[i].kind \in Controls
    <3> SUFFICES ASSUME NEW i \in 1 .. Len(listen)
                 PROVE  listen[i] \in Coming <=> listen[i].kind \in Controls
      OBVIOUS
    <3>1. listen[i] \in Conns
      BY <1>0
    <3>2. Expected(listen[i], scene, posted)
      BY DEF PromptInv
    <3> QED
      BY <1>1, <3>1, <3>2
  <2> QED
    BY <1>0, <2>1 DEF Spots
<1>4. CountIn(listen, Coming) = Cardinality({i \in DOMAIN listen : listen[i].kind \in Controls})
  BY <1>3 DEF CountIn
<1>5. CountIn(listen, Coming) + Bit(slot, Coming) = Queued
  BY <1>2, <1>4 DEF Queued
<1> QED
  BY <1>5 DEF NoControlLost, PromptInv, Load, LoadOf

LEMMA PromptStart ==
  ASSUME Init
  PROVE  PromptInv
<1>1. posted = 0 /\ slot = NoConn /\ listen = <<>> /\ todo = <<>> /\ answered = 0
      /\ Len(scene.net) \in Nat
  BY SceneAssumption DEF Init, RelayInit
<1>2. NoConn.kind \notin Controls /\ ~Waits(NoConn)
  BY DEF NoConn, Controls, Waits
<1>3. Spots(listen, Coming) = {} /\ NoConn \notin Coming
  BY <1>1, <1>2 DEF Spots, Coming
<1>4. Cardinality({}) = 0
  BY FS_EmptySet
<1>5. Load(Coming) = 0
  <2>1. CountIn(listen, Coming) = 0
    BY <1>3, <1>4 DEF CountIn
  <2>2. Bit(slot, Coming) = 0
    BY <1>1, <1>3 DEF Bit
  <2>3. Len(todo) = 0
    BY <1>1
  <2> QED
    BY <1>1, <2>1, <2>2, <2>3 DEF Load, LoadOf
<1>6. Sent(posted) = 0
  <2>1. {i \in 1 .. posted : scene.net[i].kind \in Controls} = {}
    BY <1>1
  <2> QED
    BY <1>4, <2>1 DEF Sent
<1> QED
  BY <1>1, <1>2, <1>5, <1>6 DEF PromptInv, Expected

(* No control request is lost between the backlog, the slot and the thread, *)
(* for every server that sends its requests at once, or the last one when   *)
(* the bridge waits for it: what was posted is queued, being served or      *)
(* answered, one for one.                                                   *)
THEOREM NeverLosesControl ==
  ASSUME \A s \in Scenes : Prompt(s)
  PROVE  Spec => []NoControlLost
<1>1. Init => PromptInv
  BY PromptStart
<1>2. BridgeInv /\ ServeInv /\ PromptInv /\ [Next]_bridgeVars => PromptInv'
  <2>1. BridgeInv => Prompt(scene)
    BY DEF BridgeInv, DaemonTypes
  <2> QED
    BY <2>1, PromptStep
<1>3. BridgeInv /\ ServeInv /\ PromptInv => NoControlLost
  BY PromptMeans
<1> QED
  BY <1>1, <1>2, <1>3, BridgeInvariant, ServiceKept, PTL DEF Spec

===============================================================================
