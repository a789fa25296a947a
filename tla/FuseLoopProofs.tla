--------------------------- MODULE FuseLoopProofs ---------------------------
(***************************************************************************)
(* Theorems about the thread pool and the requests of libfuse, for any     *)
(* number of workers and requests, any limits of the pool, and any way in  *)
(* which the session ends. First what a step of a worker that serves a     *)
(* message preserves: where the messages of a request are, what its count  *)
(* and its lock stand for, and where an interrupt is on its way; then the  *)
(* thread pool around it.                                                  *)
(***************************************************************************)
EXTENDS FuseLoop, SequenceTheorems, FiniteSetTheorems, TLAPS

-----------------------------------------------------------------------------
(* Messages, and sequences that hold a request once.                       *)

\* A message is told by its kind and its number.
LEMMA MessageFacts ==
    /\ \A id : /\ Op(id).id = id /\ Op(id).kind = "op"
               /\ Forget(id).id = id /\ Forget(id).kind = "forget"
               /\ Intr(id).id = id /\ Intr(id).kind = "interrupt"
    /\ NoMsg.kind = "none"
    /\ \A m \in Messages \cup {NoMsg} :
         /\ m.kind \in {"op", "forget", "interrupt", "none"}
         /\ m.kind = "op" => m.id \in Reqs /\ m = Op(m.id)
         /\ m.kind = "forget" => m.id \in Forgets /\ m = Forget(m.id)
         /\ m.kind = "interrupt" => m.id \in Reqs /\ m = Intr(m.id)
    /\ \A r \in Reqs : Op(r) \in Messages /\ Intr(r) \in Messages
    /\ \A g \in Forgets : Forget(g) \in Messages
<1>1. \A id : /\ Op(id).id = id /\ Op(id).kind = "op"
              /\ Forget(id).id = id /\ Forget(id).kind = "forget"
              /\ Intr(id).id = id /\ Intr(id).kind = "interrupt"
  BY DEF Op, Forget, Intr
<1>2. NoMsg.kind = "none"
  BY DEF NoMsg
<1>3. \A m \in Messages \cup {NoMsg} :
        \/ \E r \in Reqs : m = Op(r)
        \/ \E g \in Forgets : m = Forget(g)
        \/ \E r \in Reqs : m = Intr(r)
        \/ m = NoMsg
  BY DEF Messages
<1>4. /\ \A r \in Reqs : Op(r) \in Messages /\ Intr(r) \in Messages
      /\ \A g \in Forgets : Forget(g) \in Messages
  BY DEF Messages
<1>5. ASSUME NEW m \in Messages \cup {NoMsg}
      PROVE  /\ m.kind \in {"op", "forget", "interrupt", "none"}
             /\ m.kind = "op" => m.id \in Reqs /\ m = Op(m.id)
             /\ m.kind = "forget" => m.id \in Forgets /\ m = Forget(m.id)
             /\ m.kind = "interrupt" => m.id \in Reqs /\ m = Intr(m.id)
  BY <1>1, <1>2, <1>3
<1> QED BY <1>1, <1>2, <1>4, <1>5

\* An interrupt that is kept is appended.
LEMMA AppendOnce ==
    ASSUME NEW s \in Seq(Reqs), IsInjective(s), NEW r \in Reqs, r \notin ToSet(s)
    PROVE  /\ Append(s, r) \in Seq(Reqs)
           /\ IsInjective(Append(s, r))
           /\ ToSet(Append(s, r)) = ToSet(s) \cup {r}
<1>1. /\ Append(s, r) \in Seq(Reqs)
      /\ Len(Append(s, r)) = Len(s) + 1
      /\ \A i \in 1 .. Len(s) : Append(s, r)[i] = s[i]
      /\ Append(s, r)[Len(s) + 1] = r
  BY AppendProperties
<1>2. Len(s) \in Nat /\ DOMAIN s = 1 .. Len(s) /\ DOMAIN Append(s, r) = 1 .. Len(s) + 1
  BY <1>1, LenProperties
<1> QED BY <1>1, <1>2 DEF IsInjective, ToSet

\* The first one that waits is sent back.
LEMMA TailOnce ==
    ASSUME NEW s \in Seq(Reqs), IsInjective(s), s # <<>>
    PROVE  /\ Head(s) \in ToSet(s)
           /\ Tail(s) \in Seq(Reqs)
           /\ IsInjective(Tail(s))
           /\ ToSet(Tail(s)) = ToSet(s) \ {Head(s)}
<1>1. /\ Tail(s) \in Seq(Reqs)
      /\ Len(Tail(s)) = Len(s) - 1
      /\ \A i \in 1 .. Len(Tail(s)) : Tail(s)[i] = s[i + 1]
  BY HeadTailProperties
<1>2. Len(s) \in Nat \ {0} /\ DOMAIN s = 1 .. Len(s) /\ DOMAIN Tail(s) = 1 .. Len(s) - 1
  BY <1>1, LenProperties, EmptySeq
<1>3. Head(s) = s[1]
  BY <1>2
<1>4. IsInjective(Tail(s))
  BY <1>1, <1>2 DEF IsInjective
<1>5. Head(s) \in ToSet(s)
  BY <1>2, <1>3 DEF ToSet
<1>6. ToSet(Tail(s)) \subseteq ToSet(s) \ {Head(s)}
  BY <1>1, <1>2, <1>3 DEF ToSet, IsInjective
<1>7. ASSUME NEW x \in ToSet(s) \ {Head(s)}
      PROVE  x \in ToSet(Tail(s))
  <2>1. PICK i \in 2 .. Len(s) : s[i] = x
    BY <1>2, <1>3 DEF ToSet
  <2>2. i - 1 \in DOMAIN Tail(s) /\ Tail(s)[i - 1] = x
    BY <1>1, <1>2, <2>1
  <2> QED BY <2>2 DEF ToSet
<1> QED BY <1>1, <1>4, <1>5, <1>6, <1>7

\* The one of a request that has come is taken out.
LEMMA RemoveOnce ==
    ASSUME NEW s \in Seq(Reqs), IsInjective(s), NEW k \in DOMAIN s
    PROVE  /\ RemoveAt(s, k) \in Seq(Reqs)
           /\ IsInjective(RemoveAt(s, k))
           /\ ToSet(RemoveAt(s, k)) = ToSet(s) \ {s[k]}
<1> DEFINE a == SubSeq(s, 1, k - 1)
           b == SubSeq(s, k + 1, Len(s))
           t == RemoveAt(s, k)
<1>1. Len(s) \in Nat /\ DOMAIN s = 1 .. Len(s) /\ \A i \in 1 .. Len(s) : s[i] \in Reqs
  BY LenProperties
<1>2. k \in 1 .. Len(s)
  BY <1>1
<1>3. /\ a \in Seq(Reqs)
      /\ Len(a) = k - 1
      /\ \A i \in 1 .. k - 1 : a[i] = s[i]
  <2>1. \A i \in 1 .. k - 1 : s[i] \in Reqs
    BY <1>1, <1>2
  <2>2. 1 \in Int /\ k - 1 \in Int
    BY <1>2
  <2> QED BY <1>2, <2>1, <2>2, SubSeqProperties
<1>4. /\ b \in Seq(Reqs)
      /\ Len(b) = Len(s) - k
      /\ \A i \in 1 .. Len(s) - k : b[i] = s[k + i]
  <2>1. \A i \in k + 1 .. Len(s) : s[i] \in Reqs
    BY <1>1, <1>2
  <2>2. k + 1 \in Int /\ Len(s) \in Int
    BY <1>1, <1>2
  <2> QED BY <1>1, <1>2, <2>1, <2>2, SubSeqProperties
<1>5. t = a \o b
  BY DEF RemoveAt
<1> HIDE DEF a, b, t
<1>6. /\ t \in Seq(Reqs)
      /\ Len(t) = Len(s) - 1
      /\ \A i \in 1 .. Len(s) - 1 : t[i] = IF i <= k - 1 THEN a[i] ELSE b[i - (k - 1)]
  <2>1. Len(a) + Len(b) = Len(s) - 1
    BY <1>1, <1>2, <1>3, <1>4
  <2>2. a \in Seq(Reqs) /\ b \in Seq(Reqs) /\ Len(a) = k - 1
    BY <1>3, <1>4
  <2>3. /\ a \o b \in Seq(Reqs)
        /\ Len(a \o b) = Len(a) + Len(b)
        /\ \A i \in 1 .. Len(a) + Len(b) : (a \o b)[i] =
                    IF i <= Len(a) THEN a[i] ELSE b[i - Len(a)]
    BY <2>2, ConcatProperties
  <2> QED BY <1>5, <2>1, <2>2, <2>3
<1>7. \A i \in 1 .. Len(s) - 1 : t[i] = IF i < k THEN s[i] ELSE s[i + 1]
  <2>1. TAKE i \in 1 .. Len(s) - 1
  <2>2. CASE i < k
    <3>1. i \in 1 .. k - 1 /\ i <= k - 1
      BY <1>1, <1>2, <2>2
    <3> QED BY <1>3, <1>6, <2>2, <3>1
  <2>3. CASE ~ i < k
    <3>1. i - (k - 1) \in 1 .. Len(s) - k /\ ~ i <= k - 1 /\ k + (i - (k - 1)) = i + 1
      BY <1>1, <1>2, <2>3
    <3> QED BY <1>4, <1>6, <2>3, <3>1
  <2> QED BY <2>2, <2>3
<1>8. DOMAIN t = 1 .. Len(s) - 1
  BY <1>1, <1>6, LenProperties
<1>9. IsInjective(t)
  BY <1>1, <1>2, <1>7, <1>8 DEF IsInjective
<1>10. ToSet(t) \subseteq ToSet(s) \ {s[k]}
  BY <1>1, <1>2, <1>7, <1>8 DEF ToSet, IsInjective
<1>11. ASSUME NEW x \in ToSet(s) \ {s[k]}
       PROVE  x \in ToSet(t)
  <2>1. PICK i \in 1 .. Len(s) : s[i] = x /\ i # k
    BY <1>1, <1>2 DEF ToSet
  <2>2. CASE i < k
    <3>1. i \in DOMAIN t /\ t[i] = x
      BY <1>1, <1>2, <1>7, <1>8, <2>1, <2>2
    <3> QED BY <3>1 DEF ToSet
  <2>3. CASE i > k
    <3>1. i - 1 \in DOMAIN t /\ t[i - 1] = x
      BY <1>1, <1>2, <1>7, <1>8, <2>1, <2>3
    <3> QED BY <3>1 DEF ToSet
  <2> QED BY <1>1, <1>2, <2>1, <2>2, <2>3
<1> QED BY <1>6, <1>9, <1>10, <1>11 DEF t

-----------------------------------------------------------------------------
(* The invariant.                                                          *)

\* Places where a request has its thread, and where its fuse_intr_data is set.
Owner == {"prepare", "op", "blocked", "finish", "unset", "reply", "free"}
Inside == {"op", "blocked", "finish", "unset"}

Owns(w, r) == msg[w] = Op(r) /\ wpc[w] \in Owner
Awaits(w, r) == msg[w] = Op(r) /\ wpc[w] \in {"got", "process"}
Runs(w, r) == msg[w] = Op(r) /\ wpc[w] \in Inside
Brings(w, r) == msg[w] = Intr(r) /\ wpc[w] \in {"got", "process"}
Locks(w, r) == msg[w] = Intr(r) /\ wpc[w] \in {"intr_func", "intr_put"}
Carries(w, r) == Brings(w, r) \/ Handling(w, r)

\* A worker serves what it has read.
KindsInv == \A w \in Workers :
    /\ wpc[w] \in {"got", "process"} => msg[w].kind # "none"
    /\ wpc[w] \in Owner => msg[w].kind = "op"
    /\ wpc[w] = "forget" => msg[w].kind = "forget"
    /\ wpc[w] \in {"intr_lock", "intr_func", "intr_put"} => msg[w].kind = "interrupt"

\* A request is read once, and answered by the one that read it.
OpsInv == \A r \in Reqs :
    /\ Op(r) \in device => r \in sent
    /\ r \in answered => r \in sent /\ Op(r) \notin device
    /\ \A w \in Workers : msg[w] = Op(r) => r \in sent /\ Op(r) \notin device
    /\ \A w \in Workers : Awaits(w, r) => r \notin answered
    /\ \A u, v \in Workers : msg[u] = Op(r) /\ msg[v] = Op(r) => u = v

\* Its interrupt is in one place: with the kernel, a worker or the session.
IntrInv == \A r \in Reqs :
    /\ r \in asked => r \in sent /\ Op(r) \notin device
    /\ Intr(r) \in device => r \in asked /\ r \notin ToSet(interrupts)
    /\ r \in ToSet(interrupts) => r \in asked /\ r \notin list
    /\ \A w \in Workers : Carries(w, r) =>
          r \in asked /\ Intr(r) \notin device /\ r \notin ToSet(interrupts)
    /\ \A u, v \in Workers : Carries(u, r) /\ Carries(v, r) => u = v
    /\ \A u, v \in Workers : Handling(u, r) => ~Awaits(v, r)

\* se->list has the requests that have a thread.
ListInv == \A r \in Reqs : r \in list <=> \E w \in Workers : Owns(w, r)

\* The count is one for the thread of a request and one for its interrupt.
CountInv == \A r \in Reqs :
    req[r].ctr = (IF r \in list THEN 1 ELSE 0)
                   + (IF \E w \in Workers : Handling(w, r) THEN 1 ELSE 0)

\* The lock of a request is held over its callback.
LockInv == \A r \in Reqs, w \in Workers : req[r].lock = w <=> Locks(w, r)

\* While the callback is set or runs, the frame of its data is there.
DataInv == \A r \in Reqs :
    /\ req[r].func => \E w \in Workers : Runs(w, r)
    /\ \A w \in Workers : msg[w] = Intr(r) /\ wpc[w] = "intr_func" =>
          \E u \in Workers : Runs(u, r)
    /\ \A w \in Workers : Runs(w, r) => intr_data[r] # "none"

RequestsInv ==
    /\ RequestsTypeOK
    /\ IsInjective(interrupts)
    /\ KindsInv
    /\ OpsInv
    /\ IntrInv
    /\ ListInv
    /\ CountInv
    /\ LockInv
    /\ DataInv

\* An interrupt that was sent is noted in its request, or is somewhere on its
\* way to it.
DeliveryInv == \A r \in asked :
    /\ r \in list => Delivered(r)
    /\ \A v \in Workers : Awaits(v, r) =>
          \/ Intr(r) \in device
          \/ r \in ToSet(interrupts)
          \/ \E w \in Workers : Brings(w, r)

\* Two places of the tables that hold a message hold two messages.
LEMMA MessagesApart ==
    \A a, b : /\ Op(a) = Op(b) => a = b
              /\ Intr(a) = Intr(b) => a = b
              /\ Op(a) # Intr(b) /\ Op(a) # Forget(b) /\ Intr(a) # Forget(b)
BY MessageFacts

\* fuse_free_req and find_interrupted drop one count.
LEMMA DroppedFacts ==
    ASSUME NEW q \in Requests, q.ctr # 0
    PROVE  /\ Dropped(q) \in Requests
           /\ Dropped(q).ctr = q.ctr - 1
           /\ q.ctr = 1 => Dropped(q).lock = Nobody /\ Dropped(q).func = FALSE
           /\ q.ctr # 1 => /\ Dropped(q).lock = q.lock
                           /\ Dropped(q).func = q.func
                           /\ Dropped(q).interrupted = q.interrupted
<1>1. CASE q.ctr = 1
  <2>1. Dropped(q) = Freed
    BY <1>1 DEF Dropped
  <2> QED BY <1>1, <2>1 DEF Freed, Requests
<1>2. CASE q.ctr # 1
  <2>1. Dropped(q) = [q EXCEPT !.ctr = @ - 1]
    BY <1>2 DEF Dropped
  <2>2. q.ctr - 1 \in Nat
    BY <1>2 DEF Requests
  <2> QED BY <1>2, <2>1, <2>2 DEF Requests
<1> QED BY <1>1, <1>2

\* find_interrupted finds the request in service and counts itself.
LEMMA FindCounts ==
    ASSUME NEW w \in Workers, NEW r \in Reqs, RequestsInv,
           wpc[w] = "process", msg[w] = Intr(r),
           msg' = msg, device' = device, list' = list, sent' = sent, asked' = asked,
           answered' = answered, intr_data' = intr_data,
           r \in list, interrupts' = interrupts,
           req' = [req EXCEPT ![r].ctr = @ + 1],
           wpc' = [wpc EXCEPT ![w] = "intr_lock"]
    PROVE  RequestsInv' /\ (DeliveryInv => DeliveryInv')
<1>1. RequestsTypeOK'
  <2>1. req' \in [Reqs -> Requests]
    <3>1. req[r] \in Requests
      BY DEF RequestsInv, RequestsTypeOK
    <3>2. [req[r] EXCEPT !.ctr = @ + 1] \in Requests
      BY <3>1 DEF Requests
    <3> QED BY <3>2 DEF RequestsInv, RequestsTypeOK
  <2> QED BY <2>1 DEF RequestsInv, RequestsTypeOK, Places, Serving
<1>2. IsInjective(interrupts)'
  BY MessageFacts, MessagesApart DEF RequestsInv, RequestsTypeOK, KindsInv
<1>3. KindsInv'
  BY MessageFacts, MessagesApart DEF RequestsInv, RequestsTypeOK, KindsInv, Owner
<1>4. OpsInv'
  BY MessageFacts, MessagesApart
     DEF RequestsInv, RequestsTypeOK, KindsInv, OpsInv, Awaits
<1>5. IntrInv'
  <2>1. \A s \in Reqs, v \in Workers : Carries(v, s)' <=> Carries(v, s)
    BY MessagesApart DEF RequestsInv, RequestsTypeOK, Carries, Brings, Handling
  <2>2. \A s \in Reqs \ {r}, v \in Workers : Handling(v, s)' <=> Handling(v, s)
    BY MessagesApart DEF RequestsInv, RequestsTypeOK, Handling
  <2>3. \A s \in Reqs, v \in Workers : Awaits(v, s)' <=> Awaits(v, s)
    BY MessagesApart DEF RequestsInv, RequestsTypeOK, Awaits
  <2>4. \A v \in Workers : ~Awaits(v, r)
    BY DEF RequestsInv, OpsInv, ListInv, Owns, Owner, Awaits
  <2> QED BY <2>1, <2>2, <2>3, <2>4 DEF RequestsInv, IntrInv
<1>6. ListInv'
  BY MessageFacts, MessagesApart
     DEF RequestsInv, RequestsTypeOK, KindsInv, ListInv, Owns, Owner
<1>7. CountInv'
  <2>1. \A v \in Workers : ~Handling(v, r)
    BY DEF RequestsInv, IntrInv, Carries, Brings, Handling
  <2>2. Handling(w, r)'
    BY DEF RequestsInv, RequestsTypeOK, Handling
  <2>3. \A s \in Reqs \ {r}, v \in Workers : Handling(v, s)' <=> Handling(v, s)
    BY MessagesApart DEF RequestsInv, RequestsTypeOK, Handling
  <2>4. req'[r].ctr = req[r].ctr + 1 /\ \A s \in Reqs \ {r} : req'[s] = req[s]
    BY DEF RequestsInv, RequestsTypeOK, Requests
  <2> QED BY <2>1, <2>2, <2>3, <2>4 DEF RequestsInv, CountInv
<1>8. LockInv'
  BY MessageFacts, MessagesApart
     DEF RequestsInv, RequestsTypeOK, KindsInv, LockInv, Locks, Freed, Dropped
<1>9. DataInv'
  BY MessageFacts, MessagesApart
     DEF RequestsInv, RequestsTypeOK, KindsInv, DataInv, Runs, Inside
<1>10. ASSUME DeliveryInv PROVE DeliveryInv'
  <2>1. \A v \in Workers : ~Awaits(v, r)
    BY DEF RequestsInv, OpsInv, ListInv, Owns, Owner, Awaits
  <2>2. \A s \in Reqs, v \in Workers : Awaits(v, s)' <=> Awaits(v, s)
    BY MessagesApart DEF RequestsInv, RequestsTypeOK, Awaits
  <2>3. \A s \in Reqs \ {r}, v \in Workers : Brings(v, s) => Brings(v, s)'
    BY MessagesApart DEF RequestsInv, RequestsTypeOK, Brings
  <2>4. asked \subseteq Reqs
    BY DEF RequestsInv, RequestsTypeOK
  <2>5. ASSUME NEW s \in asked, s \in list PROVE Delivered(s)'
    <3>1. Delivered(s)
      BY <1>10, <2>5 DEF DeliveryInv
    <3>2. req'[s].interrupted = req[s].interrupted
      BY <2>4, <2>5 DEF RequestsInv, RequestsTypeOK, Requests
    <3>3. \A v \in Workers : msg[v] = Intr(s) /\ wpc[v] \in {"got", "process", "intr_lock"}
              => (msg[v] = Intr(s) /\ wpc[v] \in {"got", "process", "intr_lock"})'
      BY DEF RequestsInv, RequestsTypeOK
    <3> QED BY <3>1, <3>2, <3>3 DEF Delivered
  <2> QED BY <1>10, <2>1, <2>2, <2>3, <2>4, <2>5 DEF DeliveryInv
<1> QED BY <1>1, <1>2, <1>3, <1>4, <1>5, <1>6, <1>7, <1>8, <1>9, <1>10 DEF RequestsInv

\* find_interrupted finds nothing, and the interrupt is kept.
LEMMA FindKept ==
    ASSUME NEW w \in Workers, NEW r \in Reqs, RequestsInv,
           wpc[w] = "process", msg[w] = Intr(r),
           msg' = msg, device' = device, list' = list, sent' = sent, asked' = asked,
           answered' = answered, intr_data' = intr_data,
           r \notin list, req' = req,
           interrupts' = IF r \in ToSet(interrupts) THEN interrupts ELSE Append(interrupts, r),
           wpc' = [wpc EXCEPT ![w] = "after"]
    PROVE  RequestsInv' /\ (DeliveryInv => DeliveryInv')
<1>a. /\ interrupts' \in Seq(Reqs) /\ IsInjective(interrupts')
      /\ ToSet(interrupts') = ToSet(interrupts) \cup {r}
  BY AppendOnce DEF RequestsInv, RequestsTypeOK
<1>1. RequestsTypeOK'
  BY <1>a DEF RequestsInv, RequestsTypeOK, Places, Serving
<1>2. IsInjective(interrupts)'
  BY <1>a
<1>3. KindsInv'
  BY MessageFacts, MessagesApart DEF RequestsInv, RequestsTypeOK, KindsInv, Owner
<1>4. OpsInv'
  BY MessageFacts, MessagesApart
     DEF RequestsInv, RequestsTypeOK, KindsInv, OpsInv, Awaits
<1>5. IntrInv'
  <2>1. Carries(w, r)
    BY DEF Carries, Brings
  <2>2. \A v \in Workers : ~Carries(v, r)'
    BY <2>1 DEF RequestsInv, IntrInv, RequestsTypeOK, Carries, Brings, Handling
  <2>3. \A s \in Reqs \ {r}, v \in Workers : Carries(v, s)' <=> Carries(v, s)
    BY MessagesApart DEF RequestsInv, RequestsTypeOK, Carries, Brings, Handling
  <2>4. \A s \in Reqs, v \in Workers : Handling(v, s)' <=> Handling(v, s)
    BY MessagesApart DEF RequestsInv, RequestsTypeOK, Handling
  <2>5. \A s \in Reqs, v \in Workers : Awaits(v, s)' <=> Awaits(v, s)
    BY MessagesApart DEF RequestsInv, RequestsTypeOK, Awaits
  <2>6. r \in asked /\ Intr(r) \notin device
    BY <2>1 DEF RequestsInv, IntrInv
  <2> QED BY <1>a, <2>2, <2>3, <2>4, <2>5, <2>6 DEF RequestsInv, IntrInv
<1>6. ListInv'
  BY MessageFacts, MessagesApart
     DEF RequestsInv, RequestsTypeOK, KindsInv, ListInv, Owns, Owner
<1>7. CountInv'
  <2>1. \A s \in Reqs, v \in Workers : Handling(v, s)' <=> Handling(v, s)
    BY MessagesApart DEF RequestsInv, RequestsTypeOK, Handling
  <2> QED BY <2>1 DEF RequestsInv, CountInv
<1>8. LockInv'
  BY MessageFacts, MessagesApart
     DEF RequestsInv, RequestsTypeOK, KindsInv, LockInv, Locks, Freed, Dropped
<1>9. DataInv'
  BY MessageFacts, MessagesApart
     DEF RequestsInv, RequestsTypeOK, KindsInv, DataInv, Runs, Inside
<1>10. ASSUME DeliveryInv PROVE DeliveryInv'
  <2>1. \A s \in Reqs, v \in Workers : Awaits(v, s)' <=> Awaits(v, s)
    BY MessagesApart DEF RequestsInv, RequestsTypeOK, Awaits
  <2>2. \A s \in Reqs \ {r}, v \in Workers : Brings(v, s) => Brings(v, s)'
    BY MessagesApart DEF RequestsInv, RequestsTypeOK, Brings
  <2>3. ASSUME NEW s \in asked, s \in list PROVE Delivered(s)'
    <3>1. Delivered(s) /\ s # r
      BY <1>10, <2>3 DEF DeliveryInv
    <3>2. \A v \in Workers : msg[v] = Intr(s) /\ wpc[v] \in {"got", "process", "intr_lock"}
              => (msg[v] = Intr(s) /\ wpc[v] \in {"got", "process", "intr_lock"})'
      BY <3>1, MessagesApart DEF RequestsInv, RequestsTypeOK
    <3> QED BY <3>1, <3>2 DEF Delivered
  <2>4. asked \subseteq Reqs
    BY DEF RequestsInv, RequestsTypeOK
  <2> QED BY <1>a, <1>10, <2>1, <2>2, <2>3, <2>4 DEF DeliveryInv
<1> QED BY <1>1, <1>2, <1>3, <1>4, <1>5, <1>6, <1>7, <1>8, <1>9, <1>10 DEF RequestsInv

\* A step inside a handler changes nothing a request is found by.
LEMMA OpStepKeeps ==
    ASSUME NEW w \in Workers, RequestsInv, OpStep(w)
    PROVE  RequestsInv' /\ (DeliveryInv => DeliveryInv')
<1>0. PICK r \in Reqs : msg[w].id = r /\ msg[w] = Op(r)
  BY MessageFacts DEF RequestsInv, RequestsTypeOK, KindsInv, Owner, OpStep
<1>1. RequestsTypeOK'
  BY <1>0, MessageFacts, MessagesApart
     DEF RequestsInv, RequestsTypeOK, KindsInv, kernel, session, Goto, OpStep,
         Requests, Serving, Places
<1>2. IsInjective(interrupts)'
  BY <1>0, MessageFacts, MessagesApart
     DEF RequestsInv, RequestsTypeOK, KindsInv, kernel, session, Goto, OpStep
<1>3. KindsInv'
  BY <1>0, MessageFacts, MessagesApart
     DEF RequestsInv, RequestsTypeOK, KindsInv, kernel, session, Goto, OpStep, Owner
<1>4. OpsInv'
  BY <1>0, MessageFacts, MessagesApart
     DEF RequestsInv, RequestsTypeOK, KindsInv, kernel, session, Goto, OpStep, OpsInv,
         Awaits
<1>5. IntrInv'
  BY <1>0, MessageFacts, MessagesApart
     DEF RequestsInv, RequestsTypeOK, KindsInv, kernel, session, Goto, OpStep, IntrInv,
         Owner, Awaits, Brings, Carries, Handling
<1>6. ListInv'
  BY <1>0, MessageFacts, MessagesApart
     DEF RequestsInv, RequestsTypeOK, KindsInv, kernel, session, Goto, OpStep, ListInv,
         Owns, Owner
<1>7. CountInv'
  BY <1>0, MessageFacts, MessagesApart
     DEF RequestsInv, RequestsTypeOK, KindsInv, kernel, session, Goto, OpStep,
         CountInv, Freed, Dropped, Handling
<1>8. LockInv'
  BY <1>0, MessageFacts, MessagesApart
     DEF RequestsInv, RequestsTypeOK, KindsInv, kernel, session, Goto, OpStep, LockInv,
         Locks, Freed, Dropped
<1>9. DataInv'
  BY <1>0, MessageFacts, MessagesApart
     DEF RequestsInv, RequestsTypeOK, KindsInv, kernel, session, Goto, OpStep, DataInv,
         Runs, Inside
<1>10. ASSUME DeliveryInv PROVE DeliveryInv'
  BY <1>0, <1>10, MessageFacts, MessagesApart
     DEF RequestsInv, RequestsTypeOK, KindsInv, kernel, session, Goto, OpStep, OpsInv,
         IntrInv, ListInv, DeliveryInv, Delivered, Awaits, Brings
<1> QED BY <1>1, <1>2, <1>3, <1>4, <1>5, <1>6, <1>7, <1>8, <1>9, <1>10 DEF RequestsInv

\* A handler that starts takes its request along.
LEMMA PrepareKeeps ==
    ASSUME NEW w \in Workers, RequestsInv, Prepare(w)
    PROVE  RequestsInv' /\ (DeliveryInv => DeliveryInv')
<1>0. PICK r \in Reqs : msg[w].id = r /\ msg[w] = Op(r)
  BY MessageFacts DEF RequestsInv, RequestsTypeOK, KindsInv, Owner, Prepare
<1>1. RequestsTypeOK'
  <2>1. req' \in [Reqs -> Requests]
    <3>1. req[r] \in Requests
      BY <1>0 DEF RequestsInv, RequestsTypeOK
    <3>2. [req[r] EXCEPT !.func = TRUE] \in Requests
      BY <1>0, <3>1 DEF Requests
    <3> QED BY <1>0, <3>2 DEF Prepare, RequestsInv, RequestsTypeOK
  <2> QED BY <1>0, <2>1
             DEF RequestsInv, RequestsTypeOK, KindsInv, kernel, session, Goto, Prepare,
                 Places, Serving
<1>2. IsInjective(interrupts)'
  BY <1>0, MessageFacts, MessagesApart
     DEF RequestsInv, RequestsTypeOK, KindsInv, kernel, session, Goto, Prepare
<1>3. KindsInv'
  BY <1>0, MessageFacts, MessagesApart
     DEF RequestsInv, RequestsTypeOK, KindsInv, kernel, session, Goto, Prepare, Owner
<1>4. OpsInv'
  BY <1>0, MessageFacts, MessagesApart
     DEF RequestsInv, RequestsTypeOK, KindsInv, kernel, session, Goto, Prepare, OpsInv,
         Awaits
<1>5. IntrInv'
  BY <1>0, MessageFacts, MessagesApart
     DEF RequestsInv, RequestsTypeOK, KindsInv, kernel, session, Goto, Prepare,
         IntrInv, Owner, Awaits, Brings, Carries, Handling
<1>6. ListInv'
  BY <1>0, MessageFacts, MessagesApart
     DEF RequestsInv, RequestsTypeOK, KindsInv, kernel, session, Goto, Prepare,
         ListInv, Owns, Owner
<1>7. CountInv'
  <2>1. \A s \in Reqs : req'[s].ctr = req[s].ctr /\ (s \in list' <=> s \in list)
    BY <1>0, RequestsAssumption
       DEF Prepare, session, RequestsInv, RequestsTypeOK, Requests
  <2>2. \A s \in Reqs, v \in Workers : Handling(v, s)' <=> Handling(v, s)
    BY <1>0, MessagesApart
       DEF Prepare, session, Goto, RequestsInv, RequestsTypeOK, Handling
  <2> QED BY <2>1, <2>2 DEF RequestsInv, CountInv
<1>8. LockInv'
  BY <1>0, MessageFacts, MessagesApart
     DEF RequestsInv, RequestsTypeOK, KindsInv, kernel, session, Goto, Prepare,
         LockInv, Locks, Freed, Dropped
<1>9. DataInv'
  <2>1. Runs(w, r)'
    BY <1>0
       DEF RequestsInv, RequestsTypeOK, KindsInv, kernel, session, Goto, Prepare, Runs,
           Inside
  <2>2. \A s \in Reqs \ {r}, v \in Workers : Runs(v, s)' <=> Runs(v, s)
    BY <1>0, MessagesApart
       DEF RequestsInv, RequestsTypeOK, KindsInv, kernel, session, Goto, Prepare, Runs,
           Inside
  <2>3. \A s \in Reqs \ {r} : req'[s].func = req[s].func /\ intr_data'[s] = intr_data[s]
    BY <1>0 DEF RequestsInv, RequestsTypeOK, KindsInv, kernel, session, Goto, Prepare
  <2>4. \A s \in Reqs, v \in Workers :
           (msg[v] = Intr(s) /\ wpc[v] = "intr_func")' => msg[v] = Intr(s) /\ wpc[v] = "intr_func"
    BY <1>0 DEF RequestsInv, RequestsTypeOK, KindsInv, kernel, session, Goto, Prepare
  <2>5. intr_data'[r] = "armed"
    BY <1>0 DEF RequestsInv, RequestsTypeOK, KindsInv, kernel, session, Goto, Prepare
  <2> QED BY <1>0, <2>1, <2>2, <2>3, <2>4, <2>5 DEF RequestsInv, DataInv
<1>10. ASSUME DeliveryInv PROVE DeliveryInv'
  BY <1>0, <1>10, MessageFacts, MessagesApart
     DEF RequestsInv, RequestsTypeOK, KindsInv, kernel, session, Goto, Prepare, OpsInv,
         IntrInv, ListInv, DeliveryInv, Delivered, Awaits, Brings
<1> QED BY <1>1, <1>2, <1>3, <1>4, <1>5, <1>6, <1>7, <1>8, <1>9, <1>10 DEF RequestsInv

\* A handler that ends leaves the request to its reply.
LEMMA FinishKeeps ==
    ASSUME NEW w \in Workers, RequestsInv, Finish(w)
    PROVE  RequestsInv' /\ (DeliveryInv => DeliveryInv')
<1>0. PICK r \in Reqs : msg[w].id = r /\ msg[w] = Op(r)
  BY MessageFacts DEF RequestsInv, RequestsTypeOK, KindsInv, Owner, Finish
<1>1. RequestsTypeOK'
  BY <1>0, MessageFacts, MessagesApart
     DEF RequestsInv, RequestsTypeOK, KindsInv, kernel, session, Goto, Finish,
         Requests, Serving, Places
<1>2. IsInjective(interrupts)'
  BY <1>0, MessageFacts, MessagesApart
     DEF RequestsInv, RequestsTypeOK, KindsInv, kernel, session, Goto, Finish
<1>3. KindsInv'
  BY <1>0, MessageFacts, MessagesApart
     DEF RequestsInv, RequestsTypeOK, KindsInv, kernel, session, Goto, Finish, Owner
<1>4. OpsInv'
  BY <1>0, MessageFacts, MessagesApart
     DEF RequestsInv, RequestsTypeOK, KindsInv, kernel, session, Goto, Finish, OpsInv,
         Awaits
<1>5. IntrInv'
  BY <1>0, MessageFacts, MessagesApart
     DEF RequestsInv, RequestsTypeOK, KindsInv, kernel, session, Goto, Finish, IntrInv,
         Owner, Awaits, Brings, Carries, Handling
<1>6. ListInv'
  BY <1>0, MessageFacts, MessagesApart
     DEF RequestsInv, RequestsTypeOK, KindsInv, kernel, session, Goto, Finish, ListInv,
         Owns, Owner
<1>7. CountInv'
  BY <1>0, MessageFacts, MessagesApart
     DEF RequestsInv, RequestsTypeOK, KindsInv, kernel, session, Goto, Finish,
         CountInv, Freed, Dropped, Handling
<1>8. LockInv'
  BY <1>0, MessageFacts, MessagesApart
     DEF RequestsInv, RequestsTypeOK, KindsInv, kernel, session, Goto, Finish, LockInv,
         Locks, Freed, Dropped
<1>9. DataInv'
  BY <1>0, MessageFacts, MessagesApart
     DEF RequestsInv, RequestsTypeOK, KindsInv, kernel, session, Goto, Finish, DataInv,
         Runs, Inside
<1>10. ASSUME DeliveryInv PROVE DeliveryInv'
  BY <1>0, <1>10, MessageFacts, MessagesApart
     DEF RequestsInv, RequestsTypeOK, KindsInv, kernel, session, Goto, Finish, OpsInv,
         IntrInv, ListInv, DeliveryInv, Delivered, Awaits, Brings
<1> QED BY <1>1, <1>2, <1>3, <1>4, <1>5, <1>6, <1>7, <1>8, <1>9, <1>10 DEF RequestsInv

\* Unsetting the callback leaves the request where it is.
LEMMA UnsetKeeps ==
    ASSUME NEW w \in Workers, RequestsInv, Unset(w)
    PROVE  RequestsInv' /\ (DeliveryInv => DeliveryInv')
<1>0. PICK r \in Reqs : msg[w].id = r /\ msg[w] = Op(r)
  BY MessageFacts DEF RequestsInv, RequestsTypeOK, KindsInv, Owner, Unset
<1>1. RequestsTypeOK'
  <2>1. req' \in [Reqs -> Requests]
    <3>1. req[r] \in Requests
      BY <1>0 DEF RequestsInv, RequestsTypeOK
    <3>2. [req[r] EXCEPT !.func = FALSE] \in Requests
      BY <1>0, <3>1 DEF Requests
    <3> QED BY <1>0, <3>2 DEF Unset, RequestsInv, RequestsTypeOK
  <2> QED BY <1>0, <2>1
             DEF RequestsInv, RequestsTypeOK, KindsInv, kernel, session, Goto, Unset,
                 Places, Serving
<1>2. IsInjective(interrupts)'
  BY <1>0, MessageFacts, MessagesApart
     DEF RequestsInv, RequestsTypeOK, KindsInv, kernel, session, Goto, Unset
<1>3. KindsInv'
  BY <1>0, MessageFacts, MessagesApart
     DEF RequestsInv, RequestsTypeOK, KindsInv, kernel, session, Goto, Unset, Owner
<1>4. OpsInv'
  BY <1>0, MessageFacts, MessagesApart
     DEF RequestsInv, RequestsTypeOK, KindsInv, kernel, session, Goto, Unset, OpsInv,
         Awaits
<1>5. IntrInv'
  BY <1>0, MessageFacts, MessagesApart
     DEF RequestsInv, RequestsTypeOK, KindsInv, kernel, session, Goto, Unset, IntrInv,
         Owner, Awaits, Brings, Carries, Handling
<1>6. ListInv'
  BY <1>0, MessageFacts, MessagesApart
     DEF RequestsInv, RequestsTypeOK, KindsInv, kernel, session, Goto, Unset, ListInv,
         Owns, Owner
<1>7. CountInv'
  <2>1. \A s \in Reqs : req'[s].ctr = req[s].ctr /\ (s \in list' <=> s \in list)
    BY <1>0, RequestsAssumption
       DEF Unset, session, RequestsInv, RequestsTypeOK, Requests
  <2>2. \A s \in Reqs, v \in Workers : Handling(v, s)' <=> Handling(v, s)
    BY <1>0, MessagesApart
       DEF Unset, session, Goto, RequestsInv, RequestsTypeOK, Handling
  <2> QED BY <2>1, <2>2 DEF RequestsInv, CountInv
<1>8. LockInv'
  BY <1>0, MessageFacts, MessagesApart
     DEF RequestsInv, RequestsTypeOK, KindsInv, kernel, session, Goto, Unset, LockInv,
         Locks, Freed, Dropped
<1>9. DataInv'
  <2>1. \A s \in Reqs \ {r}, v \in Workers : Runs(v, s)' <=> Runs(v, s)
    BY <1>0, MessagesApart
       DEF RequestsInv, RequestsTypeOK, KindsInv, kernel, session, Goto, Unset, Runs,
           Inside
  <2>2. \A v \in Workers : ~Runs(v, r)'
    BY <1>0
       DEF RequestsInv, RequestsTypeOK, KindsInv, kernel, session, Goto, OpsInv, Unset,
           Runs, Inside
  <2>3. \A s \in Reqs \ {r} : req'[s].func = req[s].func /\ intr_data'[s] = intr_data[s]
    BY <1>0 DEF RequestsInv, RequestsTypeOK, KindsInv, kernel, session, Goto, Unset
  <2>4. \A s \in Reqs, v \in Workers :
           (msg[v] = Intr(s) /\ wpc[v] = "intr_func")' => msg[v] = Intr(s) /\ wpc[v] = "intr_func"
    BY <1>0 DEF RequestsInv, RequestsTypeOK, KindsInv, kernel, session, Goto, Unset
  <2>5. \A v \in Workers : ~(msg[v] = Intr(r) /\ wpc[v] = "intr_func")
    BY <1>0, RequestsAssumption DEF RequestsInv, LockInv, Locks, Unset
  <2>6. req'[r].func = FALSE
    BY <1>0
       DEF RequestsInv, RequestsTypeOK, KindsInv, kernel, session, Goto, Requests,
           Unset
  <2> QED BY <1>0, <2>1, <2>2, <2>3, <2>4, <2>5, <2>6 DEF RequestsInv, DataInv
<1>10. ASSUME DeliveryInv PROVE DeliveryInv'
  BY <1>0, <1>10, MessageFacts, MessagesApart
     DEF RequestsInv, RequestsTypeOK, KindsInv, kernel, session, Goto, Unset, OpsInv,
         IntrInv, ListInv, DeliveryInv, Delivered, Awaits, Brings
<1> QED BY <1>1, <1>2, <1>3, <1>4, <1>5, <1>6, <1>7, <1>8, <1>9, <1>10 DEF RequestsInv

\* A reply is sent once, and its request goes to be freed.
LEMMA ReplyKeeps ==
    ASSUME NEW w \in Workers, RequestsInv, Reply(w)
    PROVE  RequestsInv' /\ (DeliveryInv => DeliveryInv')
<1>0. PICK r \in Reqs : msg[w].id = r /\ msg[w] = Op(r)
  BY MessageFacts DEF RequestsInv, RequestsTypeOK, KindsInv, Owner, Reply
<1>1. RequestsTypeOK'
  BY <1>0
     DEF RequestsInv, RequestsTypeOK, KindsInv, kernel, session, Goto, Reply, Places,
         Serving
<1>2. IsInjective(interrupts)'
  BY <1>0, MessageFacts, MessagesApart
     DEF RequestsInv, RequestsTypeOK, KindsInv, kernel, session, Goto, Reply
<1>3. KindsInv'
  BY <1>0, MessageFacts, MessagesApart
     DEF RequestsInv, RequestsTypeOK, KindsInv, kernel, session, Goto, Reply, Owner
<1>4. OpsInv'
  <2>1. \A v \in Workers : ~Awaits(v, r)'
    BY <1>0
       DEF RequestsInv, RequestsTypeOK, KindsInv, kernel, session, Goto, OpsInv, Reply,
           Awaits
  <2>2. \A s \in Reqs \ {r}, v \in Workers : Awaits(v, s)' <=> Awaits(v, s)
    BY <1>0, MessagesApart
       DEF RequestsInv, RequestsTypeOK, KindsInv, kernel, session, Goto, Reply, Awaits
  <2>3. r \in sent /\ Op(r) \notin device
    BY <1>0 DEF RequestsInv, OpsInv
  <2>4. answered' = answered \cup {r} /\ UNCHANGED <<sent, device, msg>>
    BY <1>0 DEF Reply
  <2> QED BY <1>0, <2>1, <2>2, <2>3, <2>4 DEF RequestsInv, OpsInv
<1>5. IntrInv'
  BY <1>0, MessageFacts, MessagesApart
     DEF RequestsInv, RequestsTypeOK, KindsInv, kernel, session, Goto, Reply, IntrInv,
         Owner, Awaits, Brings, Carries, Handling
<1>6. ListInv'
  BY <1>0, MessageFacts, MessagesApart
     DEF RequestsInv, RequestsTypeOK, KindsInv, kernel, session, Goto, Reply, ListInv,
         Owns, Owner
<1>7. CountInv'
  BY <1>0, MessageFacts, MessagesApart
     DEF RequestsInv, RequestsTypeOK, KindsInv, kernel, session, Goto, Reply, CountInv,
         Freed, Dropped, Handling
<1>8. LockInv'
  BY <1>0, MessageFacts, MessagesApart
     DEF RequestsInv, RequestsTypeOK, KindsInv, kernel, session, Goto, Reply, LockInv,
         Locks, Freed, Dropped
<1>9. DataInv'
  BY <1>0, MessageFacts, MessagesApart
     DEF RequestsInv, RequestsTypeOK, KindsInv, kernel, session, Goto, Reply, DataInv,
         Runs, Inside
<1>10. ASSUME DeliveryInv PROVE DeliveryInv'
  BY <1>0, <1>10, MessageFacts, MessagesApart
     DEF RequestsInv, RequestsTypeOK, KindsInv, kernel, session, Goto, Reply, OpsInv,
         IntrInv, ListInv, DeliveryInv, Delivered, Awaits, Brings
<1> QED BY <1>1, <1>2, <1>3, <1>4, <1>5, <1>6, <1>7, <1>8, <1>9, <1>10 DEF RequestsInv

\* A request is unlinked from the lists before its memory is free.
LEMMA FreeReqKeeps ==
    ASSUME NEW w \in Workers, RequestsInv, fuse_free_req(w)
    PROVE  RequestsInv' /\ (DeliveryInv => DeliveryInv')
<1>0. PICK r \in Reqs : msg[w].id = r /\ msg[w] = Op(r)
  BY MessageFacts DEF RequestsInv, RequestsTypeOK, KindsInv, Owner, fuse_free_req
<1>a. /\ req[r] \in Requests /\ req[r].ctr # 0
      /\ req[r].ctr = 1 => \A v \in Workers : ~Handling(v, r)
      /\ req[r].ctr # 1 => req[r].ctr = 2 /\ \E v \in Workers : Handling(v, r)
  <2>1. r \in list
    BY <1>0 DEF RequestsInv, ListInv, Owns, Owner, fuse_free_req
  <2>2. req[r].ctr = 1 + (IF \E v \in Workers : Handling(v, r) THEN 1 ELSE 0)
    BY <2>1 DEF RequestsInv, CountInv
  <2>3. req[r] \in Requests
    BY DEF RequestsInv, RequestsTypeOK
  <2> QED BY <2>2, <2>3
<1>b. req' = [req EXCEPT ![r] = Dropped([req[r] EXCEPT !.func = FALSE])]
  BY <1>0 DEF fuse_free_req
<1>c. /\ req'[r] \in Requests
      /\ req'[r].ctr = req[r].ctr - 1
      /\ req'[r].func = FALSE
      /\ req[r].ctr = 1 => req'[r].lock = Nobody
      /\ req[r].ctr # 1 => req'[r].lock = req[r].lock
      /\ \A s \in Reqs \ {r} : req'[s] = req[s]
  <2> DEFINE q == [req[r] EXCEPT !.func = FALSE]
  <2>1. q \in Requests /\ q.ctr = req[r].ctr /\ q.lock = req[r].lock /\ q.func = FALSE
    BY <1>a DEF Requests
  <2>2. req'[r] = Dropped(q) /\ \A s \in Reqs \ {r} : req'[s] = req[s]
    BY <1>0, <1>b DEF RequestsInv, RequestsTypeOK
  <2> HIDE DEF q
  <2> QED BY <1>a, <2>1, <2>2, DroppedFacts
<1>1. RequestsTypeOK'
  <2>1. req' \in [Reqs -> Requests]
    BY <1>0, <1>b, <1>c DEF RequestsInv, RequestsTypeOK
  <2> QED BY <1>0, <2>1
             DEF RequestsInv, RequestsTypeOK, KindsInv, kernel, session, Goto,
                 fuse_free_req, Places, Serving
<1>2. IsInjective(interrupts)'
  BY <1>0, MessageFacts, MessagesApart
     DEF RequestsInv, RequestsTypeOK, KindsInv, kernel, session, Goto, fuse_free_req
<1>3. KindsInv'
  BY <1>0, MessageFacts, MessagesApart
     DEF RequestsInv, RequestsTypeOK, KindsInv, kernel, session, Goto, fuse_free_req,
         Owner
<1>4. OpsInv'
  BY <1>0, MessageFacts, MessagesApart
     DEF RequestsInv, RequestsTypeOK, KindsInv, kernel, session, Goto, fuse_free_req,
         OpsInv, Awaits
<1>5. IntrInv'
  BY <1>0, MessageFacts, MessagesApart
     DEF RequestsInv, RequestsTypeOK, KindsInv, kernel, session, Goto, fuse_free_req,
         IntrInv, Owner, Awaits, Brings, Carries, Handling
<1>6. ListInv'
  <2>1. \A v \in Workers : ~Owns(v, r)'
    BY <1>0
       DEF RequestsInv, RequestsTypeOK, KindsInv, kernel, session, Goto, OpsInv,
           fuse_free_req, Owns, Owner
  <2>2. \A s \in Reqs \ {r}, v \in Workers : Owns(v, s)' <=> Owns(v, s)
    BY <1>0, MessagesApart
       DEF RequestsInv, RequestsTypeOK, KindsInv, kernel, session, Goto, fuse_free_req,
           Owns, Owner
  <2>3. list' = list \ {r}
    BY <1>0 DEF fuse_free_req
  <2> QED BY <1>0, <2>1, <2>2, <2>3 DEF RequestsInv, ListInv
<1>7. CountInv'
  <2>1. \A s \in Reqs, v \in Workers : Handling(v, s)' <=> Handling(v, s)
    BY <1>0, MessagesApart
       DEF RequestsInv, RequestsTypeOK, KindsInv, kernel, session, Goto, fuse_free_req,
           Handling
  <2>2. list' = list \ {r}
    BY <1>0 DEF fuse_free_req
  <2> QED BY <1>0, <1>a, <1>c, <2>1, <2>2 DEF RequestsInv, CountInv
<1>8. LockInv'
  <2>1. \A s \in Reqs, v \in Workers : Locks(v, s)' <=> Locks(v, s)
    BY <1>0, MessagesApart
       DEF RequestsInv, RequestsTypeOK, KindsInv, kernel, session, Goto, fuse_free_req,
           Locks
  <2>2. \A v \in Workers : Locks(v, r) => Handling(v, r)
    BY DEF Locks, Handling
  <2>3. req[r].ctr = 1 => \A v \in Workers : ~Locks(v, r)
    BY <1>a, <2>2
  <2> QED BY <1>0, <1>c, <2>1, <2>3, RequestsAssumption DEF RequestsInv, LockInv
<1>9. DataInv'
  <2>1. \A s \in Reqs, v \in Workers : Runs(v, s)' <=> Runs(v, s)
    BY <1>0, MessagesApart
       DEF RequestsInv, RequestsTypeOK, KindsInv, kernel, session, Goto, fuse_free_req,
           Runs, Inside
  <2>2. \A s \in Reqs, v \in Workers :
           (msg[v] = Intr(s) /\ wpc[v] = "intr_func")' => msg[v] = Intr(s) /\ wpc[v] = "intr_func"
    BY <1>0
       DEF RequestsInv, RequestsTypeOK, KindsInv, kernel, session, Goto, fuse_free_req
  <2>3. \A s \in Reqs : req'[s].func => req[s].func
    BY <1>0, <1>c
  <2>4. intr_data' = intr_data
    BY DEF fuse_free_req
  <2> QED BY <2>1, <2>2, <2>3, <2>4 DEF RequestsInv, DataInv
<1>10. ASSUME DeliveryInv PROVE DeliveryInv'
  BY <1>0, <1>10, MessageFacts, MessagesApart
     DEF RequestsInv, RequestsTypeOK, KindsInv, kernel, session, Goto, fuse_free_req,
         OpsInv, IntrInv, ListInv, DeliveryInv, Delivered, Awaits, Brings
<1> QED BY <1>1, <1>2, <1>3, <1>4, <1>5, <1>6, <1>7, <1>8, <1>9, <1>10 DEF RequestsInv

\* A forget ends without a reply.
LEMMA ForgetDoneKeeps ==
    ASSUME NEW w \in Workers, RequestsInv, ForgetDone(w)
    PROVE  RequestsInv' /\ (DeliveryInv => DeliveryInv')
<1>0. PICK r \in Forgets : msg[w].id = r /\ msg[w] = Forget(r)
  BY MessageFacts DEF RequestsInv, RequestsTypeOK, KindsInv, Owner, ForgetDone
<1>1. RequestsTypeOK'
  BY <1>0, MessageFacts, MessagesApart
     DEF RequestsInv, RequestsTypeOK, KindsInv, kernel, session, Goto, ForgetDone,
         Requests, Serving, Places
<1>2. IsInjective(interrupts)'
  BY <1>0, MessageFacts, MessagesApart
     DEF RequestsInv, RequestsTypeOK, KindsInv, kernel, session, Goto, ForgetDone
<1>3. KindsInv'
  BY <1>0, MessageFacts, MessagesApart
     DEF RequestsInv, RequestsTypeOK, KindsInv, kernel, session, Goto, ForgetDone,
         Owner
<1>4. OpsInv'
  BY <1>0, MessageFacts, MessagesApart
     DEF RequestsInv, RequestsTypeOK, KindsInv, kernel, session, Goto, ForgetDone,
         OpsInv, Awaits
<1>5. IntrInv'
  BY <1>0, MessageFacts, MessagesApart
     DEF RequestsInv, RequestsTypeOK, KindsInv, kernel, session, Goto, ForgetDone,
         IntrInv, Owner, Awaits, Brings, Carries, Handling
<1>6. ListInv'
  <2>1. \A s \in Reqs : s \in list' <=> s \in list
    BY <1>0, RequestsAssumption DEF ForgetDone
  <2>2. \A s \in Reqs, v \in Workers : Owns(v, s)' <=> Owns(v, s)
    BY <1>0, MessagesApart
       DEF ForgetDone, Goto, RequestsInv, RequestsTypeOK, Owns, Owner
  <2> QED BY <2>1, <2>2 DEF RequestsInv, ListInv
<1>7. CountInv'
  <2>1. \A s \in Reqs : req'[s].ctr = req[s].ctr /\ (s \in list' <=> s \in list)
    BY <1>0, RequestsAssumption
       DEF ForgetDone, session, RequestsInv, RequestsTypeOK, Requests
  <2>2. \A s \in Reqs, v \in Workers : Handling(v, s)' <=> Handling(v, s)
    BY <1>0, MessagesApart
       DEF ForgetDone, session, Goto, RequestsInv, RequestsTypeOK, Handling
  <2> QED BY <2>1, <2>2 DEF RequestsInv, CountInv
<1>8. LockInv'
  BY <1>0, MessageFacts, MessagesApart
     DEF RequestsInv, RequestsTypeOK, KindsInv, kernel, session, Goto, ForgetDone,
         LockInv, Locks, Freed, Dropped
<1>9. DataInv'
  BY <1>0, MessageFacts, MessagesApart
     DEF RequestsInv, RequestsTypeOK, KindsInv, kernel, session, Goto, ForgetDone,
         DataInv, Runs, Inside
<1>10. ASSUME DeliveryInv PROVE DeliveryInv'
  BY <1>0, <1>10, MessageFacts, MessagesApart
     DEF RequestsInv, RequestsTypeOK, KindsInv, kernel, session, Goto, ForgetDone,
         OpsInv, IntrInv, ListInv, DeliveryInv, Delivered, Awaits, Brings
<1> QED BY <1>1, <1>2, <1>3, <1>4, <1>5, <1>6, <1>7, <1>8, <1>9, <1>10 DEF RequestsInv

\* The search for an interrupted request moves the interrupt or the mark.
LEMMA FindKeeps ==
    ASSUME NEW w \in Workers, RequestsInv, Find(w)
    PROVE  RequestsInv' /\ (DeliveryInv => DeliveryInv')
<1>0. PICK r \in Reqs : msg[w].id = r /\ msg[w] = Intr(r)
  BY MessageFacts DEF RequestsInv, RequestsTypeOK, KindsInv, Owner, Find, At
<1>a. /\ msg' = msg /\ device' = device /\ list' = list
      /\ sent' = sent /\ asked' = asked /\ answered' = answered /\ intr_data' = intr_data
  BY DEF Find, At, kernel
<1>b. CASE r \in list
  <2>1. /\ req' = [req EXCEPT ![r].ctr = @ + 1]
        /\ wpc' = [wpc EXCEPT ![w] = "intr_lock"]
        /\ interrupts' = interrupts
    BY <1>0, <1>b DEF Find, At, Goto
  <2> QED BY <1>0, <1>a, <1>b, <2>1, FindCounts DEF Find, At
<1>c. CASE r \notin list
  <2>1. /\ interrupts' = IF r \in ToSet(interrupts) THEN interrupts ELSE Append(interrupts, r)
        /\ wpc' = [wpc EXCEPT ![w] = "after"]
        /\ req' = req
    BY <1>0, <1>c DEF Find, At, Goto
  <2> QED BY <1>0, <1>a, <1>c, <2>1, FindKept DEF Find, At
<1> QED BY <1>b, <1>c

\* A worker that found the request holds its lock to call back.
LEMMA InterruptKeeps ==
    ASSUME NEW w \in Workers, RequestsInv, Interrupt(w)
    PROVE  RequestsInv' /\ (DeliveryInv => DeliveryInv')
<1>0. PICK r \in Reqs : msg[w].id = r /\ msg[w] = Intr(r)
  BY MessageFacts DEF RequestsInv, RequestsTypeOK, KindsInv, Owner, Interrupt
<1>1. RequestsTypeOK'
  <2>1. req' \in [Reqs -> Requests]
    <3>1. req[r] \in Requests
      BY <1>0 DEF RequestsInv, RequestsTypeOK
    <3>2. [req[r] EXCEPT !.interrupted = TRUE, !.lock = w] \in Requests
      BY <1>0, <3>1 DEF Requests
    <3> QED BY <1>0, <3>2 DEF Interrupt, RequestsInv, RequestsTypeOK
  <2> QED BY <1>0, <2>1
             DEF RequestsInv, RequestsTypeOK, KindsInv, kernel, session, Goto, Interrupt,
                 Places, Serving
<1>2. IsInjective(interrupts)'
  BY <1>0, MessageFacts, MessagesApart
     DEF RequestsInv, RequestsTypeOK, KindsInv, kernel, session, Goto, Interrupt
<1>3. KindsInv'
  BY <1>0, MessageFacts, MessagesApart
     DEF RequestsInv, RequestsTypeOK, KindsInv, kernel, session, Goto, Interrupt, Owner
<1>4. OpsInv'
  BY <1>0, MessageFacts, MessagesApart
     DEF RequestsInv, RequestsTypeOK, KindsInv, kernel, session, Goto, Interrupt,
         OpsInv, Awaits
<1>5. IntrInv'
  BY <1>0, MessageFacts, MessagesApart
     DEF RequestsInv, RequestsTypeOK, KindsInv, kernel, session, Goto, Interrupt,
         IntrInv, Owner, Awaits, Brings, Carries, Handling
<1>6. ListInv'
  BY <1>0, MessageFacts, MessagesApart
     DEF RequestsInv, RequestsTypeOK, KindsInv, kernel, session, Goto, Interrupt,
         ListInv, Owns, Owner
<1>7. CountInv'
  <2>1. \A s \in Reqs : req'[s].ctr = req[s].ctr /\ (s \in list' <=> s \in list)
    BY <1>0, RequestsAssumption
       DEF Interrupt, session, RequestsInv, RequestsTypeOK, Requests
  <2>2. \A s \in Reqs, v \in Workers : Handling(v, s)' <=> Handling(v, s)
    BY <1>0, MessagesApart
       DEF Interrupt, session, Goto, RequestsInv, RequestsTypeOK, Handling
  <2> QED BY <2>1, <2>2 DEF RequestsInv, CountInv
<1>8. LockInv'
  <2>1. \A v \in Workers : Locks(v, r)' <=> v = w
    BY <1>0, RequestsAssumption
       DEF RequestsInv, RequestsTypeOK, KindsInv, kernel, session, Goto, Interrupt,
           LockInv, Locks
  <2>2. \A s \in Reqs \ {r}, v \in Workers : Locks(v, s)' <=> Locks(v, s)
    BY <1>0, MessagesApart
       DEF RequestsInv, RequestsTypeOK, KindsInv, kernel, session, Goto, Interrupt,
           Locks
  <2>3. req'[r].lock = w /\ \A s \in Reqs \ {r} : req'[s] = req[s]
    BY <1>0
       DEF RequestsInv, RequestsTypeOK, KindsInv, kernel, session, Goto, Requests,
           Interrupt
  <2> QED BY <1>0, <2>1, <2>2, <2>3 DEF RequestsInv, LockInv
<1>9. DataInv'
  BY <1>0, MessageFacts, MessagesApart
     DEF RequestsInv, RequestsTypeOK, KindsInv, kernel, session, Goto, Interrupt,
         DataInv, Runs, Inside
<1>10. ASSUME DeliveryInv PROVE DeliveryInv'
  BY <1>0, <1>10, MessageFacts, MessagesApart
     DEF RequestsInv, RequestsTypeOK, KindsInv, kernel, session, Goto, Interrupt,
         OpsInv, IntrInv, ListInv, DeliveryInv, Delivered, Awaits, Brings
<1> QED BY <1>1, <1>2, <1>3, <1>4, <1>5, <1>6, <1>7, <1>8, <1>9, <1>10 DEF RequestsInv

\* The callback runs on the data of a handler that is at work.
LEMMA CallbackKeeps ==
    ASSUME NEW w \in Workers, RequestsInv, fuse_interrupt(w)
    PROVE  RequestsInv' /\ (DeliveryInv => DeliveryInv')
<1>0. PICK r \in Reqs : msg[w].id = r /\ msg[w] = Intr(r)
  BY MessageFacts DEF RequestsInv, RequestsTypeOK, KindsInv, Owner, fuse_interrupt
<1>1. RequestsTypeOK'
  BY <1>0, MessageFacts, MessagesApart
     DEF RequestsInv, RequestsTypeOK, KindsInv, kernel, session, Goto, fuse_interrupt,
         Requests, Serving, Places
<1>2. IsInjective(interrupts)'
  BY <1>0, MessageFacts, MessagesApart
     DEF RequestsInv, RequestsTypeOK, KindsInv, kernel, session, Goto, fuse_interrupt
<1>3. KindsInv'
  BY <1>0, MessageFacts, MessagesApart
     DEF RequestsInv, RequestsTypeOK, KindsInv, kernel, session, Goto, fuse_interrupt,
         Owner
<1>4. OpsInv'
  BY <1>0, MessageFacts, MessagesApart
     DEF RequestsInv, RequestsTypeOK, KindsInv, kernel, session, Goto, fuse_interrupt,
         OpsInv, Awaits
<1>5. IntrInv'
  BY <1>0, MessageFacts, MessagesApart
     DEF RequestsInv, RequestsTypeOK, KindsInv, kernel, session, Goto, fuse_interrupt,
         IntrInv, Owner, Awaits, Brings, Carries, Handling
<1>6. ListInv'
  BY <1>0, MessageFacts, MessagesApart
     DEF RequestsInv, RequestsTypeOK, KindsInv, kernel, session, Goto, fuse_interrupt,
         ListInv, Owns, Owner
<1>7. CountInv'
  BY <1>0, MessageFacts, MessagesApart
     DEF RequestsInv, RequestsTypeOK, KindsInv, kernel, session, Goto, fuse_interrupt,
         CountInv, Freed, Dropped, Handling
<1>8. LockInv'
  BY <1>0, MessageFacts, MessagesApart
     DEF RequestsInv, RequestsTypeOK, KindsInv, kernel, session, Goto, fuse_interrupt,
         LockInv, Locks, Freed, Dropped
<1>9. DataInv'
  BY <1>0, MessageFacts, MessagesApart
     DEF RequestsInv, RequestsTypeOK, KindsInv, kernel, session, Goto, fuse_interrupt,
         DataInv, Runs, Inside
<1>10. ASSUME DeliveryInv PROVE DeliveryInv'
  BY <1>0, <1>10, MessageFacts, MessagesApart
     DEF RequestsInv, RequestsTypeOK, KindsInv, kernel, session, Goto, fuse_interrupt,
         OpsInv, IntrInv, ListInv, DeliveryInv, Delivered, Awaits, Brings
<1> QED BY <1>1, <1>2, <1>3, <1>4, <1>5, <1>6, <1>7, <1>8, <1>9, <1>10 DEF RequestsInv

\* The reference that kept the request during the callback goes.
LEMMA PutKeeps ==
    ASSUME NEW w \in Workers, RequestsInv, Put(w)
    PROVE  RequestsInv' /\ (DeliveryInv => DeliveryInv')
<1>0. PICK r \in Reqs : msg[w].id = r /\ msg[w] = Intr(r)
  BY MessageFacts DEF RequestsInv, RequestsTypeOK, KindsInv, Owner, Put
<1>a. /\ req[r] \in Requests /\ req[r].ctr # 0
      /\ req[r].ctr = 1 => r \notin list
      /\ req[r].ctr # 1 => req[r].ctr = 2 /\ r \in list
  <2>1. Handling(w, r)
    BY <1>0 DEF Handling, Put
  <2> QED BY <1>0, <2>1 DEF RequestsInv, RequestsTypeOK, CountInv, Requests
<1>b. req' = [req EXCEPT ![r] = Dropped([req[r] EXCEPT !.lock = Nobody])]
  BY <1>0 DEF Put
<1>c. /\ req'[r] \in Requests
      /\ req'[r].ctr = req[r].ctr - 1
      /\ req'[r].lock = Nobody
      /\ req[r].ctr = 1 => req'[r].func = FALSE
      /\ req[r].ctr # 1 => req'[r].func = req[r].func /\ req'[r].interrupted = req[r].interrupted
      /\ \A s \in Reqs \ {r} : req'[s] = req[s]
  <2> DEFINE q == [req[r] EXCEPT !.lock = Nobody]
  <2>1. /\ q \in Requests /\ q.ctr = req[r].ctr /\ q.lock = Nobody
        /\ q.func = req[r].func /\ q.interrupted = req[r].interrupted
    BY <1>a DEF Requests
  <2>2. req'[r] = Dropped(q) /\ \A s \in Reqs \ {r} : req'[s] = req[s]
    BY <1>0, <1>b DEF RequestsInv, RequestsTypeOK
  <2> HIDE DEF q
  <2> QED BY <1>a, <2>1, <2>2, DroppedFacts
<1>1. RequestsTypeOK'
  <2>1. req' \in [Reqs -> Requests]
    BY <1>0, <1>b, <1>c DEF RequestsInv, RequestsTypeOK
  <2> QED BY <1>0, <2>1
             DEF RequestsInv, RequestsTypeOK, KindsInv, kernel, session, Goto, Put,
                 Places, Serving
<1>2. IsInjective(interrupts)'
  BY <1>0, MessageFacts, MessagesApart
     DEF RequestsInv, RequestsTypeOK, KindsInv, kernel, session, Goto, Put
<1>3. KindsInv'
  BY <1>0, MessageFacts, MessagesApart
     DEF RequestsInv, RequestsTypeOK, KindsInv, kernel, session, Goto, Put, Owner
<1>4. OpsInv'
  BY <1>0, MessageFacts, MessagesApart
     DEF RequestsInv, RequestsTypeOK, KindsInv, kernel, session, Goto, Put, OpsInv,
         Awaits
<1>5. IntrInv'
  BY <1>0, MessageFacts, MessagesApart
     DEF RequestsInv, RequestsTypeOK, KindsInv, kernel, session, Goto, Put, IntrInv,
         Owner, Awaits, Brings, Carries, Handling
<1>6. ListInv'
  BY <1>0, MessageFacts, MessagesApart
     DEF RequestsInv, RequestsTypeOK, KindsInv, kernel, session, Goto, Put, ListInv,
         Owns, Owner
<1>7. CountInv'
  <2>1. \A v \in Workers : ~Handling(v, r)'
    BY <1>0
       DEF RequestsInv, RequestsTypeOK, KindsInv, kernel, session, Goto, IntrInv, Put,
           Carries, Handling
  <2>2. \A s \in Reqs \ {r}, v \in Workers : Handling(v, s)' <=> Handling(v, s)
    BY <1>0, MessagesApart
       DEF RequestsInv, RequestsTypeOK, KindsInv, kernel, session, Goto, Put, Handling
  <2>3. list' = list
    BY DEF Put
  <2> QED BY <1>0, <1>a, <1>c, <2>1, <2>2, <2>3 DEF RequestsInv, CountInv
<1>8. LockInv'
  <2>1. \A v \in Workers : ~Locks(v, r)'
    BY <1>0
       DEF RequestsInv, RequestsTypeOK, KindsInv, kernel, session, Goto, IntrInv, Put,
           Carries, Handling, Locks
  <2>2. \A s \in Reqs \ {r}, v \in Workers : Locks(v, s)' <=> Locks(v, s)
    BY <1>0, MessagesApart
       DEF RequestsInv, RequestsTypeOK, KindsInv, kernel, session, Goto, Put, Locks
  <2> QED BY <1>0, <1>c, <2>1, <2>2, RequestsAssumption DEF RequestsInv, LockInv
<1>9. DataInv'
  <2>1. \A s \in Reqs, v \in Workers : Runs(v, s)' <=> Runs(v, s)
    BY <1>0, MessagesApart
       DEF RequestsInv, RequestsTypeOK, KindsInv, kernel, session, Goto, Put, Runs,
           Inside
  <2>2. \A s \in Reqs, v \in Workers :
           (msg[v] = Intr(s) /\ wpc[v] = "intr_func")' => msg[v] = Intr(s) /\ wpc[v] = "intr_func"
    BY <1>0 DEF RequestsInv, RequestsTypeOK, KindsInv, kernel, session, Goto, Put
  <2>3. \A s \in Reqs : req'[s].func => req[s].func
    BY <1>0, <1>c
  <2>4. intr_data' = intr_data
    BY DEF Put
  <2> QED BY <2>1, <2>2, <2>3, <2>4 DEF RequestsInv, DataInv
<1>10. ASSUME DeliveryInv PROVE DeliveryInv'
  <2>1. \A s \in Reqs, v \in Workers :
           (Awaits(v, s)' <=> Awaits(v, s)) /\ (Brings(v, s)' <=> Brings(v, s))
    BY <1>0, MessagesApart
       DEF RequestsInv, RequestsTypeOK, KindsInv, kernel, session, Goto, Put, Awaits,
           Brings
  <2>2. /\ device' = device /\ asked' = asked /\ list' = list /\ interrupts' = interrupts
        /\ asked \subseteq Reqs
    BY DEF Put, RequestsInv, RequestsTypeOK, KindsInv, kernel, session, Goto
  <2>3. ASSUME NEW s \in asked, s \in list PROVE Delivered(s)'
    <3>1. Delivered(s)
      BY <1>10, <2>3 DEF DeliveryInv
    <3>2. req[s].interrupted => req'[s].interrupted
      BY <1>a, <1>c, <2>2, <2>3
    <3>3. \A v \in Workers : msg[v] = Intr(s) /\ wpc[v] \in {"got", "process", "intr_lock"}
              => (msg[v] = Intr(s) /\ wpc[v] \in {"got", "process", "intr_lock"})'
      BY <1>0 DEF RequestsInv, RequestsTypeOK, KindsInv, kernel, session, Goto, Put
    <3> QED BY <2>2, <3>1, <3>2, <3>3 DEF Delivered
  <2>4. ASSUME NEW s \in asked, NEW v \in Workers, Awaits(v, s)'
        PROVE  \/ Intr(s) \in device
               \/ s \in ToSet(interrupts)
               \/ \E u \in Workers : Brings(u, s)'
    BY <1>10, <2>1, <2>2, <2>4 DEF DeliveryInv
  <2> QED BY <2>2, <2>3, <2>4 DEF DeliveryInv
<1> QED BY <1>1, <1>2, <1>3, <1>4, <1>5, <1>6, <1>7, <1>8, <1>9, <1>10 DEF RequestsInv

\* check_interrupt takes the interrupt of id, or sends the first one back.
LEMMA CheckFacts ==
    ASSUME RequestsInv, NEW id, check_interrupt(id)
    PROVE  /\ interrupts' \in Seq(Reqs)
           /\ IsInjective(interrupts')
           /\ \/ /\ device' = device
                 /\ ToSet(interrupts') = ToSet(interrupts) \ {id}
              \/ \E h \in ToSet(interrupts) :
                   /\ id \notin ToSet(interrupts)
                   /\ ToSet(interrupts') = ToSet(interrupts) \ {h}
                   /\ \/ device' = device \cup {Intr(h)}
                      \/ h \in answered /\ device' = device
<1>1. interrupts \in Seq(Reqs) /\ IsInjective(interrupts)
  BY DEF RequestsInv, RequestsTypeOK
<1>2. CASE \E i \in DOMAIN interrupts : /\ interrupts[i] = id
                                        /\ interrupts' = RemoveAt(interrupts, i)
                                        /\ UNCHANGED device
  BY <1>1, <1>2, RemoveOnce
<1>3. CASE interrupts = <<>> /\ UNCHANGED <<interrupts, device>>
  <2>1. DOMAIN interrupts = {}
    BY <1>1, <1>3, LenProperties, EmptySeq
  <2> QED BY <1>1, <1>3, <2>1 DEF ToSet
<1>4. CASE /\ interrupts # <<>>
           /\ id \notin ToSet(interrupts)
           /\ interrupts' = Tail(interrupts)
           /\ device' = IF Head(interrupts) \in answered THEN device
                        ELSE device \cup {Intr(Head(interrupts))}
  BY <1>1, <1>4, TailOnce
<1> QED BY <1>2, <1>3, <1>4 DEF check_interrupt

\* A request goes into service with what came for it before.
LEMMA RegisterOpKeeps ==
    ASSUME NEW w \in Workers, NEW r \in Reqs, RequestsInv,
           wpc[w] = "process", msg[w] = Op(r), check_interrupt(r),
           msg' = msg, sent' = sent, asked' = asked, answered' = answered,
           intr_data' = intr_data, list' = list \cup {r},
           wpc' = [wpc EXCEPT ![w] = "prepare"],
           NEW q \in Requests, q.ctr = 1, q.func = FALSE, q.lock = Nobody,
           q.interrupted <=> r \in ToSet(interrupts),
           req' = [req EXCEPT ![r] = q]
    PROVE  RequestsInv' /\ (DeliveryInv => DeliveryInv')
<1>a. /\ Awaits(w, r) /\ r \notin list /\ r \notin answered
      /\ \A v \in Workers : ~Handling(v, r) /\ (msg[v] = Op(r) => v = w)
  BY DEF RequestsInv, OpsInv, IntrInv, ListInv, Awaits, Owns, Owner
<1>b. /\ req'[r] \in Requests
      /\ req'[r].ctr = 1 /\ req'[r].func = FALSE /\ req'[r].lock = Nobody
      /\ req'[r].interrupted <=> r \in ToSet(interrupts)
      /\ \A s \in Reqs \ {r} : req'[s] = req[s]
  BY DEF RequestsInv, RequestsTypeOK
<1>c. /\ r \notin ToSet(interrupts')
      /\ ToSet(interrupts') \subseteq ToSet(interrupts)
      /\ device \subseteq device' /\ device' \subseteq device \cup {Intr(h) : h \in ToSet(interrupts)}
      /\ \A h \in ToSet(interrupts) : Intr(h) \in device' => h \notin ToSet(interrupts')
      /\ \A h \in ToSet(interrupts) \ {r} :
           h \in ToSet(interrupts') \/ Intr(h) \in device' \/ h \in answered
  <2>1. \A h \in ToSet(interrupts) : Intr(h) \notin device /\ h \in Reqs
    <3>1. ToSet(interrupts) \subseteq Reqs
      BY LenProperties DEF RequestsInv, RequestsTypeOK, ToSet
    <3> QED BY <3>1 DEF RequestsInv, IntrInv
  <2> QED BY <2>1, CheckFacts, MessagesApart
<1>d. /\ \A s \in Reqs, v \in Workers : Handling(v, s)' <=> Handling(v, s)
      /\ \A s \in Reqs, v \in Workers : Brings(v, s)' <=> Brings(v, s)
      /\ \A s \in Reqs, v \in Workers : Locks(v, s)' <=> Locks(v, s)
      /\ \A s \in Reqs, v \in Workers : Runs(v, s)' <=> Runs(v, s)
  BY MessagesApart
     DEF RequestsInv, RequestsTypeOK, Handling, Brings, Locks, Runs, Inside
<1>e. /\ \A s \in Reqs \ {r}, v \in Workers : Awaits(v, s)' <=> Awaits(v, s)
      /\ \A v \in Workers : ~Awaits(v, r)'
      /\ \A s \in Reqs \ {r}, v \in Workers : Owns(v, s)' <=> Owns(v, s)
      /\ Owns(w, r)'
  BY <1>a, MessagesApart DEF RequestsInv, RequestsTypeOK, Awaits, Owns, Owner
<1>f. \A s \in Reqs : Op(s) \in device' <=> Op(s) \in device
  BY <1>c, MessagesApart
<1>1. RequestsTypeOK'
  <2>1. ToSet(interrupts) \subseteq Reqs
    BY LenProperties DEF RequestsInv, RequestsTypeOK, ToSet
  <2>2. device' \subseteq Messages
    BY <1>c, <2>1, MessageFacts DEF RequestsInv, RequestsTypeOK
  <2>3. req' \in [Reqs -> Requests]
    BY <1>b DEF RequestsInv, RequestsTypeOK
  <2>4. interrupts' \in Seq(Reqs)
    BY CheckFacts
  <2> QED BY <2>2, <2>3, <2>4 DEF RequestsInv, RequestsTypeOK, Places, Serving
<1>2. IsInjective(interrupts)'
  BY CheckFacts
<1>3. KindsInv'
  BY MessageFacts DEF RequestsInv, RequestsTypeOK, KindsInv, Owner
<1>4. OpsInv'
  BY <1>e, <1>f DEF RequestsInv, OpsInv
<1>5. IntrInv'
  <2>1. \A s \in Reqs, v \in Workers : Carries(v, s)' <=> Carries(v, s)
    BY <1>d DEF Carries
  <2>2. \A s \in Reqs : s \in ToSet(interrupts') => s # r
    BY <1>c
  <2>3. \A s \in Reqs : Intr(s) \in device' => Intr(s) \in device \/ s \in ToSet(interrupts)
    BY <1>c, MessagesApart
  <2> QED BY <1>c, <1>d, <1>e, <1>f, <2>1, <2>2, <2>3 DEF RequestsInv, IntrInv
<1>6. ListInv'
  BY <1>e DEF RequestsInv, ListInv
<1>7. CountInv'
  BY <1>a, <1>b, <1>d DEF RequestsInv, CountInv
<1>8. LockInv'
  <2>1. \A v \in Workers : ~Locks(v, r)
    BY <1>a DEF Locks, Handling
  <2> QED BY <1>b, <1>d, <2>1, RequestsAssumption DEF RequestsInv, LockInv
<1>9. DataInv'
  <2>1. \A s \in Reqs, v \in Workers :
           (msg[v] = Intr(s) /\ wpc[v] = "intr_func")' => msg[v] = Intr(s) /\ wpc[v] = "intr_func"
    BY DEF RequestsInv, RequestsTypeOK
  <2> QED BY <1>b, <1>d, <2>1 DEF RequestsInv, DataInv
<1>10. ASSUME DeliveryInv PROVE DeliveryInv'
  <2>1. asked \subseteq Reqs
    BY DEF RequestsInv, RequestsTypeOK
  <2>2. ASSUME NEW s \in asked, s \in list' PROVE Delivered(s)'
    <3>1. CASE s = r
      <4>1. Intr(r) \in device \/ r \in ToSet(interrupts) \/ \E v \in Workers : Brings(v, r)
        BY <1>10, <1>a, <2>2, <3>1 DEF DeliveryInv
      <4>2. CASE \E v \in Workers : Brings(v, r)
        BY <1>d, <3>1, <4>2 DEF Delivered, Brings
      <4> QED BY <1>b, <1>c, <3>1, <4>1, <4>2 DEF Delivered
    <3>2. CASE s # r
      <4>1. Delivered(s) /\ s \in Reqs
        BY <1>10, <2>1, <2>2, <3>2 DEF DeliveryInv
      <4>2. \A v \in Workers : msg[v] = Intr(s) /\ wpc[v] \in {"got", "process", "intr_lock"}
                => (msg[v] = Intr(s) /\ wpc[v] \in {"got", "process", "intr_lock"})'
        BY MessagesApart DEF RequestsInv, RequestsTypeOK
      <4> QED BY <1>b, <1>c, <3>2, <4>1, <4>2 DEF Delivered
    <3> QED BY <3>1, <3>2
  <2>3. ASSUME NEW s \in asked, NEW v \in Workers, Awaits(v, s)'
        PROVE  \/ Intr(s) \in device'
               \/ s \in ToSet(interrupts')
               \/ \E u \in Workers : Brings(u, s)'
    <3>1. s # r /\ Awaits(v, s) /\ s \notin answered
      BY <1>e, <2>1, <2>3 DEF RequestsInv, OpsInv
    <3>2. Intr(s) \in device \/ s \in ToSet(interrupts) \/ \E u \in Workers : Brings(u, s)
      BY <1>10, <3>1 DEF DeliveryInv
    <3> QED BY <1>c, <1>d, <2>1, <3>1, <3>2
  <2> QED BY <2>2, <2>3 DEF DeliveryInv
<1> QED BY <1>1, <1>2, <1>3, <1>4, <1>5, <1>6, <1>7, <1>8, <1>9, <1>10 DEF RequestsInv

\* The request that is put into service; the flag is a parameter here.
LEMMA FreshRequest ==
    ASSUME NEW b \in BOOLEAN
    PROVE  LET q == [Freed EXCEPT !.ctr = 1, !.interrupted = b]
           IN  q \in Requests /\ q.ctr = 1 /\ q.func = FALSE /\ q.lock = Nobody /\ q.interrupted = b
BY DEF Freed, Requests

\* A forget goes into service; no request is like it.
LEMMA RegisterForgetKeeps ==
    ASSUME NEW w \in Workers, NEW g \in Forgets, RequestsInv,
           wpc[w] = "process", msg[w] = Forget(g), check_interrupt(g),
           msg' = msg, sent' = sent, asked' = asked, answered' = answered,
           intr_data' = intr_data, list' = list \cup {g}, req' = req,
           wpc' = [wpc EXCEPT ![w] = "forget"]
    PROVE  RequestsInv' /\ (DeliveryInv => DeliveryInv')
<1>a. \A s \in Reqs : s \in list' <=> s \in list
  BY RequestsAssumption
<1>b. ToSet(interrupts) \subseteq Reqs
  BY LenProperties DEF RequestsInv, RequestsTypeOK, ToSet
<1>c. /\ ToSet(interrupts') \subseteq ToSet(interrupts)
      /\ device \subseteq device' /\ device' \subseteq device \cup {Intr(h) : h \in ToSet(interrupts)}
      /\ \A h \in ToSet(interrupts) : Intr(h) \in device' => h \notin ToSet(interrupts')
      /\ \A h \in ToSet(interrupts) :
           h \in ToSet(interrupts') \/ Intr(h) \in device' \/ h \in answered
  <2>1. \A h \in ToSet(interrupts) : Intr(h) \notin device /\ h # g
    BY <1>b, RequestsAssumption DEF RequestsInv, IntrInv
  <2> QED BY <2>1, CheckFacts, MessagesApart
<1>d. /\ \A s \in Reqs, v \in Workers : Handling(v, s)' <=> Handling(v, s)
      /\ \A s \in Reqs, v \in Workers : Brings(v, s)' <=> Brings(v, s)
      /\ \A s \in Reqs, v \in Workers : Locks(v, s)' <=> Locks(v, s)
      /\ \A s \in Reqs, v \in Workers : Runs(v, s)' <=> Runs(v, s)
      /\ \A s \in Reqs, v \in Workers : Awaits(v, s)' <=> Awaits(v, s)
      /\ \A s \in Reqs, v \in Workers : Owns(v, s)' <=> Owns(v, s)
  BY MessagesApart DEF RequestsInv, RequestsTypeOK, Handling, Brings, Locks, Runs,
                       Inside, Awaits, Owns, Owner
<1>e. \A s \in Reqs : Op(s) \in device' <=> Op(s) \in device
  BY <1>c, MessagesApart
<1>1. RequestsTypeOK'
  <2>1. device' \subseteq Messages
    BY <1>b, <1>c, MessageFacts DEF RequestsInv, RequestsTypeOK
  <2>2. interrupts' \in Seq(Reqs)
    BY CheckFacts
  <2> QED BY <2>1, <2>2 DEF RequestsInv, RequestsTypeOK, Places, Serving
<1>2. IsInjective(interrupts)'
  BY CheckFacts
<1>3. KindsInv'
  BY MessageFacts DEF RequestsInv, RequestsTypeOK, KindsInv, Owner
<1>4. OpsInv'
  BY <1>d, <1>e DEF RequestsInv, OpsInv
<1>5. IntrInv'
  <2>1. \A s \in Reqs, v \in Workers : Carries(v, s)' <=> Carries(v, s)
    BY <1>d DEF Carries
  <2>2. \A s \in Reqs : Intr(s) \in device' => Intr(s) \in device \/ s \in ToSet(interrupts)
    BY <1>c, MessagesApart
  <2> QED BY <1>a, <1>c, <1>d, <1>e, <2>1, <2>2 DEF RequestsInv, IntrInv
<1>6. ListInv'
  BY <1>a, <1>d DEF RequestsInv, ListInv
<1>7. CountInv'
  BY <1>a, <1>d DEF RequestsInv, CountInv
<1>8. LockInv'
  BY <1>d DEF RequestsInv, LockInv
<1>9. DataInv'
  <2>1. \A s \in Reqs, v \in Workers :
           (msg[v] = Intr(s) /\ wpc[v] = "intr_func")' => msg[v] = Intr(s) /\ wpc[v] = "intr_func"
    BY DEF RequestsInv, RequestsTypeOK
  <2> QED BY <1>d, <2>1 DEF RequestsInv, DataInv
<1>10. ASSUME DeliveryInv PROVE DeliveryInv'
  <2>1. asked \subseteq Reqs
    BY DEF RequestsInv, RequestsTypeOK
  <2>2. ASSUME NEW s \in asked, s \in list' PROVE Delivered(s)'
    <3>1. Delivered(s) /\ s \in Reqs
      BY <1>10, <1>a, <2>1, <2>2 DEF DeliveryInv
    <3>2. \A v \in Workers : msg[v] = Intr(s) /\ wpc[v] \in {"got", "process", "intr_lock"}
              => (msg[v] = Intr(s) /\ wpc[v] \in {"got", "process", "intr_lock"})'
      BY MessagesApart DEF RequestsInv, RequestsTypeOK
    <3> QED BY <1>c, <3>1, <3>2 DEF Delivered
  <2>3. ASSUME NEW s \in asked, NEW v \in Workers, Awaits(v, s)'
        PROVE  \/ Intr(s) \in device'
               \/ s \in ToSet(interrupts')
               \/ \E u \in Workers : Brings(u, s)'
    <3>1. Awaits(v, s) /\ s \notin answered
      BY <1>d, <2>1, <2>3 DEF RequestsInv, OpsInv
    <3>2. Intr(s) \in device \/ s \in ToSet(interrupts) \/ \E u \in Workers : Brings(u, s)
      BY <1>10, <3>1 DEF DeliveryInv
    <3> QED BY <1>c, <1>d, <2>1, <3>1, <3>2
  <2> QED BY <2>2, <2>3 DEF DeliveryInv
<1> QED BY <1>1, <1>2, <1>3, <1>4, <1>5, <1>6, <1>7, <1>8, <1>9, <1>10 DEF RequestsInv

\* A new request is linked, and meets the interrupt that came before it.
LEMMA RegisterKeeps ==
    ASSUME NEW w \in Workers, RequestsInv, Register(w)
    PROVE  RequestsInv' /\ (DeliveryInv => DeliveryInv')
<1>1. /\ msg[w] \in Messages \cup {NoMsg} /\ msg[w].kind # "interrupt"
      /\ wpc[w] = "process" /\ check_interrupt(msg[w].id)
      /\ msg' = msg /\ sent' = sent /\ asked' = asked /\ answered' = answered
      /\ intr_data' = intr_data /\ list' = list \cup {msg[w].id}
  BY DEF Register, RequestsInv, RequestsTypeOK
<1>2. CASE msg[w].kind = "op"
  <2>1. PICK r \in Reqs : msg[w].id = r /\ msg[w] = Op(r)
    BY <1>1, <1>2, MessageFacts
  <2> DEFINE b == r \in ToSet(interrupts)
             q == [Freed EXCEPT !.ctr = 1, !.interrupted = b]
  <2>2. req' = [req EXCEPT ![r] = q] /\ wpc' = [wpc EXCEPT ![w] = "prepare"]
    BY <1>2, <2>1 DEF Register, Goto
  <2>3. b \in BOOLEAN
    OBVIOUS
  <2> HIDE DEF b
  <2>4. q \in Requests /\ q.ctr = 1 /\ q.func = FALSE /\ q.lock = Nobody /\ q.interrupted = b
    BY <2>3, FreshRequest
  <2> HIDE DEF q
  <2>5. q.interrupted <=> r \in ToSet(interrupts)
    BY <2>4 DEF b
  <2> QED BY <1>1, <2>1, <2>2, <2>4, <2>5, RegisterOpKeeps
<1>3. CASE msg[w].kind = "forget"
  <2>1. PICK g \in Forgets : msg[w].id = g /\ msg[w] = Forget(g)
    BY <1>1, <1>3, MessageFacts
  <2>2. req' = req /\ wpc' = [wpc EXCEPT ![w] = "forget"]
    BY <1>3 DEF Register, Goto
  <2> QED BY <1>1, <2>1, <2>2, RegisterForgetKeeps
<1>4. msg[w].kind # "none"
  BY <1>1 DEF RequestsInv, KindsInv
<1> QED BY <1>1, <1>2, <1>3, <1>4, MessageFacts

\* All steps of serving a message keep the invariant.
LEMMA ServeKeeps ==
    ASSUME NEW w \in Workers, RequestsInv, Serve(w)
    PROVE  RequestsInv' /\ (DeliveryInv => DeliveryInv')
BY RegisterKeeps, ForgetDoneKeeps, PrepareKeeps, OpStepKeeps, FinishKeeps, UnsetKeeps,
   ReplyKeeps, FreeReqKeeps, FindKeeps, InterruptKeeps, CallbackKeeps, PutKeeps DEF Serve

-----------------------------------------------------------------------------
(* Steps of the kernel, and of the thread pool.                            *)

\* Places where a worker has nothing of a request.
Outside == {"none", "top", "read", "after", "gone"}

\* The kernel sends a message once.
LEMMA SendKeeps ==
    ASSUME RequestsInv, NEW m,
           (\E r \in Reqs : m = Op(r)) \/ (\E g \in Forgets : m = Forget(g)),
           Send(m)
    PROVE  RequestsInv' /\ (DeliveryInv => DeliveryInv')
<1>1. /\ m \in Messages /\ m.id \in Reqs \cup Forgets
      /\ \A s \in Reqs : m # Intr(s) /\ (m = Op(s) => m.id = s)
  BY MessageFacts, MessagesApart
<1>2. /\ m.id \notin sent /\ sent' = sent \cup {m.id} /\ device' = device \cup {m}
      /\ asked' = asked /\ answered' = answered /\ list' = list /\ interrupts' = interrupts
      /\ req' = req /\ intr_data' = intr_data /\ wpc' = wpc /\ msg' = msg
  BY DEF Send, session
<1>3. \A s \in Reqs, v \in Workers :
        /\ Awaits(v, s)' <=> Awaits(v, s)
        /\ Brings(v, s)' <=> Brings(v, s)
        /\ Carries(v, s)' <=> Carries(v, s)
        /\ Handling(v, s)' <=> Handling(v, s)
        /\ Owns(v, s)' <=> Owns(v, s)
        /\ Locks(v, s)' <=> Locks(v, s)
        /\ Runs(v, s)' <=> Runs(v, s)
  BY <1>2 DEF Awaits, Brings, Carries, Handling, Owns, Locks, Runs
<1>4. RequestsTypeOK'
  BY <1>1, <1>2 DEF RequestsInv, RequestsTypeOK
<1>5. OpsInv'
  BY <1>1, <1>2, <1>3 DEF RequestsInv, OpsInv
<1>6. IntrInv'
  BY <1>1, <1>2, <1>3 DEF RequestsInv, IntrInv
<1>7. KindsInv' /\ ListInv' /\ CountInv' /\ LockInv' /\ DataInv' /\ IsInjective(interrupts)'
  BY <1>2, <1>3 DEF RequestsInv, KindsInv, ListInv, CountInv, LockInv, DataInv
<1>8. ASSUME DeliveryInv PROVE DeliveryInv'
  <2>1. asked \subseteq Reqs
    BY DEF RequestsInv, RequestsTypeOK
  <2> QED BY <1>2, <1>3, <1>8, <2>1 DEF DeliveryInv, Delivered
<1> QED BY <1>4, <1>5, <1>6, <1>7, <1>8 DEF RequestsInv

\* An interrupt is sent for a request that was read, once.
LEMMA SendInterruptKeeps ==
    ASSUME RequestsInv, NEW r \in Reqs, SendInterrupt(r)
    PROVE  RequestsInv' /\ (DeliveryInv => DeliveryInv')
<1>1. /\ r \in sent /\ r \notin answered /\ r \notin asked /\ Op(r) \notin device
      /\ asked' = asked \cup {r} /\ device' = device \cup {Intr(r)}
      /\ sent' = sent /\ answered' = answered /\ list' = list /\ interrupts' = interrupts
      /\ req' = req /\ intr_data' = intr_data /\ wpc' = wpc /\ msg' = msg
  BY DEF SendInterrupt, session
<1>2. \A s \in Reqs, v \in Workers :
        /\ Awaits(v, s)' <=> Awaits(v, s)
        /\ Brings(v, s)' <=> Brings(v, s)
        /\ Carries(v, s)' <=> Carries(v, s)
        /\ Handling(v, s)' <=> Handling(v, s)
        /\ Owns(v, s)' <=> Owns(v, s)
        /\ Locks(v, s)' <=> Locks(v, s)
        /\ Runs(v, s)' <=> Runs(v, s)
  BY <1>1 DEF Awaits, Brings, Carries, Handling, Owns, Locks, Runs
<1>3. Intr(r) \in Messages /\ \A s : Op(s) # Intr(r) /\ (Intr(s) = Intr(r) => s = r)
  BY MessageFacts, MessagesApart
<1>4. RequestsTypeOK'
  BY <1>1, <1>3 DEF RequestsInv, RequestsTypeOK
<1>5. OpsInv'
  BY <1>1, <1>2, <1>3 DEF RequestsInv, OpsInv
<1>6. IntrInv'
  BY <1>1, <1>2, <1>3 DEF RequestsInv, IntrInv
<1>7. KindsInv' /\ ListInv' /\ CountInv' /\ LockInv' /\ DataInv' /\ IsInjective(interrupts)'
  BY <1>1, <1>2 DEF RequestsInv, KindsInv, ListInv, CountInv, LockInv, DataInv
<1>8. ASSUME DeliveryInv PROVE DeliveryInv'
  <2>1. asked \subseteq Reqs
    BY DEF RequestsInv, RequestsTypeOK
  <2> QED BY <1>1, <1>2, <1>8, <2>1 DEF DeliveryInv, Delivered
<1> QED BY <1>4, <1>5, <1>6, <1>7, <1>8 DEF RequestsInv

\* Messages may be dropped by a thread that ends.
LEMMA DropsKeep ==
    ASSUME RequestsInv, device' \subseteq device,
           sent' = sent, asked' = asked, answered' = answered, session' = session,
           wpc' \in [Workers -> Places], msg' \in [Workers -> Messages \cup {NoMsg}],
           \A v \in Workers :
              \/ wpc'[v] = wpc[v] /\ msg'[v] = msg[v]
              \/ /\ wpc[v] \in Outside \cup {"got"} /\ wpc'[v] \in Outside
                 /\ msg'[v] \in {msg[v], NoMsg}
              \/ wpc[v] = "got" /\ wpc'[v] = "process" /\ msg'[v] = msg[v]
    PROVE  RequestsInv'
<1>1. list' = list /\ interrupts' = interrupts /\ req' = req /\ intr_data' = intr_data
  BY DEF session
<1>2. \A s : NoMsg # Op(s) /\ NoMsg # Intr(s)
  BY MessageFacts
<1>3. \A s \in Reqs, v \in Workers :
        /\ Awaits(v, s)' => Awaits(v, s)
        /\ Brings(v, s)' => Brings(v, s)
        /\ Handling(v, s)' <=> Handling(v, s)
        /\ Owns(v, s)' <=> Owns(v, s)
        /\ Locks(v, s)' <=> Locks(v, s)
        /\ Runs(v, s)' <=> Runs(v, s)
  BY <1>2 DEF Awaits, Brings, Handling, Owns, Owner, Locks, Runs, Inside, Outside
<1>4. \A s \in Reqs, v \in Workers :
        /\ Carries(v, s)' => Carries(v, s)
        /\ msg'[v] = Op(s) => msg[v] = Op(s)
        /\ msg'[v] = Intr(s) /\ wpc'[v] = "intr_func" => msg[v] = Intr(s) /\ wpc[v] = "intr_func"
  BY <1>2, <1>3 DEF Carries, Outside
<1>5. RequestsTypeOK'
  BY <1>1 DEF RequestsInv, RequestsTypeOK
<1>6. KindsInv'
  BY DEF RequestsInv, KindsInv, Owner, Outside
<1>7. OpsInv'
  BY <1>3, <1>4 DEF RequestsInv, OpsInv
<1>8. IntrInv'
  BY <1>1, <1>3, <1>4 DEF RequestsInv, IntrInv
<1>9. ListInv' /\ CountInv' /\ LockInv' /\ DataInv' /\ IsInjective(interrupts)'
  BY <1>1, <1>3, <1>4 DEF RequestsInv, ListInv, CountInv, LockInv, DataInv
<1> QED BY <1>5, <1>6, <1>7, <1>8, <1>9 DEF RequestsInv

\* A worker that has nothing of a request moves, or goes on with what it read.
LEMMA MovesKeep ==
    ASSUME RequestsInv, device' = device,
           sent' = sent, asked' = asked, answered' = answered, session' = session,
           wpc' \in [Workers -> Places], msg' \in [Workers -> Messages \cup {NoMsg}],
           \A v \in Workers :
              \/ wpc'[v] = wpc[v] /\ msg'[v] = msg[v]
              \/ /\ wpc[v] \in Outside /\ wpc'[v] \in Outside
                 /\ msg'[v] \in {msg[v], NoMsg}
              \/ wpc[v] = "got" /\ wpc'[v] = "process" /\ msg'[v] = msg[v]
    PROVE  RequestsInv' /\ (DeliveryInv => DeliveryInv')
<1>1. list' = list /\ interrupts' = interrupts /\ req' = req /\ intr_data' = intr_data
  BY DEF session
<1>2. \A s : NoMsg # Op(s) /\ NoMsg # Intr(s)
  BY MessageFacts
<1>3. \A s \in Reqs, v \in Workers :
        /\ Awaits(v, s)' <=> Awaits(v, s)
        /\ Brings(v, s)' <=> Brings(v, s)
        /\ msg[v] = Intr(s) /\ wpc[v] \in {"got", "process", "intr_lock"}
              => (msg[v] = Intr(s) /\ wpc[v] \in {"got", "process", "intr_lock"})'
  BY <1>2 DEF Awaits, Brings, Outside
<1>4. ASSUME DeliveryInv PROVE DeliveryInv'
  <2>1. asked \subseteq Reqs
    BY DEF RequestsInv, RequestsTypeOK
  <2> QED BY <1>1, <1>3, <1>4, <2>1 DEF DeliveryInv, Delivered
<1>5. RequestsInv'
  BY DropsKeep
<1> QED BY <1>4, <1>5

\* A worker reads a message.
LEMMA ReadsKeep ==
    ASSUME RequestsInv, NEW w \in Workers, wpc[w] = "read", NEW m \in device,
           device' = device \ {m},
           sent' = sent, asked' = asked, answered' = answered, session' = session,
           msg' = [msg EXCEPT ![w] = m], wpc' = [wpc EXCEPT ![w] = "got"]
    PROVE  RequestsInv' /\ (DeliveryInv => DeliveryInv')
<1>1. list' = list /\ interrupts' = interrupts /\ req' = req /\ intr_data' = intr_data
  BY DEF session
<1>2. m \in Messages /\ m.kind # "none"
  BY MessageFacts DEF RequestsInv, RequestsTypeOK, Messages
<1>3. /\ msg'[w] = m /\ wpc'[w] = "got"
      /\ \A v \in Workers \ {w} : msg'[v] = msg[v] /\ wpc'[v] = wpc[v]
  BY DEF RequestsInv, RequestsTypeOK
<1>4. \A s \in Reqs, v \in Workers :
        /\ Handling(v, s)' <=> Handling(v, s)
        /\ Owns(v, s)' <=> Owns(v, s)
        /\ Locks(v, s)' <=> Locks(v, s)
        /\ Runs(v, s)' <=> Runs(v, s)
  BY <1>3 DEF Handling, Owns, Owner, Locks, Runs, Inside
<1>5. \A s \in Reqs, v \in Workers :
        /\ Awaits(v, s)' <=> Awaits(v, s) \/ (v = w /\ m = Op(s))
        /\ Brings(v, s)' <=> Brings(v, s) \/ (v = w /\ m = Intr(s))
        /\ Carries(v, s)' <=> Carries(v, s) \/ (v = w /\ m = Intr(s))
  BY <1>3 DEF Awaits, Brings, Carries, Handling
<1>6. \A s \in Reqs : Op(s) # Intr(s)
  BY MessagesApart
<1>7. RequestsTypeOK'
  BY <1>1, <1>2 DEF RequestsInv, RequestsTypeOK, Places
<1>8. KindsInv'
  BY <1>2, <1>3 DEF RequestsInv, KindsInv, Owner
<1>9. OpsInv'
  BY <1>3, <1>5 DEF RequestsInv, OpsInv
<1>10. IntrInv'
  <2>1. ASSUME NEW s \in Reqs, m = Op(s)
        PROVE  \A u \in Workers : ~Handling(u, s)
    <3>1. s \notin asked
      BY <2>1 DEF RequestsInv, IntrInv
    <3> QED BY <3>1 DEF RequestsInv, IntrInv, Carries
  <2> QED BY <1>1, <1>4, <1>5, <1>6, <2>1 DEF RequestsInv, IntrInv
<1>11. ListInv' /\ CountInv' /\ LockInv' /\ IsInjective(interrupts)'
  BY <1>1, <1>4 DEF RequestsInv, ListInv, CountInv, LockInv
<1>12. DataInv'
  BY <1>1, <1>3, <1>4 DEF RequestsInv, DataInv
<1>13. ASSUME DeliveryInv PROVE DeliveryInv'
  <2>1. asked \subseteq Reqs
    BY DEF RequestsInv, RequestsTypeOK
  <2>2. ASSUME NEW s \in asked, s \in list PROVE Delivered(s)'
    <3>1. Delivered(s)
      BY <1>13, <2>2 DEF DeliveryInv
    <3>2. \A v \in Workers : msg[v] = Intr(s) /\ wpc[v] \in {"got", "process", "intr_lock"}
              => (msg[v] = Intr(s) /\ wpc[v] \in {"got", "process", "intr_lock"})'
      BY <1>3
    <3>3. Intr(s) \in device => Intr(s) \in device' \/ (msg'[w] = Intr(s) /\ wpc'[w] = "got")
      BY <1>3
    <3> QED BY <1>1, <3>1, <3>2, <3>3 DEF Delivered
  <2>3. ASSUME NEW s \in asked, NEW v \in Workers, Awaits(v, s)'
        PROVE  \/ Intr(s) \in device'
               \/ s \in ToSet(interrupts)
               \/ \E u \in Workers : Brings(u, s)'
    <3>1. CASE Awaits(v, s)
      BY <1>5, <1>13, <2>1, <3>1 DEF DeliveryInv
    <3>2. CASE m = Op(s)
      BY <2>1, <3>2 DEF RequestsInv, IntrInv
    <3> QED BY <1>5, <2>1, <2>3, <3>1, <3>2
  <2> QED BY <1>1, <2>2, <2>3 DEF DeliveryInv
<1> QED BY <1>7, <1>8, <1>9, <1>10, <1>11, <1>12, <1>13 DEF RequestsInv

-----------------------------------------------------------------------------
(* The inductive invariant.                                                *)

\* A thread that runs is in the list of the pool.
ActiveInv == \A w \in Workers : wpc[w] \notin {"none", "gone"} => w \in workers

\* mt->exit is set when the session was flagged and every thread cancelled;
\* the flag is reset when the list is empty.
EndInv ==
    /\ exit <=> main \in {"join", "done"}
    /\ main \in {"cancel", "join"} => exited
    /\ main = "done" => workers = {}

LoopInv ==
    /\ TypeOK
    /\ RequestsInv
    /\ ActiveInv
    /\ EndInv
    /\ ~exited => DeliveryInv
    /\ PoolCounts

\* The threads that numavail counts.
Avail == {w \in workers : ~Busy(w)}

outside == <<unmounted, signalled, exited, max_idle, pool, ending>>

\* The sets of threads the counters stand for are finite.
LEMMA PoolFinite ==
    ASSUME TypeOK
    PROVE  IsFiniteSet(workers) /\ IsFiniteSet(Avail)
<1>1. IsFiniteSet(Workers)
  BY LoopAssumption
<1>2. workers \subseteq Workers /\ Avail \subseteq Workers
  BY DEF TypeOK, Avail
<1> QED BY <1>1, <1>2, FS_Subset

\* A step after which the same threads are busy keeps the counters right.
LEMMA SameBusy ==
    ASSUME PoolCounts, exit' = exit, workers' = workers,
           numworker' = numworker, numavail' = numavail,
           \A v \in workers : Busy(v)' <=> Busy(v)
    PROVE  PoolCounts'
<1>1. {v \in workers : ~Busy(v)}' = {v \in workers : ~Busy(v)}
  OBVIOUS
<1> QED BY <1>1 DEF PoolCounts

\* The invariant holds before the first message.
LEMMA InitInv == Init => LoopInv
<1> SUFFICES ASSUME Init PROVE LoopInv
  OBVIOUS
<1> DEFINE first == CHOOSE w \in Workers : TRUE
<1>1. first \in Workers
  <2>1. Workers # {}
    BY LoopAssumption, FS_EmptySet
  <2> QED BY <2>1
<1>2. /\ workers = {first}
      /\ \A w \in Workers : wpc[w] = IF w = first THEN "top" ELSE "none"
      /\ \A w \in Workers : msg[w] = NoMsg
  BY DEF Init, RequestsInit
<1> HIDE DEF first
<1>3. /\ device = {} /\ sent = {} /\ asked = {} /\ answered = {} /\ list = {}
      /\ interrupts = <<>> /\ req = [r \in Reqs |-> Freed]
      /\ intr_data = [r \in Reqs |-> "none"]
      /\ wpc \in [Workers -> {"top", "none"}]
      /\ msg = [w \in Workers |-> NoMsg]
  BY DEF Init, RequestsInit
<1>4. interrupts \in Seq(Reqs) /\ DOMAIN interrupts = {}
  BY <1>3
<1>5. Freed \in Requests /\ Freed.ctr = 0 /\ Freed.func = FALSE /\ Freed.lock = Nobody
  BY DEF Freed, Requests
<1>6. RequestsInv
  <2>1. RequestsTypeOK
    BY <1>3, <1>4, <1>5 DEF RequestsTypeOK, Places
  <2>2. KindsInv /\ IsInjective(interrupts) /\ ToSet(interrupts) = {}
    BY <1>3, <1>4 DEF KindsInv, Owner, IsInjective, ToSet
  <2>3. \A v \in Workers, s \in Reqs :
          /\ msg[v] # Op(s) /\ msg[v] # Intr(s)
          /\ ~Awaits(v, s) /\ ~Carries(v, s) /\ ~Handling(v, s)
          /\ ~Owns(v, s) /\ ~Locks(v, s) /\ ~Runs(v, s)
    BY <1>2, MessageFacts DEF Awaits, Carries, Brings, Handling, Owns, Locks, Runs
  <2>4. OpsInv /\ IntrInv /\ ListInv
    BY <1>3, <2>2, <2>3 DEF OpsInv, IntrInv, ListInv
  <2>5. CountInv /\ LockInv /\ DataInv
    BY <1>3, <1>5, <2>3, RequestsAssumption DEF CountInv, LockInv, DataInv
  <2> QED BY <2>1, <2>2, <2>4, <2>5 DEF RequestsInv
<1>7. TypeOK
  <2>1. /\ numworker = 1 /\ 1 \in 0 .. max_threads
        /\ numavail = 1 /\ max_idle \in MaxIdles /\ finish = 0 /\ cancelled = {}
        /\ unmounted = FALSE /\ signalled = FALSE /\ exited = FALSE /\ exit = FALSE
        /\ main = "check"
    BY LoopAssumption DEF Init
  <2>2. workers \subseteq Workers
    BY <1>1, <1>2
  <2>3. RequestsTypeOK
    BY <1>6 DEF RequestsInv
  <2>4. numworker \in 0 .. max_threads /\ numavail \in Int /\ finish \in Nat
    BY <2>1
  <2>5. cancelled \subseteq Workers
    BY <2>1
  <2>6. unstarted \in BOOLEAN
    BY DEF Init
  <2> QED BY <2>1, <2>2, <2>3, <2>4, <2>5, <2>6 DEF TypeOK
<1>8. ActiveInv /\ EndInv /\ DeliveryInv
  BY <1>2, <1>3 DEF Init, ActiveInv, EndInv, DeliveryInv
<1>9. PoolCounts
  <2>1. {w \in workers : ~Busy(w)} = {first}
    BY <1>1, <1>2 DEF Busy, Serving
  <2>2. Cardinality({first}) = 1
    BY FS_Singleton
  <2> QED BY <1>2, <2>1, <2>2 DEF PoolCounts, Init
<1> QED BY <1>6, <1>7, <1>8, <1>9 DEF LoopInv

-----------------------------------------------------------------------------
(* The steps.                                                              *)

\* What stands outside the requests, when a step leaves it alone.
LEMMA OutsideKept ==
    ASSUME LoopInv, UNCHANGED outside, RequestsInv',
           DeliveryInv => DeliveryInv',
           \A v \in Workers : (wpc'[v] \in {"none", "gone"} <=> wpc[v] \in {"none", "gone"}),
           \A v \in workers : Busy(v)' <=> Busy(v)
    PROVE  LoopInv'
<1>1. /\ unmounted' = unmounted /\ signalled' = signalled /\ exited' = exited
      /\ max_idle' = max_idle /\ workers' = workers /\ numworker' = numworker
      /\ numavail' = numavail /\ exit' = exit /\ cancelled' = cancelled
      /\ finish' = finish /\ main' = main /\ unstarted' = unstarted
  BY DEF outside, pool, ending
<1>2. TypeOK'
  BY <1>1 DEF LoopInv, TypeOK, RequestsInv
<1>3. ActiveInv' /\ EndInv' /\ (~exited' => DeliveryInv')
  BY <1>1 DEF LoopInv, ActiveInv, EndInv
<1>4. PoolCounts'
  BY <1>1, SameBusy DEF LoopInv
<1> QED BY <1>2, <1>3, <1>4 DEF LoopInv

\* Steps of the processes and of the kernel keep the invariant.
LEMMA KernelStep ==
    ASSUME LoopInv, Kernel
    PROVE  LoopInv'
<1>1. wpc' = wpc /\ msg' = msg /\ UNCHANGED outside
  BY DEF Kernel, Send, SendInterrupt, outside
<1>2. RequestsInv' /\ (DeliveryInv => DeliveryInv')
  BY SendKeeps, SendInterruptKeeps DEF Kernel, LoopInv
<1>3. \A v \in Workers : Busy(v)' <=> Busy(v)
  BY <1>1 DEF Busy, IsForget
<1> QED BY <1>1, <1>2, <1>3, OutsideKept DEF LoopInv, TypeOK

\* A worker inside fuse_session_process_buf_int stays there or has served.
LEMMA ServeStays ==
    ASSUME RequestsInv, NEW w \in Workers, Serve(w)
    PROVE  /\ msg' = msg
           /\ \A v \in Workers : \/ wpc'[v] = wpc[v]
                                 \/ wpc[v] \in Serving /\ wpc'[v] \in Serving \cup {"after"}
<1>1. wpc \in [Workers -> Places]
  BY DEF RequestsInv, RequestsTypeOK
<1>2. CASE Register(w)
  BY <1>1, <1>2 DEF Register, Goto, Serving
<1>3. CASE ForgetDone(w) \/ Prepare(w) \/ OpStep(w) \/ Finish(w) \/ Unset(w)
  BY <1>1, <1>3 DEF ForgetDone, Prepare, OpStep, Finish, Unset, Goto, Serving
<1>4. CASE Reply(w) \/ fuse_free_req(w) \/ Find(w) \/ Interrupt(w) \/ Put(w)
  BY <1>1, <1>4 DEF Reply, fuse_free_req, Find, At, Interrupt, Put, Goto, Serving
<1>5. CASE fuse_interrupt(w)
  BY <1>1, <1>5 DEF fuse_interrupt, Serving
<1> QED BY <1>2, <1>3, <1>4, <1>5 DEF Serve

\* Serving a message does not touch the pool.
LEMMA ServeStepKeeps ==
    ASSUME LoopInv, NEW w \in Workers, ServeStep(w)
    PROVE  LoopInv'
<1>1. Serve(w) /\ UNCHANGED outside /\ RequestsInv
  BY DEF ServeStep, outside, LoopInv
<1>2. RequestsInv' /\ (DeliveryInv => DeliveryInv')
  BY <1>1, ServeKeeps
<1>3. /\ msg' = msg
      /\ \A v \in Workers : \/ wpc'[v] = wpc[v]
                            \/ wpc[v] \in Serving /\ wpc'[v] \in Serving \cup {"after"}
  BY <1>1, ServeStays
<1>4. \A v \in Workers : wpc'[v] \in {"none", "gone"} <=> wpc[v] \in {"none", "gone"}
  BY <1>3 DEF Serving
<1>5. \A v \in Workers : Busy(v)' <=> Busy(v)
  BY <1>3 DEF Busy, IsForget
<1> QED BY <1>1, <1>2, <1>4, <1>5, OutsideKept DEF LoopInv, TypeOK

\* A thread that has no message, or drops it, goes on or ends.
LEMMA MoveStep ==
    ASSUME LoopInv, NEW w \in Workers, NEW place \in {"read", "gone"},
           wpc[w] \in {"top", "read"},
           wpc' = [wpc EXCEPT ![w] = place], msg' = msg,
           UNCHANGED <<kernel, session, unmounted, signalled, max_idle, pool, exit,
                       cancelled, main>>,
           finish' \in Nat, exited' \in BOOLEAN, exited => exited'
    PROVE  LoopInv'
<1>1. /\ device' = device /\ sent' = sent /\ asked' = asked /\ answered' = answered
      /\ workers' = workers /\ numworker' = numworker /\ numavail' = numavail
      /\ unstarted' = unstarted
  BY DEF kernel, pool
<1>2. wpc \in [Workers -> Places] /\ msg \in [Workers -> Messages \cup {NoMsg}]
  BY DEF LoopInv, RequestsInv, RequestsTypeOK
<1>3. /\ wpc' \in [Workers -> Places]
      /\ wpc[w] \in Outside /\ wpc'[w] = place /\ place \in Outside
      /\ \A v \in Workers \ {w} : wpc'[v] = wpc[v]
  BY <1>2 DEF Places, Outside
<1>4. RequestsInv' /\ (DeliveryInv => DeliveryInv')
  BY <1>1, <1>2, <1>3, MovesKeep DEF LoopInv
<1>5. \A v \in Workers : Busy(v)' <=> Busy(v)
  BY <1>2 DEF Busy, IsForget, Serving
<1>6. TypeOK'
  BY <1>1, <1>4 DEF LoopInv, TypeOK, RequestsInv
<1>7. ActiveInv' /\ EndInv' /\ (~exited' => DeliveryInv')
  BY <1>1, <1>3, <1>4 DEF LoopInv, ActiveInv, EndInv
<1>8. PoolCounts'
  BY <1>1, <1>5, SameBusy DEF LoopInv, TypeOK
<1> QED BY <1>4, <1>6, <1>7, <1>8 DEF LoopInv

\* A worker at the top of its loop starts to read.
LEMMA TopStep ==
    ASSUME LoopInv, NEW w \in Workers, Top(w)
    PROVE  LoopInv'
<1>1. finish \in Nat /\ exited \in BOOLEAN
  BY DEF LoopInv, TypeOK
<1> QED BY <1>1, MoveStep DEF Top, Post, Goto

\* A read that finds the device gone or no message ends the worker.
LEMMA ReadGoneStep ==
    ASSUME LoopInv, NEW w \in Workers, ReadGone(w)
    PROVE  LoopInv'
<1>1. finish \in Nat
  BY DEF LoopInv, TypeOK
<1>2. /\ wpc[w] \in {"top", "read"} /\ finish' \in Nat
      /\ wpc' = [wpc EXCEPT ![w] = "gone"] /\ msg' = msg
      /\ UNCHANGED <<kernel, session, unmounted, signalled, max_idle, pool, exit,
                     cancelled, main>>
  BY <1>1 DEF ReadGone, Post, Goto
<1>3. exited' \in BOOLEAN /\ (exited => exited')
  BY DEF ReadGone
<1> QED BY <1>2, <1>3, MoveStep

\* A worker that is cancelled in its read is over.
LEMMA CancelledStep ==
    ASSUME LoopInv, NEW w \in Workers, Cancelled(w)
    PROVE  LoopInv'
<1>1. finish \in Nat /\ exited \in BOOLEAN
  BY DEF LoopInv, TypeOK
<1> QED BY <1>1, MoveStep DEF Cancelled, Leave, Goto

\* A read takes one message over from the kernel.
LEMMA ReadMsgStep ==
    ASSUME LoopInv, NEW w \in Workers, ReadMsg(w)
    PROVE  LoopInv'
<1>1. PICK m \in device : ReadMsg(w)!(m)
  BY DEF ReadMsg
<1>2. /\ device' = device \ {m} /\ sent' = sent /\ asked' = asked
      /\ answered' = answered /\ session' = session /\ wpc[w] = "read"
      /\ unmounted' = unmounted /\ signalled' = signalled /\ exited' = exited
      /\ max_idle' = max_idle /\ workers' = workers /\ numworker' = numworker
      /\ numavail' = numavail /\ exit' = exit /\ cancelled' = cancelled /\ main' = main
      /\ unstarted' = unstarted
  BY <1>1 DEF pool
<1>3. wpc \in [Workers -> Places] /\ msg \in [Workers -> Messages \cup {NoMsg}]
  BY DEF LoopInv, RequestsInv, RequestsTypeOK
<1>4. finish \in Nat /\ exited \in BOOLEAN
  BY DEF LoopInv, TypeOK
<1>5. CASE exited
  <2>1. wpc' = [wpc EXCEPT ![w] = "gone"] /\ finish' = finish + 1 /\ msg' = msg
    BY <1>1, <1>5 DEF Post, Goto
  <2>2. /\ wpc' \in [Workers -> Places]
        /\ wpc[w] \in Outside /\ wpc'[w] = "gone" /\ "gone" \in Outside
        /\ \A v \in Workers \ {w} : wpc'[v] = wpc[v]
    BY <1>2, <1>3, <2>1 DEF Places, Outside
  <2>3. RequestsInv'
    BY <1>2, <1>3, <2>1, <2>2, DropsKeep DEF LoopInv
  <2>4. \A v \in Workers : Busy(v)' <=> Busy(v)
    BY <1>2, <1>3, <2>1 DEF Busy, IsForget, Serving
  <2>5. TypeOK'
    BY <1>2, <1>4, <2>1, <2>3 DEF LoopInv, TypeOK, RequestsInv
  <2>6. ActiveInv' /\ EndInv'
    BY <1>2, <2>2 DEF LoopInv, ActiveInv, EndInv
  <2>7. PoolCounts'
    BY <1>2, <2>4, SameBusy DEF LoopInv, TypeOK
  <2> QED BY <1>2, <1>5, <2>3, <2>5, <2>6, <2>7 DEF LoopInv
<1>6. CASE ~exited
  <2>1. /\ wpc' = [wpc EXCEPT ![w] = "got"] /\ finish' = finish
        /\ msg' = [msg EXCEPT ![w] = m]
    BY <1>1, <1>6 DEF Goto
  <2>2. RequestsInv' /\ (DeliveryInv => DeliveryInv')
    BY <1>2, <2>1, ReadsKeep DEF LoopInv
  <2>3. \A v \in Workers : Busy(v)' <=> Busy(v)
    BY <1>2, <1>3, <2>1 DEF Busy, IsForget, Serving
  <2>4. \A v \in Workers : wpc'[v] \in {"none", "gone"} <=> wpc[v] \in {"none", "gone"}
    BY <1>2, <1>3, <2>1
  <2>5. UNCHANGED outside
    BY <1>2, <2>1 DEF outside, pool, ending
  <2> QED BY <2>2, <2>3, <2>4, <2>5, OutsideKept DEF LoopInv, TypeOK
<1> QED BY <1>4, <1>5, <1>6

\* The last thread that is available starts another one.
LEMMA StartsStep ==
    ASSUME LoopInv, NEW w \in Workers, Account(w), ~exit,
           StartsThread(Available(w)), Started(w)
    PROVE  PoolCounts' /\ numworker' \in 0 .. max_threads /\ numavail' \in Int
<1>1. PICK u \in Workers \ workers :
        /\ wpc[u] = "none"
        /\ wpc' = [wpc EXCEPT ![w] = "process", ![u] = "top"]
        /\ workers' = workers \cup {u}
        /\ numavail' = Available(w) + 1
        /\ numworker' = numworker + 1
  BY DEF Started
<1>2. wpc[w] = "got" /\ msg' = msg /\ exit' = exit
  BY DEF Account
<1>3. /\ wpc \in [Workers -> Places] /\ TypeOK /\ ActiveInv
      /\ numworker = Cardinality(workers) /\ numavail = Cardinality(Avail)
      /\ IsFiniteSet(workers) /\ IsFiniteSet(Avail)
  BY PoolFinite DEF LoopInv, RequestsInv, RequestsTypeOK, PoolCounts, Avail
<1>4. /\ w \in Avail /\ u \notin Avail /\ u # w
      /\ wpc'[w] = "process" /\ wpc'[u] = "top"
      /\ \A v \in Workers \ {u, w} : wpc'[v] = wpc[v]
  BY <1>1, <1>2, <1>3 DEF ActiveInv, Avail, Busy, Serving
<1>5. Avail' = (IF IsForget(w) THEN Avail ELSE Avail \ {w}) \cup {u}
  <2>1. workers \subseteq Workers
    BY <1>3 DEF TypeOK
  <2> QED BY <1>1, <1>2, <1>4, <2>1 DEF Avail, Busy, IsForget, Serving
<1>6. Cardinality(Avail') = Available(w) + 1
  <2>1. CASE IsForget(w)
    BY <1>3, <1>4, <1>5, <2>1, FS_AddElement DEF Available
  <2>2. CASE ~IsForget(w)
    <3>1. /\ IsFiniteSet(Avail \ {w}) /\ Cardinality(Avail \ {w}) = numavail - 1
      BY <1>3, <1>4, FS_RemoveElement
    <3>2. Cardinality((Avail \ {w}) \cup {u}) = numavail - 1 + 1
      BY <1>4, <3>1, FS_AddElement
    <3> QED BY <1>5, <2>2, <3>2 DEF Available
  <2> QED BY <2>1, <2>2
<1>7. Cardinality(workers') = numworker + 1
  BY <1>1, <1>3, FS_AddElement
<1>8. numworker' \in 0 .. max_threads /\ numavail' \in Int
  BY <1>1, <1>3, LoopAssumption DEF TypeOK, StartsThread, Available
<1> QED BY <1>1, <1>6, <1>7, <1>8 DEF PoolCounts, Avail

\* The worker that read counts itself busy, and may start another one.
LEMMA AccountStep ==
    ASSUME LoopInv, NEW w \in Workers, Account(w)
    PROVE  LoopInv'
<1>1. /\ wpc[w] = "got" /\ msg' = msg /\ device' = device /\ sent' = sent /\ asked' = asked
      /\ answered' = answered /\ session' = session
      /\ unmounted' = unmounted /\ signalled' = signalled /\ exited' = exited
      /\ max_idle' = max_idle /\ exit' = exit /\ cancelled' = cancelled /\ main' = main
      /\ finish' = finish
  BY DEF Account, kernel, Leave
<1>2. /\ wpc \in [Workers -> Places] /\ msg \in [Workers -> Messages \cup {NoMsg}]
      /\ w \in workers /\ workers \subseteq Workers
  BY <1>1 DEF LoopInv, RequestsInv, RequestsTypeOK, ActiveInv, TypeOK
<1>3. main # "done"
  BY <1>2 DEF LoopInv, EndInv
<1>7. unstarted' \in BOOLEAN
  <2>1. unstarted' = unstarted \/ unstarted' = (unstarted \/ StartsThread(Available(w)))
    BY DEF Account, Started, pool
  <2>2. unstarted \in BOOLEAN
    BY DEF LoopInv, TypeOK
  <2> QED BY <2>1, <2>2
<1>4. CASE exit /\ Leave(w) /\ UNCHANGED pool
  <2>1. wpc' = [wpc EXCEPT ![w] = "gone"] /\ UNCHANGED pool
    BY <1>4 DEF Leave, Goto
  <2>2. /\ wpc' \in [Workers -> Places]
        /\ wpc'[w] = "gone" /\ "gone" \in Outside
        /\ \A v \in Workers \ {w} : wpc'[v] = wpc[v]
    BY <1>2, <2>1 DEF Places, Outside
  <2>3. RequestsInv'
    BY <1>1, <1>2, <2>2, DropsKeep DEF LoopInv
  <2>4. TypeOK' /\ ActiveInv' /\ EndInv'
    BY <1>1, <2>1, <2>2, <2>3 DEF LoopInv, TypeOK, RequestsInv, ActiveInv, EndInv, pool
  <2>5. exited
    BY <1>3, <1>4 DEF LoopInv, EndInv
  <2> QED BY <1>1, <1>4, <2>3, <2>4, <2>5 DEF LoopInv, PoolCounts
<1>5. CASE ~exit /\ StartsThread(Available(w)) /\ Started(w)
  <2>1. PICK u \in Workers \ workers :
          /\ wpc[u] = "none"
          /\ wpc' = [wpc EXCEPT ![w] = "process", ![u] = "top"]
          /\ workers' = workers \cup {u}
    BY <1>5 DEF Started
  <2>2. /\ wpc' \in [Workers -> Places] /\ u # w
        /\ wpc'[w] = "process" /\ wpc[u] \in Outside /\ wpc'[u] \in Outside
        /\ \A v \in Workers \ {u, w} : wpc'[v] = wpc[v]
    BY <1>1, <1>2, <2>1 DEF Places, Serving, Outside
  <2>3. RequestsInv' /\ (DeliveryInv => DeliveryInv')
    BY <1>1, <1>2, <2>2, MovesKeep DEF LoopInv
  <2>4. PoolCounts' /\ numworker' \in 0 .. max_threads /\ numavail' \in Int
    BY <1>5, StartsStep
  <2>5. TypeOK' /\ ActiveInv' /\ EndInv'
    BY <1>1, <1>2, <1>3, <1>7, <2>1, <2>2, <2>3, <2>4
       DEF LoopInv, TypeOK, RequestsInv, ActiveInv, EndInv
  <2> QED BY <1>1, <2>3, <2>4, <2>5 DEF LoopInv
<1>6. CASE /\ ~exit /\ Goto(w, "process") /\ numavail' = Available(w)
           /\ UNCHANGED <<workers, numworker, finish>>
  <2>1. /\ wpc' = [wpc EXCEPT ![w] = "process"] /\ numavail' = Available(w)
        /\ workers' = workers /\ numworker' = numworker
    BY <1>6 DEF Goto
  <2>2. /\ wpc' \in [Workers -> Places] /\ wpc'[w] = "process"
        /\ \A v \in Workers \ {w} : wpc'[v] = wpc[v]
    BY <1>2, <2>1 DEF Places, Serving
  <2>3. RequestsInv' /\ (DeliveryInv => DeliveryInv')
    BY <1>1, <1>2, <2>2, MovesKeep DEF LoopInv
  <2>4. /\ numavail = Cardinality(Avail) /\ IsFiniteSet(Avail) /\ w \in Avail
        /\ numavail \in Int
    BY <1>1, <1>2, <1>6, PoolFinite
       DEF LoopInv, PoolCounts, Avail, Busy, Serving, TypeOK
  <2>5. Avail' = IF IsForget(w) THEN Avail ELSE Avail \ {w}
    BY <1>1, <1>2, <2>1, <2>2, <2>4 DEF Avail, Busy, IsForget, Serving
  <2>6. Cardinality(Avail') = numavail'
    BY <2>1, <2>4, <2>5, FS_RemoveElement DEF Available
  <2>7. PoolCounts' /\ numavail' \in Int
    BY <1>1, <1>6, <2>1, <2>4, <2>6 DEF LoopInv, PoolCounts, Avail, Available
  <2>8. TypeOK' /\ ActiveInv' /\ EndInv'
    BY <1>1, <1>2, <1>7, <2>1, <2>2, <2>3, <2>7
       DEF LoopInv, TypeOK, RequestsInv, ActiveInv, EndInv
  <2> QED BY <1>1, <2>3, <2>7, <2>8 DEF LoopInv
<1> QED BY <1>4, <1>5, <1>6 DEF Account

\* The counters after a message is served, when the pool still counts.
LEMMA AfterCounts ==
    ASSUME LoopInv, NEW w \in Workers, After(w), ~exit
    PROVE  PoolCounts' /\ numworker' \in 0 .. max_threads /\ numavail' \in Int
<1> DEFINE avail == IF IsForget(w) THEN numavail ELSE numavail + 1
           free == IF IsForget(w) THEN Avail ELSE Avail \cup {w}
<1>1. /\ wpc[w] = "after" /\ msg' = [msg EXCEPT ![w] = NoMsg] /\ exit' = exit
  BY DEF After
<1>2. /\ wpc \in [Workers -> Places] /\ msg \in [Workers -> Messages \cup {NoMsg}]
      /\ workers \subseteq Workers /\ w \in workers
      /\ numworker = Cardinality(workers) /\ numavail = Cardinality(Avail)
      /\ IsFiniteSet(workers) /\ IsFiniteSet(Avail) /\ numavail \in Int
      /\ numworker \in 0 .. max_threads /\ max_threads \in Nat
  BY <1>1, PoolFinite, LoopAssumption
     DEF LoopInv, RequestsInv, RequestsTypeOK, PoolCounts, Avail, ActiveInv, TypeOK
<1>3. IF IsForget(w) THEN w \in Avail ELSE w \notin Avail
  BY <1>1, <1>2 DEF Avail, Busy
<1>4. IsFiniteSet(free) /\ Cardinality(free) = avail /\ w \in free /\ avail \in Int
  BY <1>2, <1>3, FS_AddElement
<1>5. NoMsg.kind # "forget"
  BY MessageFacts
<1> HIDE DEF avail
<1>6. CASE ~Idle(avail)
  <2>1. /\ wpc' = [wpc EXCEPT ![w] = "top"] /\ numavail' = avail
        /\ workers' = workers /\ numworker' = numworker
    BY <1>6 DEF After, Goto, avail
  <2>2. Avail' = free
    BY <1>1, <1>2, <1>3, <1>5, <2>1 DEF Avail, Busy, IsForget, Serving
  <2> QED BY <1>1, <1>2, <1>4, <2>1, <2>2 DEF PoolCounts, Avail
<1>7. CASE Idle(avail)
  <2>1. /\ wpc' = [wpc EXCEPT ![w] = "none"] /\ numavail' = avail - 1
        /\ workers' = workers \ {w} /\ numworker' = numworker - 1
    BY <1>7 DEF After, Goto, avail
  <2>2. Avail' = free \ {w}
    BY <1>1, <1>2, <1>3, <1>5, <2>1 DEF Avail, Busy, IsForget, Serving
  <2>3. numworker > 1
    BY <1>7 DEF Idle
  <2>4. Cardinality(free \ {w}) = avail - 1 /\ Cardinality(workers \ {w}) = numworker - 1
    BY <1>2, <1>4, FS_RemoveElement
  <2> QED BY <1>1, <1>2, <1>4, <2>1, <2>2, <2>3, <2>4 DEF PoolCounts, Avail
<1> QED BY <1>6, <1>7

\* A worker that is done counts itself idle, or leaves when there are too many.
LEMMA AfterStep ==
    ASSUME LoopInv, NEW w \in Workers, After(w)
    PROVE  LoopInv'
<1>1. /\ wpc[w] = "after" /\ msg' = [msg EXCEPT ![w] = NoMsg]
      /\ device' = device /\ sent' = sent /\ asked' = asked
      /\ answered' = answered /\ session' = session
      /\ unmounted' = unmounted /\ signalled' = signalled /\ exited' = exited
      /\ max_idle' = max_idle /\ exit' = exit /\ cancelled' = cancelled /\ main' = main
      /\ finish' = finish /\ unstarted' = unstarted
  BY DEF After, kernel, Leave, pool
<1>2. /\ wpc \in [Workers -> Places] /\ msg \in [Workers -> Messages \cup {NoMsg}]
      /\ w \in workers /\ workers \subseteq Workers
  BY <1>1 DEF LoopInv, RequestsInv, RequestsTypeOK, ActiveInv, TypeOK
<1>3. \/ /\ wpc' = [wpc EXCEPT ![w] = "top"] /\ workers' = workers
      \/ /\ wpc' = [wpc EXCEPT ![w] = "gone"] /\ workers' = workers
      \/ /\ wpc' = [wpc EXCEPT ![w] = "none"] /\ workers' = workers \ {w}
  BY DEF After, Goto, Leave
<1>4. /\ wpc' \in [Workers -> Places] /\ wpc'[w] \in {"top", "gone", "none"}
      /\ msg' \in [Workers -> Messages \cup {NoMsg}] /\ msg'[w] = NoMsg
      /\ \A v \in Workers \ {w} : wpc'[v] = wpc[v] /\ msg'[v] = msg[v]
  BY <1>1, <1>2, <1>3 DEF Places
<1>5. wpc[w] \in Outside /\ wpc'[w] \in Outside
  BY <1>1, <1>4 DEF Outside
<1>6. RequestsInv' /\ (DeliveryInv => DeliveryInv')
  BY <1>1, <1>4, <1>5, MovesKeep DEF LoopInv
<1>7. ActiveInv'
  BY <1>2, <1>3 DEF LoopInv, ActiveInv
<1>8. main # "done" /\ EndInv'
  BY <1>1, <1>2 DEF LoopInv, EndInv
<1>9. PoolCounts' /\ numworker' \in 0 .. max_threads /\ numavail' \in Int
  <2>1. CASE ~exit
    BY <2>1, AfterCounts
  <2>2. CASE exit
    <3>1. numworker' = numworker /\ numavail' \in {numavail, numavail + 1}
      BY <2>2 DEF After
    <3> QED BY <1>1, <2>2, <3>1 DEF PoolCounts, LoopInv, TypeOK
  <2> QED BY <2>1, <2>2
<1>10. TypeOK'
  BY <1>1, <1>2, <1>3, <1>6, <1>9 DEF LoopInv, TypeOK, RequestsInv
<1> QED BY <1>1, <1>6, <1>7, <1>8, <1>9, <1>10 DEF LoopInv

-----------------------------------------------------------------------------
(* Steps that leave the workers alone.                                     *)

\* The exit flag goes up, and is not taken back.
LEMMA FlagStep ==
    ASSUME LoopInv, UNCHANGED <<requestVars, pool>>, exit' = exit,
           exited' \in BOOLEAN, exited => exited',
           unmounted' \in BOOLEAN, signalled' \in BOOLEAN, max_idle' = max_idle,
           cancelled' = cancelled, finish' \in Nat,
           \/ main' = main
           \/ main \in {"check", "sem_wait"} /\ main' \in {"check", "sem_wait"}
           \/ main = "check" /\ main' = "cancel" /\ exited
    PROVE  LoopInv'
<1>1. /\ device' = device /\ sent' = sent /\ asked' = asked /\ answered' = answered
      /\ list' = list /\ interrupts' = interrupts /\ req' = req /\ intr_data' = intr_data
      /\ wpc' = wpc /\ msg' = msg
      /\ workers' = workers /\ numworker' = numworker /\ numavail' = numavail
      /\ unstarted' = unstarted
  BY DEF requestVars, kernel, session, pool
<1>2. RequestsInv' /\ (DeliveryInv => DeliveryInv')
  <2>1. session' = session
    BY <1>1 DEF session
  <2> QED BY <1>1, <2>1, MovesKeep DEF LoopInv, RequestsInv, RequestsTypeOK
<1>3. TypeOK'
  BY <1>1, <1>2 DEF LoopInv, TypeOK, RequestsInv
<1>4. ActiveInv' /\ EndInv' /\ (~exited' => DeliveryInv')
  BY <1>1, <1>2 DEF LoopInv, ActiveInv, EndInv
<1>5. PoolCounts'
  BY <1>1, SameBusy DEF LoopInv, Busy, IsForget
<1> QED BY <1>2, <1>3, <1>4, <1>5 DEF LoopInv

\* Signals and the unmount keep the invariant.
LEMMA OutsideSteps ==
    ASSUME LoopInv
    PROVE  /\ Signal => LoopInv'
           /\ Unmount => LoopInv'
           /\ Loop => LoopInv'
           /\ \A w \in Workers : OpExits(w) => LoopInv'
<1>1. /\ exited \in BOOLEAN /\ unmounted \in BOOLEAN /\ signalled \in BOOLEAN
      /\ finish \in Nat
  BY DEF LoopInv, TypeOK
<1>2. ASSUME Signal PROVE LoopInv'
  BY <1>1, <1>2, FlagStep DEF Signal
<1>3. ASSUME Unmount PROVE LoopInv'
  BY <1>1, <1>3, FlagStep DEF Unmount, ending
<1>4. ASSUME Loop PROVE LoopInv'
  <2>1. finish' \in Nat
    BY <1>1, <1>4 DEF Loop
  <2> QED BY <1>1, <1>4, <2>1, FlagStep DEF Loop
<1>5. ASSUME NEW w \in Workers, OpExits(w) PROVE LoopInv'
  BY <1>1, <1>5, FlagStep DEF OpExits, ending
<1> QED BY <1>2, <1>3, <1>4, <1>5

\* The main thread cancels the workers of the list.
LEMMA CancelAllStep ==
    ASSUME LoopInv, CancelAll
    PROVE  LoopInv'
<1>1. /\ device' = device /\ sent' = sent /\ asked' = asked /\ answered' = answered
      /\ session' = session /\ wpc' = wpc /\ msg' = msg
      /\ workers' = workers /\ numworker' = numworker /\ numavail' = numavail
      /\ unmounted' = unmounted /\ signalled' = signalled /\ exited' = exited
      /\ max_idle' = max_idle /\ finish' = finish
      /\ main = "cancel" /\ main' = "join" /\ exit' = TRUE /\ cancelled' = workers
      /\ unstarted' = unstarted
  BY DEF CancelAll, requestVars, kernel, pool
<1>2. RequestsInv' /\ (DeliveryInv => DeliveryInv')
  BY <1>1, MovesKeep DEF LoopInv, RequestsInv, RequestsTypeOK
<1>3. TypeOK'
  BY <1>1, <1>2 DEF LoopInv, TypeOK, RequestsInv
<1>4. ActiveInv' /\ EndInv' /\ (~exited' => DeliveryInv') /\ PoolCounts'
  BY <1>1, <1>2 DEF LoopInv, ActiveInv, EndInv, PoolCounts
<1> QED BY <1>2, <1>3, <1>4 DEF LoopInv

\* The main thread joins a worker and takes it off the list.
LEMMA JoinStep ==
    ASSUME LoopInv, Join
    PROVE  LoopInv'
<1>1. /\ device' = device /\ sent' = sent /\ asked' = asked /\ answered' = answered
      /\ session' = session /\ wpc' = wpc /\ msg' = msg
      /\ numworker' = numworker /\ numavail' = numavail
      /\ unmounted' = unmounted /\ signalled' = signalled
      /\ max_idle' = max_idle /\ finish' = finish
      /\ main = "join" /\ exit' = exit /\ cancelled' = cancelled
      /\ unstarted' = unstarted
  BY DEF Join, requestVars, kernel
<1>2. RequestsInv' /\ (DeliveryInv => DeliveryInv')
  BY <1>1, MovesKeep DEF LoopInv, RequestsInv, RequestsTypeOK
<1>3. exit /\ exited
  BY <1>1 DEF LoopInv, EndInv
<1>4. CASE workers = {}
  <2>1. main' = "done" /\ exited' = FALSE /\ workers' = workers
    BY <1>4 DEF Join
  <2>2. \A v \in Workers : wpc'[v] \in {"none", "gone"}
    BY <1>1, <1>4 DEF LoopInv, ActiveInv
  <2>3. DeliveryInv'
    <3>1. \A v \in Workers, s \in Reqs : ~Owns(v, s)' /\ ~Awaits(v, s)'
      BY <2>2 DEF Owns, Owner, Awaits
    <3>2. asked' \subseteq Reqs /\ \A s \in Reqs : s \notin list'
      BY <1>2, <3>1 DEF RequestsInv, RequestsTypeOK, ListInv
    <3> QED BY <3>1, <3>2 DEF DeliveryInv
  <2>4. TypeOK' /\ ActiveInv' /\ EndInv'
    BY <1>1, <1>2, <1>4, <2>1, <2>2 DEF LoopInv, TypeOK, RequestsInv, ActiveInv, EndInv
  <2> QED BY <1>1, <1>2, <1>3, <2>3, <2>4 DEF LoopInv, PoolCounts
<1>5. CASE workers # {}
  <2>1. PICK w \in workers : wpc[w] = "gone" /\ workers' = workers \ {w}
    BY <1>5 DEF Join
  <2>2. main' = main /\ exited' = exited
    BY <1>5 DEF Join
  <2>3. TypeOK' /\ ActiveInv' /\ EndInv'
    BY <1>1, <1>2, <2>1, <2>2 DEF LoopInv, TypeOK, RequestsInv, ActiveInv, EndInv
  <2> QED BY <1>1, <1>2, <1>3, <2>2, <2>3 DEF LoopInv, PoolCounts
<1> QED BY <1>4, <1>5

\* Nothing happens.
LEMMA StutterStep ==
    ASSUME LoopInv, UNCHANGED vars
    PROVE  LoopInv'
<1>1. UNCHANGED <<requestVars, pool>> /\ UNCHANGED ending
  BY DEF vars
<1>2. /\ unmounted' = unmounted /\ signalled' = signalled /\ exited' = exited
      /\ max_idle' = max_idle
  BY DEF vars
<1>3. exit' = exit /\ cancelled' = cancelled /\ finish' = finish /\ main' = main
  BY <1>1 DEF ending
<1> QED BY <1>1, <1>2, <1>3, FlagStep DEF LoopInv, TypeOK

\* The invariant holds throughout.
THEOREM LoopInvHolds == Spec => []LoopInv
<1>1. Init => LoopInv
  BY InitInv
<1>2. LoopInv /\ [Next]_vars => LoopInv'
  <2> SUFFICES ASSUME LoopInv, [Next]_vars PROVE LoopInv'
    OBVIOUS
  <2>1. CASE Kernel
    BY <2>1, KernelStep
  <2>2. CASE Signal \/ Unmount
    BY <2>2, OutsideSteps
  <2>3. CASE MainStep
    BY <2>3, OutsideSteps, CancelAllStep, JoinStep DEF MainStep
  <2>4. ASSUME NEW w \in Workers, Read(w)
        PROVE  LoopInv'
    BY <2>4, ReadMsgStep, ReadGoneStep, CancelledStep DEF Read
  <2>5. ASSUME NEW w \in Workers, WorkerStep(w)
        PROVE  LoopInv'
    BY <2>5, TopStep, AccountStep, AfterStep, ServeStepKeeps DEF WorkerStep
  <2>6. ASSUME NEW w \in Workers, OpExits(w)
        PROVE  LoopInv'
    BY <2>6, OutsideSteps
  <2>7. CASE UNCHANGED vars
    BY <2>7, StutterStep
  <2> QED BY <2>1, <2>2, <2>3, <2>4, <2>5, <2>6, <2>7 DEF Next
<1> QED BY <1>1, <1>2, PTL DEF Spec

-----------------------------------------------------------------------------
(* What it gives.                                                          *)

\* The variables have their types: fuse_loop_mt.c keeps at most max_threads
\* threads.
THEOREM TypeCorrect == Spec => []TypeOK
<1>1. LoopInv => TypeOK
  BY DEF LoopInv
<1> QED BY <1>1, LoopInvHolds, PTL

\* A request that an interrupt is carried to is not freed under it, by
\* fuse_free_req or by find_interrupted.
THEOREM RequestsAreHeld == Spec => []RequestsHeld
<1>1. LoopInv => RequestsHeld
  <2> SUFFICES ASSUME LoopInv, NEW w \in Workers, NEW r \in Reqs, Handling(w, r)
               PROVE  req[r].ctr > 0
    BY DEF RequestsHeld
  <2>1. req[r].ctr = (IF r \in list THEN 1 ELSE 0) + 1
    BY DEF LoopInv, RequestsInv, CountInv
  <2> QED BY <2>1
<1> QED BY <1>1, LoopInvHolds, PTL

\* fuse_interrupt does not run after the stack frame of its data is left.
THEOREM CallbackDataIsLive == Spec => []CallbackDataLive
<1>1. LoopInv => CallbackDataLive
  <2> SUFFICES ASSUME LoopInv, NEW w \in Workers, wpc[w] = "intr_func"
               PROVE  intr_data[msg[w].id] # "none"
    BY DEF CallbackDataLive
  <2>1. PICK r \in Reqs : msg[w].id = r /\ msg[w] = Intr(r)
    BY MessageFacts DEF LoopInv, RequestsInv, RequestsTypeOK, KindsInv
  <2> QED BY <2>1 DEF LoopInv, RequestsInv, DataInv
<1> QED BY <1>1, LoopInvHolds, PTL

\* check_interrupt and find_interrupted lose no interrupt of a request in
\* service, whichever of the two is read first.
THEOREM InterruptsNotLost == Spec => []InterruptNotLost
<1>1. LoopInv => InterruptNotLost
  BY DEF LoopInv, DeliveryInv, InterruptNotLost
<1> QED BY <1>1, LoopInvHolds, PTL

\* numworker and numavail are those of the list, also when a thread could not be
\* started, so that fuse_do_work tries to start one exactly when none is left to
\* read.
THEOREM PoolIsCounted == Spec => []PoolCounts
<1>1. LoopInv => PoolCounts
  BY DEF LoopInv
<1> QED BY <1>1, LoopInvHolds, PTL
=============================================================================
