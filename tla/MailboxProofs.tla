---------------------------- MODULE MailboxProofs ----------------------------
(***************************************************************************)
(* Type correctness and first-in first-out delivery of the mailbox, for    *)
(* any finite set of producers, any number of messages and any limit.      *)
(***************************************************************************)
EXTENDS Mailbox, TLAPS

(***************************************************************************)
(* The inductive invariant.  `chain' lists the nodes from head to tail in  *)
(* the order of the exchanges; the links in memory follow it except where  *)
(* a thread has exchanged the tail and not yet stored its link.            *)
(***************************************************************************)
Links(p, a, b) == ppc[p] = "link" /\ pprev[p] = a /\ msgOf(p) = b

LinksStub(a, b) == cpc = "link" /\ cnext = a /\ b = Stub

ChainEnds == /\ Len(chain) >= 1
             /\ chain[1] = head
             /\ chain[Len(chain)] = tail
             /\ next[tail] = Null

ChainDistinct ==
  \A i, j \in 1..Len(chain) : chain[i] = chain[j] => i = j

\* A link that is missing from memory is one some thread is about to store.
ChainLinked ==
  \A i \in 1..(Len(chain) - 1) :
    \/ next[chain[i]] = chain[i + 1]
    \/ /\ next[chain[i]] = Null
       /\ \/ \E p \in Producers : Links(p, chain[i], chain[i + 1])
          \/ LinksStub(chain[i], chain[i + 1])

Missing(a, b) == \E i \in 1..(Len(chain) - 1) :
                   chain[i] = a /\ chain[i + 1] = b /\ next[a] = Null

\* A thread about to store a link is about to store a missing one.
LinkersSound ==
  /\ \A p \in Producers : ppc[p] = "link" => Missing(pprev[p], msgOf(p))
  /\ cpc = "link" => Missing(cnext, Stub)

\* The message of a producer that has not exchanged yet is not in the chain.
Unpublished ==
  \A p \in Producers : \A i \in 1..Len(chain) : \A k \in 1..MaxSend :
    chain[i] = <<p, k>> => /\ k <= seq[p]
                           /\ ppc[p] = "xchg" => k < seq[p]

PushStarted == \A p \in Producers : ppc[p] # "idle" => seq[p] >= 1

\* What mailbox_pop knows at each of its steps.
ConsumerSound ==
  /\ cpc \in {"reload", "tail", "spin", "stub", "link", "last", "take"}
       => chead = head /\ head # Stub
  /\ cpc = "take" => cnext = next[head] /\ cnext # Null
  /\ cpc = "stub" => \A i \in 1..Len(chain) : chain[i] # Stub
  /\ cpc \in {"spin", "link", "last"} => Len(chain) >= 2
  /\ cpc = "freed" => \A p \in Producers : ppc[p] = "idle"

StubUpTo(i) == \E j \in 1..i : chain[j] = Stub

Place(i) == IF StubUpTo(i) THEN Len(received) + i - 1 ELSE Len(received) + i

\* The messages of the chain are the accepted and not yet received ones.
Aligned ==
  cpc # "freed" =>
    /\ Len(sent) = Place(Len(chain))
    /\ \A i \in 1..Len(chain) : chain[i] # Stub => chain[i] = sent[Place(i)]

IInv == /\ TypeOK
        /\ ChainEnds /\ ChainDistinct /\ ChainLinked /\ LinkersSound
        /\ Unpublished /\ PushStarted /\ ConsumerSound
        /\ Aligned /\ FifoDelivery
-----------------------------------------------------------------------------
(* Sequences *)

\* What Append does to the length and to each element.
LEMMA AppendFacts ==
  ASSUME NEW S, NEW s \in Seq(S), NEW e \in S
  PROVE  /\ Append(s, e) \in Seq(S)
         /\ Len(Append(s, e)) = Len(s) + 1
         /\ \A i \in 1..Len(s) : Append(s, e)[i] = s[i]
         /\ Append(s, e)[Len(s) + 1] = e
  OBVIOUS

\* What Tail does to the length and to each element.
LEMMA TailFacts ==
  ASSUME NEW S, NEW s \in Seq(S), Len(s) >= 1
  PROVE  /\ Tail(s) \in Seq(S)
         /\ Len(Tail(s)) = Len(s) - 1
         /\ \A i \in 1..(Len(s) - 1) : Tail(s)[i] = s[i + 1]
  OBVIOUS

\* Wrapping arithmetic keeps a count within its width.
LEMMA ModFacts ==
  ASSUME NEW a \in Nat, NEW n \in Nat, n > 0
  PROVE  a % n \in 0..(n - 1)
  OBVIOUS

\* The stub and NULL are not messages.
LEMMA NodeFacts ==
  /\ Stub \notin Msg /\ Null \notin Node
  /\ \A p \in Producers : \A k \in 1..MaxSend :
       <<p, k>> \in Msg /\ <<p, k>> # Stub /\ <<p, k>> \in Node
<1>1. \A m \in Msg : m \in Producers \X Nat
  BY MailboxAssumption DEF Msg
<1>2. \A p \in Producers : \A k \in 1..MaxSend : <<p, k>> \in Msg
  BY DEF Msg
<1> QED
  BY <1>1, <1>2, MailboxAssumption DEF Node
-----------------------------------------------------------------------------
(* The initial state *)

LEMMA InitIInv == Init => IInv
<1> SUFFICES ASSUME Init PROVE IInv
  OBVIOUS
<1> USE MailboxAssumption DEF Init
<1>1. TypeOK
  BY DEF TypeOK, Node, ProducerAt, ConsumerAt
<1>2. Len(chain) = 1 /\ chain[1] = Stub
  OBVIOUS
<1>3. ChainEnds /\ ChainDistinct /\ ChainLinked
  BY <1>2 DEF ChainEnds, ChainDistinct, ChainLinked, Node
<1>4. LinkersSound /\ PushStarted /\ ConsumerSound
  BY DEF LinkersSound, PushStarted, ConsumerSound
<1>5. Unpublished
  BY <1>2, NodeFacts DEF Unpublished
<1>6. Aligned /\ FifoDelivery
  BY <1>2 DEF Aligned, FifoDelivery, Place, StubUpTo
<1> QED
  BY <1>1, <1>3, <1>4, <1>5, <1>6 DEF IInv
-----------------------------------------------------------------------------
(* Steps of mailbox_push *)

LEMMA PushCheckIInv ==
  ASSUME IInv, NEW q \in Producers, PushCheck(q)
  PROVE  IInv'
<1> USE MailboxAssumption DEF IInv, TypeOK, PushCheck, mailbox, consumer
<1>1. TypeOK'
  BY DEF ProducerAt
<1>2. \A p \in Producers : /\ ppc'[p] = "link" <=> ppc[p] = "link"
                           /\ ppc[p] = "link" => msgOf(p)' = msgOf(p)
  BY DEF msgOf, ProducerAt
<1>3. ChainEnds' /\ ChainDistinct'
  BY DEF ChainEnds, ChainDistinct
<1>4. ChainLinked'
  BY <1>2 DEF ChainLinked, Links, LinksStub
<1>5. LinkersSound'
  BY <1>2 DEF LinkersSound, Missing
<1>6. Unpublished'
  <2>1. /\ \A p \in Producers : p # q => seq'[p] = seq[p] /\ ppc'[p] = ppc[p]
        /\ seq'[q] = seq[q] + 1
        /\ seq \in [Producers -> Nat] /\ ppc[q] = "idle"
    BY SMT
  <2> SUFFICES ASSUME NEW p \in Producers, NEW i \in 1..Len(chain),
                      NEW k \in 1..MaxSend, chain[i] = <<p, k>>
               PROVE  k <= seq'[p] /\ (ppc'[p] = "xchg" => k < seq'[p])
    BY DEF Unpublished
  <2>2. k <= seq[p] /\ (ppc[p] = "xchg" => k < seq[p])
    BY DEF Unpublished
  <2> QED
    BY <2>1, <2>2
<1>7. PushStarted'
  BY DEF PushStarted
<1>8. ConsumerSound'
  BY DEF ConsumerSound
<1>9. Aligned' /\ FifoDelivery'
  BY DEF Aligned, FifoDelivery, Place, StubUpTo
<1> QED
  BY <1>1, <1>3, <1>4, <1>5, <1>6, <1>7, <1>8, <1>9

LEMMA PushExchangeIInv ==
  ASSUME IInv, NEW q \in Producers, PushExchange(q)
  PROVE  IInv'
<1> USE MailboxAssumption DEF IInv, TypeOK, PushExchange, consumer
<1>0. PICK m, n, t : m = msgOf(q) /\ n = Len(chain) /\ t = tail
  OBVIOUS
<1> USE <1>0
<1>1. m \in Msg /\ m \in Node /\ m # Stub /\ m = <<q, seq[q]>>
      /\ seq[q] \in 1..MaxSend
  BY NodeFacts DEF PushStarted, msgOf
<1>2. \A i \in 1..n : chain[i] # m
  <2> SUFFICES ASSUME NEW i \in 1..Len(chain), chain[i] = <<q, seq[q]>>
               PROVE  FALSE
    BY <1>1
  <2>1. seq[q] < seq[q]
    BY <1>1 DEF Unpublished
  <2> QED
    BY <2>1, <1>1
<1>3. /\ chain' \in Seq(Node) /\ Len(chain') = n + 1
      /\ \A i \in 1..n : chain'[i] = chain[i]
      /\ chain'[n + 1] = m
  BY <1>1, AppendFacts
<1>4. /\ sent' \in Seq(Msg) /\ Len(sent') = Len(sent) + 1
      /\ \A i \in 1..Len(sent) : sent'[i] = sent[i]
      /\ sent'[Len(sent) + 1] = m
  BY <1>1, AppendFacts
<1>5. n \in Nat /\ n >= 1 /\ Len(sent) \in Nat /\ Len(received) \in Nat
  BY DEF ChainEnds
<1>6. TypeOK'
  BY <1>1, <1>3, <1>4, NodeFacts DEF ProducerAt
<1>7. \A i \in 1..n : chain[i] \in Node /\ next'[chain[i]] = next[chain[i]]
  BY <1>2
<1>8. \A p \in Producers : p # q =>
        ppc'[p] = ppc[p] /\ pprev'[p] = pprev[p] /\ msgOf(p)' = msgOf(p)
  BY DEF msgOf
<1>9. ppc'[q] = "link" /\ pprev'[q] = t /\ msgOf(q)' = m
  BY DEF msgOf
<1>10. ChainEnds'
  BY <1>1, <1>3, <1>5 DEF ChainEnds
<1>11. ChainDistinct'
  <2> SUFFICES ASSUME NEW i \in 1..(n + 1), NEW j \in 1..(n + 1),
                      chain'[i] = chain'[j]
               PROVE  i = j
    BY <1>3 DEF ChainDistinct
  <2>1. \A k \in 1..(n + 1) : k \in 1..n \/ k = n + 1
    BY <1>5
  <2>2. CASE i \in 1..n /\ j \in 1..n
    BY <2>2, <1>3 DEF ChainDistinct
  <2>3. CASE i = n + 1 \/ j = n + 1
    BY <2>1, <2>3, <1>2, <1>3
  <2> QED
    BY <2>1, <2>2, <2>3
<1>12. ChainLinked'
  <2> SUFFICES ASSUME NEW i \in 1..n
               PROVE  \/ next'[chain'[i]] = chain'[i + 1]
                      \/ /\ next'[chain'[i]] = Null
                         /\ \/ \E p \in Producers : Links(p, chain[i], chain[i + 1])'
                            \/ LinksStub(chain[i], chain[i + 1])'
    BY <1>3, <1>5 DEF ChainLinked, Links, LinksStub
  <2>1. CASE i = n
    <3>1. chain'[i] = tail /\ chain'[i + 1] = m /\ next'[tail] = Null
      BY <2>1, <1>1, <1>3, <1>5, <1>7 DEF ChainEnds
    <3> QED
      BY <2>1, <3>1, <1>9 DEF Links
  <2>2. CASE i \in 1..(n - 1)
    <3>1. i + 1 \in 1..n /\ chain'[i] = chain[i] /\ chain'[i + 1] = chain[i + 1]
          /\ next'[chain[i]] = next[chain[i]]
      BY <2>2, <1>3, <1>5, <1>7
    <3>2. \A p \in Producers : Links(p, chain[i], chain[i + 1])
                                 => Links(p, chain[i], chain[i + 1])'
      BY <1>8, <3>1 DEF Links
    <3>3. LinksStub(chain[i], chain[i + 1]) => LinksStub(chain[i], chain[i + 1])'
      BY <3>1 DEF LinksStub
    <3> QED
      BY <2>2, <3>1, <3>2, <3>3 DEF ChainLinked
  <2> QED
    BY <2>1, <2>2, <1>5
<1>13. LinkersSound'
  <2>1. ASSUME NEW a, NEW b, a # m, Missing(a, b)
        PROVE  Missing(a, b)'
    <3>1. PICK i \in 1..(n - 1) : chain[i] = a /\ chain[i + 1] = b /\ next[a] = Null
      BY <2>1 DEF Missing
    <3>2. i \in 1..n /\ i + 1 \in 1..n /\ i \in 1..(Len(chain') - 1)
      BY <1>3, <1>5
    <3> QED
      BY <3>1, <3>2, <1>3, <1>7 DEF Missing
  <2>2. \A a, b : Missing(a, b) => a # m
    BY <1>2, <1>5 DEF Missing
  <2>3. Missing(t, m)'
    <3>1. n \in 1..(Len(chain') - 1) /\ chain'[n] = t /\ chain'[n + 1] = m
          /\ next'[t] = Null
      BY <1>3, <1>5, <1>7 DEF ChainEnds
    <3> QED
      BY <3>1 DEF Missing
  <2>4. ASSUME NEW p \in Producers, ppc'[p] = "link"
        PROVE  Missing(pprev[p], msgOf(p))'
    <3>1. CASE p = q
      BY <3>1, <2>3, <1>9 DEF Missing
    <3>2. CASE p # q
      <4>1. Missing(pprev[p], msgOf(p))
        BY <3>2, <2>4, <1>8 DEF LinkersSound
      <4>2. Missing(pprev[p], msgOf(p)) => pprev[p] # m
        BY <2>2
      <4>3. \E i \in 1..(Len(chain') - 1) : chain'[i] = pprev[p]
              /\ chain'[i + 1] = msgOf(p) /\ next'[pprev[p]] = Null
        BY <4>1, <4>2, <2>1 DEF Missing
      <4> QED
        BY <4>3, <3>2, <1>8 DEF Missing
    <3> QED
      BY <3>1, <3>2
  <2>5. ASSUME cpc' = "link" PROVE Missing(cnext, Stub)'
    <3>1. Missing(cnext, Stub) /\ cnext # m
      BY <2>5, <2>2 DEF LinkersSound
    <3>2. \E i \in 1..(Len(chain') - 1) : chain'[i] = cnext
              /\ chain'[i + 1] = Stub /\ next'[cnext] = Null
      BY <3>1, <2>1 DEF Missing
    <3> QED
      BY <3>2 DEF Missing
  <2> QED
    BY <2>4, <2>5 DEF LinkersSound
<1>14. Unpublished'
  <2> SUFFICES ASSUME NEW p \in Producers, NEW i \in 1..(n + 1),
                      NEW k \in 1..MaxSend, chain'[i] = <<p, k>>
               PROVE  k <= seq[p] /\ (ppc'[p] = "xchg" => k < seq[p])
    BY <1>3 DEF Unpublished
  <2>1. CASE i = n + 1
    <3>1. p = q /\ k = seq[q]
      BY <2>1, <1>1, <1>3
    <3> QED
      BY <3>1, <1>1, <1>9
  <2>2. CASE i \in 1..n
    <3>1. k <= seq[p] /\ (ppc[p] = "xchg" => k < seq[p])
      BY <2>2, <1>3 DEF Unpublished
    <3> QED
      BY <3>1, <1>8, <1>9
  <2> QED
    BY <2>1, <2>2, <1>5
<1>15. PushStarted'
  BY <1>1 DEF PushStarted
<1>16. cpc # "freed"
  BY DEF ConsumerSound
<1>17. ConsumerSound'
  <2>1. cpc = "take" => next'[head] = next[head]
    <3>1. 1 \in 1..n /\ chain[1] = head
      BY <1>5 DEF ChainEnds
    <3> QED
      BY <3>1, <1>7
  <2>2. cpc = "stub" => \A i \in 1..(n + 1) : chain'[i] # Stub
    BY <1>1, <1>3, <1>5 DEF ConsumerSound
  <2> QED
    BY <2>1, <2>2, <1>3, <1>16 DEF ConsumerSound
<1>18. Aligned'
  <2>1. \A i \in 1..n : StubUpTo(i)' <=> StubUpTo(i)
    BY <1>3, <1>5 DEF StubUpTo
  <2>2. StubUpTo(n + 1)' <=> StubUpTo(n)
    <3>1. \A j \in 1..(n + 1) : chain'[j] = Stub => j \in 1..n /\ chain[j] = Stub
      BY <1>1, <1>3, <1>5
    <3>2. \A j \in 1..n : j \in 1..(n + 1) /\ chain'[j] = chain[j]
      BY <1>3, <1>5
    <3> QED
      BY <3>1, <3>2 DEF StubUpTo
  <2>3. Place(n + 1)' = Place(n) + 1 /\ \A i \in 1..n : Place(i)' = Place(i)
    BY <2>1, <2>2, <1>5 DEF Place
  <2>4. Len(sent) = Place(n)
    BY <1>16 DEF Aligned
  <2>5. \A i \in 1..n : chain[i] # Stub => Place(i) \in 1..Len(sent)
    <3> SUFFICES ASSUME NEW i \in 1..n, chain[i] # Stub
                 PROVE  Place(i) \in 1..Len(sent)
      OBVIOUS
    <3>1. StubUpTo(i) => StubUpTo(n)
      BY <1>5 DEF StubUpTo
    <3>2. StubUpTo(i) => i >= 2
      BY DEF StubUpTo
    <3>3. StubUpTo(n) /\ ~StubUpTo(i) => i < n
      BY <1>5 DEF StubUpTo
    <3>4. Place(i) = IF StubUpTo(i) THEN Len(received) + i - 1 ELSE Len(received) + i
      BY DEF Place
    <3>5. Len(sent) = IF StubUpTo(n) THEN Len(received) + n - 1 ELSE Len(received) + n
      BY <2>4 DEF Place
    <3> HIDE DEF IInv, TypeOK, PushExchange
    <3> QED
      BY <3>1, <3>2, <3>3, <3>4, <3>5, <1>5
  <2>6. \A i \in 1..n : chain'[i] # Stub => chain'[i] = sent'[Place(i)']
    BY <2>3, <2>5, <1>3, <1>4, <1>16 DEF Aligned
  <2>7. chain'[n + 1] = sent'[Place(n + 1)']
    BY <2>3, <2>4, <1>3, <1>4
  <2>8. \A i \in 1..(n + 1) : i \in 1..n \/ i = n + 1
    BY <1>5
  <2>9. Len(sent') = Place(n + 1)'
    BY <2>3, <2>4, <1>4
  <2> HIDE DEF IInv, TypeOK, PushExchange
  <2> QED
    BY <2>6, <2>7, <2>8, <2>9, <1>3 DEF Aligned, Place, StubUpTo
<1>19. FifoDelivery'
  BY <1>4, <1>5 DEF FifoDelivery
<1> QED
  BY <1>6, <1>10, <1>11, <1>12, <1>13, <1>14, <1>15, <1>17, <1>18, <1>19

LEMMA PushLinkIInv ==
  ASSUME IInv, NEW q \in Producers, PushLink(q)
  PROVE  IInv'
<1> USE MailboxAssumption DEF IInv, TypeOK, PushLink, consumer
<1>0. PICK a, b, n : a = pprev[q] /\ b = msgOf(q) /\ n = Len(chain)
  OBVIOUS
<1>1. seq[q] \in 1..MaxSend /\ b = <<q, seq[q]>>
      /\ b \in Msg /\ b \in Node /\ b # Stub
  BY <1>0, NodeFacts DEF PushStarted, msgOf
<1>2. PICK j \in 1..(n - 1) : chain[j] = a /\ chain[j + 1] = b /\ next[a] = Null
  BY <1>0 DEF LinkersSound, Missing
<1>3. n \in Nat /\ n >= 1 /\ \A i \in 1..n : chain[i] \in Node
  BY <1>0 DEF ChainEnds
<1>4. a \in Node /\ next'[a] = b /\ \A x \in Node : x # a => next'[x] = next[x]
  BY <1>0, <1>2, <1>3
<1>5. \A i \in 1..n : i # j => chain[i] # a
  BY <1>0, <1>2, <1>3 DEF ChainDistinct
<1>6. \A p \in Producers : p # q => ppc'[p] = ppc[p] /\ msgOf(p)' = msgOf(p)
  BY DEF msgOf
<1>7. ppc'[q] = "add" /\ \A p \in Producers : pprev'[p] = pprev[p]
  OBVIOUS
<1>8. TypeOK'
  BY <1>0, <1>1, <1>4 DEF ProducerAt
<1>9. ChainEnds'
  <2>1. n # j /\ n \in 1..n /\ chain[n] = tail
    BY <1>0, <1>2, <1>3 DEF ChainEnds
  <2>2. tail # a /\ next'[tail] = next[tail]
    BY <2>1, <1>5, <1>4
  <2> QED
    BY <2>2 DEF ChainEnds
<1>10. ChainDistinct'
  BY DEF ChainDistinct
<1>11. ChainLinked'
  <2> SUFFICES ASSUME NEW i \in 1..(n - 1)
               PROVE  \/ next'[chain[i]] = chain[i + 1]
                      \/ /\ next'[chain[i]] = Null
                         /\ \/ \E p \in Producers : Links(p, chain[i], chain[i + 1])'
                            \/ LinksStub(chain[i], chain[i + 1])'
    BY <1>0 DEF ChainLinked
  <2>1. CASE i = j
    BY <2>1, <1>2, <1>4
  <2>2. CASE i # j
    <3>1. chain[i] # a /\ chain[i] \in Node
      BY <2>2, <1>3, <1>5
    <3>2. \A p \in Producers : Links(p, chain[i], chain[i + 1])
                                 => p # q /\ Links(p, chain[i], chain[i + 1])'
      BY <3>1, <1>0, <1>6, <1>7 DEF Links
    <3>3. LinksStub(chain[i], chain[i + 1]) => LinksStub(chain[i], chain[i + 1])'
      BY DEF LinksStub
    <3> QED
      BY <3>1, <3>2, <3>3, <1>0, <1>4 DEF ChainLinked
  <2> QED
    BY <2>1, <2>2
<1>12. LinkersSound'
  <2>1. ASSUME NEW x, NEW y, Missing(x, y), y # b
        PROVE  Missing(x, y)'
    <3>1. PICK i \in 1..(n - 1) : chain[i] = x /\ chain[i + 1] = y /\ next[x] = Null
      BY <2>1, <1>0 DEF Missing
    <3>2. i # j /\ i \in 1..n
      BY <3>1, <2>1, <1>2, <1>3
    <3>3. x # a /\ x \in Node
      BY <3>1, <3>2, <1>3, <1>5
    <3> QED
      BY <3>1, <3>3, <1>0, <1>4 DEF Missing
  <2>2. ASSUME NEW p \in Producers, ppc'[p] = "link"
        PROVE  Missing(pprev[p], msgOf(p))'
    <3>1. p # q /\ ppc[p] = "link"
      BY <2>2, <1>6, <1>7
    <3>2. PICK x, y : x = pprev[p] /\ y = msgOf(p)
      OBVIOUS
    <3>3. Missing(x, y) /\ y # b
      BY <3>1, <3>2, <1>0 DEF LinkersSound, msgOf
    <3>4. Missing(x, y)'
      BY <3>3, <2>1
    <3> QED
      BY <3>1, <3>2, <3>4, <1>6, <1>7 DEF Missing
  <2>3. ASSUME cpc = "link" PROVE Missing(cnext, Stub)'
    <3>1. PICK x : x = cnext
      OBVIOUS
    <3>2. Missing(x, Stub)
      BY <2>3, <3>1 DEF LinkersSound
    <3>3. Missing(x, Stub)'
      BY <3>2, <2>1, <1>1
    <3> QED
      BY <3>1, <3>3 DEF Missing
  <2> QED
    BY <2>2, <2>3 DEF LinkersSound
<1>13. Unpublished' /\ PushStarted'
  BY <1>6, <1>7 DEF Unpublished, PushStarted
<1>14. ConsumerSound'
  <2>1. cpc = "take" => next'[head] = next[head]
    BY <1>2, <1>4, NodeFacts DEF ConsumerSound
  <2> QED
    BY <2>1, <1>6, <1>7 DEF ConsumerSound
<1>15. Aligned' /\ FifoDelivery'
  BY DEF Aligned, FifoDelivery, Place, StubUpTo
<1> QED
  BY <1>8, <1>9, <1>10, <1>11, <1>12, <1>13, <1>14, <1>15

LEMMA PushAddIInv ==
  ASSUME IInv, NEW q \in Producers, PushAdd(q)
  PROVE  IInv'
<1> USE MailboxAssumption DEF IInv, TypeOK, PushAdd, consumer
<1>1. TypeOK'
  <2>1. count' \in 0..(CountMod - 1)
    <3>1. count + 1 \in Nat /\ CountMod > 0 /\ CountMod \in Nat
      OBVIOUS
    <3>2. count' = (count + 1) % CountMod
      OBVIOUS
    <3> HIDE DEF IInv, TypeOK, PushAdd
    <3> QED
      BY <3>1, <3>2, ModFacts
  <2> QED
    BY <2>1 DEF ProducerAt
<1>2. \A p \in Producers : /\ ppc'[p] = ppc[p] \/ p = q
                           /\ msgOf(p)' = msgOf(p) /\ pprev'[p] = pprev[p]
  BY DEF msgOf
<1>3. ppc[q] = "add" /\ ppc'[q] = "idle"
  OBVIOUS
<1>4. ChainEnds' /\ ChainDistinct'
  BY DEF ChainEnds, ChainDistinct
<1>5. \A p \in Producers : \A x, y : Links(p, x, y)' <=> Links(p, x, y)
  BY <1>2, <1>3 DEF Links
<1>6. ChainLinked'
  BY <1>5 DEF ChainLinked, LinksStub
<1>7. LinkersSound'
  <2>1. \A p \in Producers : ppc'[p] = "link" => Missing(pprev[p], msgOf(p))
    BY <1>2, <1>3 DEF LinkersSound
  <2>2. \A p \in Producers : Missing(pprev[p], msgOf(p)) => Missing(pprev[p], msgOf(p))'
    BY <1>2 DEF Missing
  <2>3. cpc' = "link" => Missing(cnext, Stub)'
    BY DEF LinkersSound, Missing
  <2> QED
    BY <2>1, <2>2, <2>3 DEF LinkersSound
<1>8. Unpublished' /\ PushStarted'
  BY <1>2, <1>3 DEF Unpublished, PushStarted
<1>9. ConsumerSound'
  BY <1>2, <1>3 DEF ConsumerSound
<1>10. Aligned' /\ FifoDelivery'
  BY DEF Aligned, FifoDelivery, Place, StubUpTo
<1> QED
  BY <1>1, <1>4, <1>6, <1>7, <1>8, <1>9, <1>10

-----------------------------------------------------------------------------
(* Steps of mailbox_pop *)

\* A step that only moves the owner's locals disturbs nothing but what
\* mailbox_pop knows.
LEMMA LocalStepIInv ==
  ASSUME IInv, TypeOK', ConsumerSound',
         UNCHANGED <<mailbox, producer, chead, chain, sent, received, freed>>,
         cpc \notin {"link", "freed"}, cpc' \notin {"link", "freed"}
  PROVE  IInv'
<1> USE DEF IInv, mailbox, producer
<1>1. ChainEnds' /\ ChainDistinct' /\ Unpublished' /\ PushStarted'
  BY DEF ChainEnds, ChainDistinct, Unpublished, PushStarted
<1>2. ChainLinked'
  BY DEF ChainLinked, Links, LinksStub, msgOf
<1>3. LinkersSound'
  BY DEF LinkersSound, Missing, msgOf
<1>4. Aligned' /\ FifoDelivery'
  BY DEF Aligned, FifoDelivery, Place, StubUpTo
<1> QED
  BY <1>1, <1>2, <1>3, <1>4

LEMMA PopLocalIInv ==
  ASSUME IInv, PopReload \/ PopTail \/ PopSpin \/ PopLast \/ PopNull
  PROVE  IInv'
<1> USE DEF IInv, mailbox, producer
<1>1. \/ chead = head /\ head \in Node /\ next[head] \in Node \cup {Null}
      \/ cpc = "null"
  BY DEF TypeOK, ConsumerSound, PopReload, PopTail, PopSpin, PopLast, PopNull
<1>2. TypeOK'
  BY <1>1 DEF TypeOK, PopReload, PopTail, PopSpin, PopLast, PopNull, ConsumerAt
<1>3. CASE PopTail
  <2>1. cpc' = "stub" => \A i \in 1..Len(chain) : chain[i] # Stub
    <3> SUFFICES ASSUME cpc' = "stub", NEW i \in 1..Len(chain)
                 PROVE  chain[i] # Stub
      OBVIOUS
    <3>1. Len(chain) \in Nat /\ Len(chain) >= 1 /\ chain[1] = chain[Len(chain)]
          /\ chain[1] # Stub
      BY <1>3 DEF PopTail, TypeOK, ChainEnds, ConsumerSound
    <3>2. Len(chain) = 1
      BY <3>1 DEF ChainDistinct
    <3> QED
      BY <3>1, <3>2
  <2>2. cpc' = "spin" => Len(chain) >= 2
    <3>1. Len(chain) \in Nat /\ Len(chain) >= 1 /\ chain[1] = head
          /\ chain[Len(chain)] = tail /\ chead = head
      BY <1>3 DEF PopTail, TypeOK, ChainEnds, ConsumerSound
    <3> QED
      BY <1>3, <3>1 DEF PopTail
  <2>3. ConsumerSound'
    BY <2>1, <2>2, <1>3 DEF PopTail, ConsumerSound
  <2> QED
    BY <2>3, <1>2, <1>3, LocalStepIInv DEF PopTail
<1>4. CASE PopReload \/ PopSpin \/ PopLast \/ PopNull
  <2>1. ConsumerSound'
    BY <1>4 DEF PopReload, PopSpin, PopLast, PopNull, ConsumerSound
  <2>2. cpc \notin {"link", "freed"} /\ cpc' \notin {"link", "freed"}
    BY <1>4 DEF PopReload, PopSpin, PopLast, PopNull
  <2> QED
    BY <2>1, <2>2, <1>2, <1>4, LocalStepIInv
       DEF PopReload, PopSpin, PopLast, PopNull
<1> QED
  BY <1>3, <1>4

\* Moving head to the next node keeps the list sound, whether the node left
\* behind is the stub or a message being returned.
LEMMA AdvanceFacts ==
  ASSUME IInv, cpc # "link", next[head] # Null,
         chain' = Tail(chain), head' = next[head], tail' = tail,
         next' \in [Node -> Node \cup {Null}],
         \A x \in Node : x # head => next'[x] = next[x],
         UNCHANGED producer, cpc' # "link"
  PROVE  /\ chain' \in Seq(Node) /\ Len(chain') = Len(chain) - 1
         /\ Len(chain) >= 2 /\ head' = chain[2]
         /\ \A i \in 1..Len(chain') : chain'[i] = chain[i + 1]
         /\ \A i \in 1..Len(chain') : chain'[i] # head
         /\ ChainEnds' /\ ChainDistinct' /\ ChainLinked' /\ LinkersSound'
         /\ Unpublished' /\ PushStarted'
<1> USE DEF IInv, producer
<1>0. PICK n, h : n = Len(chain) /\ h = head
  OBVIOUS
<1>1. n \in Nat /\ n >= 1 /\ chain \in Seq(Node) /\ chain[1] = h /\ h \in Node
      /\ \A i \in 1..n : chain[i] \in Node
  BY <1>0 DEF TypeOK, ChainEnds
<1>2. n >= 2
  BY <1>0, <1>1 DEF ChainEnds
<1>3. chain' \in Seq(Node) /\ Len(chain') = n - 1
      /\ \A i \in 1..(n - 1) : chain'[i] = chain[i + 1]
  BY <1>0, <1>1, TailFacts
<1>4. head' = chain[2]
  <2>1. 1 \in 1..(n - 1) /\ next[chain[1]] # Null
    BY <1>0, <1>1, <1>2
  <2> QED
    BY <2>1, <1>0, <1>1 DEF ChainLinked
<1>5. \A i \in 1..(n - 1) : i + 1 \in 1..n /\ chain'[i] \in Node /\ chain'[i] # h
  <2> SUFFICES ASSUME NEW i \in 1..(n - 1)
               PROVE  i + 1 \in 1..n /\ chain'[i] \in Node /\ chain'[i] # h
    OBVIOUS
  <2>1. i + 1 \in 1..n /\ 1 \in 1..n /\ i + 1 # 1 /\ chain'[i] = chain[i + 1]
    BY <1>1, <1>2, <1>3
  <2> QED
    BY <2>1, <1>0, <1>1 DEF ChainDistinct
<1>6. \A i \in 1..(n - 1) : next'[chain'[i]] = next[chain[i + 1]]
  BY <1>0, <1>3, <1>5
<1>7. ChainEnds'
  <2>1. 1 \in 1..(n - 1) /\ n - 1 \in 1..(n - 1) /\ (n - 1) + 1 = n /\ 1 + 1 = 2
    BY <1>1, <1>2
  <2>2. chain'[1] = head' /\ chain'[n - 1] = tail'
    BY <2>1, <1>0, <1>3, <1>4 DEF ChainEnds
  <2>3. next'[tail'] = Null
    BY <2>1, <2>2, <1>0, <1>6 DEF ChainEnds
  <2> QED
    BY <2>1, <2>2, <2>3, <1>3 DEF ChainEnds
<1>8. ChainDistinct'
  <2> SUFFICES ASSUME NEW i \in 1..(n - 1), NEW j \in 1..(n - 1),
                      chain'[i] = chain'[j]
               PROVE  i = j
    BY <1>3 DEF ChainDistinct
  <2>1. i + 1 \in 1..n /\ j + 1 \in 1..n /\ chain[i + 1] = chain[j + 1]
    BY <1>3, <1>5
  <2>2. i + 1 = j + 1
    BY <2>1, <1>0 DEF ChainDistinct
  <2> QED
    BY <2>2
<1>9. \A p \in Producers : \A x, y : Links(p, x, y)' <=> Links(p, x, y)
  BY DEF Links, msgOf
<1>10. ChainLinked'
  <2> SUFFICES ASSUME NEW i \in 1..(n - 2)
               PROVE  \/ next'[chain'[i]] = chain'[i + 1]
                      \/ /\ next'[chain'[i]] = Null
                         /\ \E p \in Producers : Links(p, chain[i], chain[i + 1])'
    <3>1. Len(chain') - 1 = n - 2
      BY <1>1, <1>3
    <3> QED
      BY <3>1 DEF ChainLinked
  <2>1. i \in 1..(n - 1) /\ i + 1 \in 1..(n - 1)
    BY <1>1
  <2>2. PICK x, y : x = chain[i + 1] /\ y = chain[(i + 1) + 1]
    OBVIOUS
  <2>3. chain'[i] = x /\ chain'[i + 1] = y /\ next'[x] = next[x]
    BY <2>1, <2>2, <1>3, <1>6
  <2>4. next[x] = y \/ (next[x] = Null /\ \E p \in Producers : Links(p, x, y))
    BY <2>1, <2>2, <1>0 DEF ChainLinked, LinksStub
  <2>5. (\E p \in Producers : Links(p, x, y)) =>
          \E p \in Producers : Links(p, chain[i], chain[i + 1])'
    BY <2>3, <1>9 DEF Links
  <2> QED
    BY <2>3, <2>4, <2>5
<1>11. LinkersSound'
  <2> SUFFICES ASSUME NEW p \in Producers, ppc[p] = "link"
               PROVE  Missing(pprev[p], msgOf(p))'
    BY DEF LinkersSound
  <2>1. PICK x, y : x = pprev[p] /\ y = msgOf(p)
    OBVIOUS
  <2>2. PICK i \in 1..(n - 1) : chain[i] = x /\ chain[i + 1] = y /\ next[x] = Null
    BY <2>1, <1>0 DEF LinkersSound, Missing
  <2>3. i # 1
    BY <2>2, <1>0, <1>1
  <2>4. i - 1 \in 1..(n - 2) /\ i - 1 \in 1..(n - 1) /\ (i - 1) + 1 = i /\ i \in 1..(n - 1)
    BY <2>3, <1>1
  <2>5. chain'[i - 1] = x /\ chain'[(i - 1) + 1] = y /\ next'[x] = Null
    BY <2>2, <2>4, <1>3, <1>6
  <2>6. Missing(x, y)'
    BY <2>4, <2>5, <1>3 DEF Missing
  <2> QED
    BY <2>1, <2>6 DEF Missing, msgOf
<1>12. Unpublished'
  BY <1>0, <1>3, <1>5 DEF Unpublished
<1>13. PushStarted'
  BY DEF PushStarted
<1> QED
  BY <1>0, <1>2, <1>3, <1>4, <1>5, <1>7, <1>8, <1>10, <1>11, <1>12, <1>13

LEMMA PopBeginIInv ==
  ASSUME IInv, PopBegin
  PROVE  IInv'
<1> USE MailboxAssumption DEF IInv, producer
<1>1. TypeOK' \/ (head = Stub /\ next[head] # Null)
  BY DEF PopBegin, TypeOK, ConsumerAt
<1>2. CASE head = Stub /\ next[head] # Null
  <2>1. PICK n : n = Len(chain)
    OBVIOUS
  <2>2. /\ head' = next[head] /\ chead' = next[head] /\ chain' = Tail(chain)
        /\ cpc' = "reload" /\ cpc = "idle" /\ UNCHANGED <<tail, next, count, producer, sent, received, freed>>
        /\ cnext' = next[head] /\ next[head] \in Node
    BY <1>2 DEF PopBegin, TypeOK
  <2>3. /\ chain' \in Seq(Node) /\ Len(chain') = n - 1
        /\ n >= 2 /\ head' = chain[2]
        /\ \A i \in 1..(n - 1) : chain'[i] = chain[i + 1] /\ chain'[i] # Stub
        /\ ChainEnds' /\ ChainDistinct' /\ ChainLinked' /\ LinkersSound'
        /\ Unpublished' /\ PushStarted'
    <3>1. next' \in [Node -> Node \cup {Null}] /\ \A x \in Node : next'[x] = next[x]
      BY <2>2 DEF TypeOK
    <3> QED
      BY <2>1, <2>2, <3>1, <1>2, AdvanceFacts
  <2>4. TypeOK'
    BY <2>2, <2>3 DEF TypeOK, ConsumerAt
  <2>5. n \in Nat /\ chain[1] = Stub /\ Len(received) \in Nat /\ Len(sent) \in Nat
    BY <2>1, <1>2 DEF TypeOK, ChainEnds
  <2>6. ConsumerSound'
    <3>1. head' # Stub
      BY <2>3, <2>5 DEF ChainEnds
    <3> QED
      BY <2>2, <3>1 DEF ConsumerSound
  <2>7. Aligned'
    <3>1. \A i \in 1..n : StubUpTo(i) /\ Place(i) = Len(received) + i - 1
      BY <2>5 DEF StubUpTo, Place
    <3>2. \A i \in 1..(n - 1) : ~StubUpTo(i)'
      BY <2>3, <2>5 DEF StubUpTo
    <3>3. \A i \in 1..(n - 1) : Place(i)' = Len(received) + i
      BY <2>2, <3>2 DEF Place
    <3>4. \A i \in 1..(n - 1) : i + 1 \in 1..n /\ Place(i)' = Place(i + 1)
      BY <2>5, <3>1, <3>3
    <3>5. n \in 1..n /\ n - 1 \in 1..(n - 1)
      BY <2>3, <2>5
    <3>6. Len(sent') = Place(n - 1)'
      BY <2>1, <2>2, <2>5, <3>1, <3>3, <3>5 DEF Aligned
    <3>7. \A i \in 1..(n - 1) : chain'[i] = sent'[Place(i)']
      <4>1. \A i \in 1..n : chain[i] # Stub => chain[i] = sent[Place(i)]
        BY <2>1, <2>2 DEF Aligned
      <4> HIDE DEF IInv
      <4>2. \A i \in 1..(n - 1) : chain'[i] = sent[Place(i + 1)]
        BY <4>1, <2>3, <3>4
      <4> QED
        BY <4>2, <2>2, <3>4
    <3> QED
      BY <2>3, <3>6, <3>7 DEF Aligned, Place, StubUpTo
  <2>8. FifoDelivery'
    BY <2>2 DEF FifoDelivery
  <2> QED
    BY <2>3, <2>4, <2>6, <2>7, <2>8
<1>3. CASE ~(head = Stub /\ next[head] # Null)
  <2>1. UNCHANGED <<head, tail, next, count, producer, chain, sent, received, freed>>
        /\ chead' = head /\ cnext' = next[head] /\ cpc = "idle"
        /\ cpc' = IF head = Stub THEN "null" ELSE IF next[head] # Null THEN "take" ELSE "tail"
    BY <1>3 DEF PopBegin
  <2>2. ConsumerSound'
    BY <2>1 DEF ConsumerSound
  <2>3. TypeOK'
    BY <1>1, <1>3
  <2>4. ChainEnds' /\ ChainDistinct' /\ Unpublished' /\ PushStarted'
    BY <2>1 DEF ChainEnds, ChainDistinct, Unpublished, PushStarted
  <2>5. ChainLinked'
    BY <2>1 DEF ChainLinked, Links, LinksStub, msgOf
  <2>6. LinkersSound'
    BY <2>1 DEF LinkersSound, Missing, msgOf
  <2>7. Aligned' /\ FifoDelivery'
    BY <2>1 DEF Aligned, FifoDelivery, Place, StubUpTo
  <2> QED
    BY <2>2, <2>3, <2>4, <2>5, <2>6, <2>7
<1> QED
  BY <1>2, <1>3

LEMMA PopTakeIInv ==
  ASSUME IInv, PopTake
  PROVE  IInv'
<1> USE MailboxAssumption DEF IInv
<1>1. PICK n, h, r : n = Len(chain) /\ h = head /\ r = Len(received)
  OBVIOUS
<1>2. /\ head' = next[head] /\ next[head] # Null /\ chead = head /\ head # Stub
      /\ chain' = Tail(chain) /\ cpc' = "idle" /\ cpc = "take"
      /\ next' = [next EXCEPT ![head] = Null] /\ head \in Node
      /\ received' = Append(received, head)
      /\ UNCHANGED <<tail, producer, chead, cnext, sent, freed>>
  BY DEF PopTake, ConsumerSound, TypeOK
<1>3. /\ chain' \in Seq(Node) /\ Len(chain') = n - 1
      /\ n >= 2 /\ head' = chain[2]
      /\ \A i \in 1..(n - 1) : chain'[i] = chain[i + 1]
      /\ ChainEnds' /\ ChainDistinct' /\ ChainLinked' /\ LinkersSound'
      /\ Unpublished' /\ PushStarted'
  <2>1. next' \in [Node -> Node \cup {Null}]
        /\ \A x \in Node : x # head => next'[x] = next[x]
    BY <1>2 DEF TypeOK
  <2> QED
    BY <1>1, <1>2, <2>1, AdvanceFacts
<1>4. /\ received' \in Seq(Node) /\ Len(received') = r + 1
      /\ \A i \in 1..r : received'[i] = received[i]
      /\ received'[r + 1] = h
  BY <1>1, <1>2, AppendFacts DEF TypeOK
<1>5. n \in Nat /\ r \in Nat /\ chain[1] = h /\ Len(sent) \in Nat
  BY <1>1 DEF TypeOK, ChainEnds
<1>6. TypeOK'
  <2>1. count' \in 0..(CountMod - 1)
    <3>1. count + CountMod - 1 \in Nat /\ CountMod > 0 /\ CountMod \in Nat
      BY DEF TypeOK
    <3>2. count' = (count + CountMod - 1) % CountMod
      BY DEF PopTake
    <3> HIDE DEF IInv
    <3> QED
      BY <3>1, <3>2, ModFacts
  <2> QED
    BY <1>2, <1>3, <1>4, <2>1 DEF TypeOK, ConsumerAt, producer
<1>7. ConsumerSound'
  BY <1>2 DEF ConsumerSound
<1>8. \A i \in 1..(n - 1) : StubUpTo(i)' <=> StubUpTo(i + 1)
  <2> SUFFICES ASSUME NEW i \in 1..(n - 1)
               PROVE  StubUpTo(i)' <=> StubUpTo(i + 1)
    OBVIOUS
  <2>1. ASSUME NEW j \in 1..i, chain'[j] = Stub PROVE StubUpTo(i + 1)
    <3>1. j + 1 \in 1..(i + 1) /\ chain[j + 1] = Stub
      BY <2>1, <1>3, <1>5
    <3> QED
      BY <3>1 DEF StubUpTo
  <2>2. ASSUME NEW j \in 1..(i + 1), chain[j] = Stub PROVE StubUpTo(i)'
    <3>1. j # 1 /\ j - 1 \in 1..i /\ (j - 1) + 1 = j
      BY <2>2, <1>1, <1>2, <1>5
    <3>2. chain'[j - 1] = Stub
      BY <3>1, <2>2, <1>3, <1>5
    <3> QED
      BY <3>1, <3>2 DEF StubUpTo
  <2> QED
    BY <2>1, <2>2 DEF StubUpTo
<1>9. \A i \in 1..(n - 1) : i + 1 \in 1..n /\ Place(i)' = Place(i + 1)
  BY <1>1, <1>4, <1>5, <1>8 DEF Place
<1>10. Place(1) = r + 1 /\ sent[r + 1] = h
  <2>1. ~StubUpTo(1)
    BY <1>1, <1>2, <1>5 DEF StubUpTo
  <2>2. Place(1) = r + 1 /\ 1 \in 1..n
    BY <2>1, <1>1, <1>3, <1>5 DEF Place
  <2> QED
    BY <2>2, <1>1, <1>2, <1>5 DEF Aligned
<1>11. Aligned'
  <2>1. n - 1 \in 1..(n - 1) /\ (n - 1) + 1 = n
    BY <1>3, <1>5
  <2>2. Len(sent') = Place(n - 1)'
    BY <2>1, <1>1, <1>2, <1>9 DEF Aligned
  <2>3. \A i \in 1..(n - 1) : chain'[i] # Stub => chain'[i] = sent'[Place(i)']
    BY <1>1, <1>2, <1>3, <1>9 DEF Aligned
  <2> QED
    BY <2>2, <2>3, <1>3 DEF Aligned, Place, StubUpTo
<1>12. FifoDelivery'
  <2>1. r + 1 <= Len(sent)
    <3>1. Len(sent) = Place(n)
      BY <1>1, <1>2 DEF Aligned
    <3> QED
      BY <3>1, <1>1, <1>3, <1>5 DEF Place
  <2> QED
    BY <2>1, <1>1, <1>2, <1>4, <1>5, <1>10 DEF FifoDelivery
<1> QED
  BY <1>3, <1>6, <1>7, <1>11, <1>12

LEMMA PopStubIInv ==
  ASSUME IInv, PopStub
  PROVE  IInv'
<1> USE MailboxAssumption DEF IInv
<1>1. PICK n, t : n = Len(chain) /\ t = tail
  OBVIOUS
<1>2. /\ next' = [next EXCEPT ![Stub] = Null] /\ cnext' = t /\ tail' = Stub
      /\ chain' = Append(chain, Stub) /\ cpc' = "link" /\ cpc = "stub"
      /\ UNCHANGED <<head, count, producer, chead, sent, received, freed>>
      /\ Stub \in Node /\ t \in Node
  BY <1>1 DEF PopStub, TypeOK, Node
<1>3. n \in Nat /\ n >= 1 /\ Len(received) \in Nat /\ chain[1] = head /\ chain[n] = t
      /\ next[t] = Null
  BY <1>1 DEF TypeOK, ChainEnds
<1>4. \A i \in 1..n : chain[i] \in Node /\ chain[i] # Stub
                      /\ next'[chain[i]] = next[chain[i]]
  BY <1>1, <1>2 DEF TypeOK, ConsumerSound
<1>5. /\ chain' \in Seq(Node) /\ Len(chain') = n + 1
      /\ \A i \in 1..n : chain'[i] = chain[i]
      /\ chain'[n + 1] = Stub
  BY <1>1, <1>2, AppendFacts DEF TypeOK
<1>6. TypeOK'
  BY <1>2, <1>5 DEF TypeOK, ConsumerAt, producer
<1>7. next'[Stub] = Null
  BY <1>2 DEF TypeOK
<1>8. ChainEnds'
  BY <1>2, <1>3, <1>5, <1>7 DEF ChainEnds
<1>9. \A k \in 1..(n + 1) : k \in 1..n \/ k = n + 1
  BY <1>3
<1>10. ChainDistinct'
  <2> SUFFICES ASSUME NEW i \in 1..(n + 1), NEW j \in 1..(n + 1),
                      chain'[i] = chain'[j]
               PROVE  i = j
    BY <1>5 DEF ChainDistinct
  <2>1. CASE i \in 1..n /\ j \in 1..n
    BY <2>1, <1>1, <1>5 DEF ChainDistinct
  <2>2. CASE i = n + 1 \/ j = n + 1
    BY <2>2, <1>4, <1>5, <1>9
  <2> QED
    BY <1>9, <2>1, <2>2
<1>11. ChainLinked'
  <2> SUFFICES ASSUME NEW i \in 1..n
               PROVE  \/ next'[chain'[i]] = chain'[i + 1]
                      \/ /\ next'[chain'[i]] = Null
                         /\ \/ \E p \in Producers : Links(p, chain[i], chain[i + 1])'
                            \/ LinksStub(chain[i], chain[i + 1])'
    BY <1>3, <1>5 DEF ChainLinked
  <2>1. CASE i = n
    <3>1. chain'[i] = t /\ chain'[i + 1] = Stub /\ next'[t] = Null
      BY <2>1, <1>3, <1>4, <1>5
    <3> QED
      BY <2>1, <3>1, <1>2 DEF LinksStub
  <2>2. CASE i \in 1..(n - 1)
    <3>1. i + 1 \in 1..n /\ chain'[i] = chain[i] /\ chain'[i + 1] = chain[i + 1]
          /\ next'[chain[i]] = next[chain[i]]
      BY <2>2, <1>3, <1>4, <1>5
    <3>2. \A p \in Producers : Links(p, chain[i], chain[i + 1])
                                 => Links(p, chain[i], chain[i + 1])'
      BY <3>1, <1>2 DEF Links, producer, msgOf
    <3>3. ~LinksStub(chain[i], chain[i + 1])
      BY <1>2 DEF LinksStub
    <3> QED
      BY <2>2, <3>1, <3>2, <3>3, <1>1 DEF ChainLinked
  <2> QED
    BY <2>1, <2>2, <1>3
<1>12. LinkersSound'
  <2>1. Missing(cnext, Stub)'
    <3>1. n \in 1..(Len(chain') - 1) /\ chain'[n] = t /\ next'[t] = Null
      BY <1>3, <1>4, <1>5
    <3> QED
      BY <3>1, <1>2, <1>5 DEF Missing
  <2>2. ASSUME NEW p \in Producers, ppc'[p] = "link"
        PROVE  Missing(pprev[p], msgOf(p))'
    <3>1. PICK x, y : x = pprev[p] /\ y = msgOf(p)
      OBVIOUS
    <3>2. PICK i \in 1..(n - 1) : chain[i] = x /\ chain[i + 1] = y /\ next[x] = Null
      BY <2>2, <3>1, <1>1, <1>2 DEF LinkersSound, Missing, producer
    <3>3. i \in 1..n /\ i + 1 \in 1..n /\ i \in 1..(Len(chain') - 1)
      BY <1>3, <1>5
    <3>4. Missing(x, y)'
      BY <3>2, <3>3, <1>4, <1>5 DEF Missing
    <3> QED
      BY <3>1, <3>4, <1>2 DEF Missing, producer, msgOf
  <2> QED
    BY <2>1, <2>2 DEF LinkersSound
<1>13. Unpublished'
  <2> SUFFICES ASSUME NEW p \in Producers, NEW i \in 1..(n + 1),
                      NEW k \in 1..MaxSend, chain'[i] = <<p, k>>
               PROVE  k <= seq[p] /\ (ppc[p] = "xchg" => k < seq[p])
    BY <1>2, <1>5 DEF Unpublished, producer
  <2>1. i \in 1..n
    BY <1>5, <1>9, NodeFacts
  <2> QED
    BY <2>1, <1>1, <1>5 DEF Unpublished
<1>14. PushStarted' /\ ConsumerSound'
  BY <1>2, <1>3, <1>5 DEF PushStarted, ConsumerSound, producer
<1>15. Aligned'
  <2>1. \A i \in 1..n : ~StubUpTo(i) /\ ~StubUpTo(i)'
    BY <1>3, <1>4, <1>5 DEF StubUpTo
  <2>2. StubUpTo(n + 1)'
    BY <1>3, <1>5 DEF StubUpTo
  <2>3. \A i \in 1..n : Place(i) = Len(received) + i /\ Place(i)' = Len(received) + i
    BY <2>1, <1>2 DEF Place
  <2>4. Place(n + 1)' = Len(received) + n
    BY <2>2, <1>2, <1>3 DEF Place
  <2>5. Len(sent') = Place(n + 1)'
    BY <2>3, <2>4, <1>1, <1>2, <1>3 DEF Aligned
  <2>6. \A i \in 1..n : chain'[i] = sent'[Place(i)']
    BY <2>3, <1>1, <1>2, <1>4, <1>5 DEF Aligned
  <2> QED
    BY <2>5, <2>6, <1>5, <1>9 DEF Aligned, Place, StubUpTo
<1>16. FifoDelivery'
  BY <1>2 DEF FifoDelivery
<1> QED
  BY <1>6, <1>8, <1>10, <1>11, <1>12, <1>13, <1>14, <1>15, <1>16

LEMMA PopLinkStubIInv ==
  ASSUME IInv, PopLinkStub
  PROVE  IInv'
<1> USE MailboxAssumption DEF IInv
<1>1. PICK a, n : a = cnext /\ n = Len(chain)
  OBVIOUS
<1>2. /\ next' = [next EXCEPT ![a] = Stub] /\ cpc' = "last" /\ cpc = "link"
      /\ UNCHANGED <<head, tail, count, producer, chead, cnext, chain, sent, received, freed>>
  BY <1>1 DEF PopLinkStub
<1>3. PICK j \in 1..(n - 1) : chain[j] = a /\ chain[j + 1] = Stub /\ next[a] = Null
  BY <1>1, <1>2 DEF LinkersSound, Missing
<1>4. n \in Nat /\ n >= 1 /\ \A i \in 1..n : chain[i] \in Node
  BY <1>1 DEF TypeOK, ChainEnds
<1>5. a \in Node /\ next'[a] = Stub /\ \A x \in Node : x # a => next'[x] = next[x]
  BY <1>2, <1>3, <1>4 DEF TypeOK
<1>6. \A i \in 1..n : i # j => chain[i] # a
  BY <1>1, <1>3, <1>4 DEF ChainDistinct
<1>7. TypeOK'
  BY <1>2, <1>5 DEF TypeOK, Node, ConsumerAt, producer
<1>8. ChainEnds'
  <2>1. n # j /\ n \in 1..n /\ chain[n] = tail
    BY <1>1, <1>3, <1>4 DEF ChainEnds
  <2>2. next'[tail] = next[tail]
    BY <2>1, <1>4, <1>5, <1>6
  <2> QED
    BY <2>2, <1>2 DEF ChainEnds
<1>9. ChainDistinct'
  BY <1>2 DEF ChainDistinct
<1>10. ChainLinked'
  <2> SUFFICES ASSUME NEW i \in 1..(n - 1)
               PROVE  \/ next'[chain[i]] = chain[i + 1]
                      \/ /\ next'[chain[i]] = Null
                         /\ \E p \in Producers : Links(p, chain[i], chain[i + 1])'
    BY <1>1, <1>2 DEF ChainLinked, Links
  <2>1. CASE i = j
    BY <2>1, <1>3, <1>5
  <2>2. CASE i # j
    <3>1. chain[i] # a /\ chain[i] \in Node
      BY <2>2, <1>4, <1>6
    <3>2. \A p \in Producers : Links(p, chain[i], chain[i + 1])
                                 => Links(p, chain[i], chain[i + 1])'
      BY <1>2 DEF Links, producer, msgOf
    <3>3. ~LinksStub(chain[i], chain[i + 1])
      BY <3>1, <1>1 DEF LinksStub
    <3> QED
      BY <3>1, <3>2, <3>3, <1>1, <1>5 DEF ChainLinked
  <2> QED
    BY <2>1, <2>2
<1>11. LinkersSound'
  <2> SUFFICES ASSUME NEW p \in Producers, ppc[p] = "link"
               PROVE  Missing(pprev[p], msgOf(p))'
    BY <1>2 DEF LinkersSound, producer
  <2>1. PICK x, y : x = pprev[p] /\ y = msgOf(p)
    OBVIOUS
  <2>2. PICK i \in 1..(n - 1) : chain[i] = x /\ chain[i + 1] = y /\ next[x] = Null
    BY <2>1, <1>1 DEF LinkersSound, Missing
  <2>3. y # Stub
    <3>1. seq[p] \in 1..MaxSend /\ y = <<p, seq[p]>>
      BY <2>1 DEF TypeOK, PushStarted, msgOf
    <3> QED
      BY <3>1, NodeFacts
  <2>4. i # j /\ i \in 1..n
    BY <2>2, <2>3, <1>3, <1>4
  <2>5. Missing(x, y)'
    BY <2>2, <2>4, <1>1, <1>2, <1>4, <1>5, <1>6 DEF Missing
  <2> QED
    BY <2>1, <2>5, <1>2 DEF Missing, producer, msgOf
<1>12. Unpublished' /\ PushStarted'
  BY <1>2 DEF Unpublished, PushStarted, producer
<1>13. ConsumerSound'
  BY <1>2 DEF ConsumerSound
<1>14. Aligned' /\ FifoDelivery'
  BY <1>2 DEF Aligned, FifoDelivery, Place, StubUpTo
<1> QED
  BY <1>7, <1>8, <1>9, <1>10, <1>11, <1>12, <1>13, <1>14

LEMMA MailboxFreeIInv ==
  ASSUME IInv, MailboxFree
  PROVE  IInv'
<1> USE MailboxAssumption DEF IInv
<1>1. /\ cpc' = "freed" /\ \A p \in Producers : ppc[p] = "idle"
      /\ next' = [next EXCEPT ![Stub] = Null]
      /\ head' = Stub /\ tail' = Stub /\ count' = 0 /\ chain' = <<Stub>>
      /\ UNCHANGED <<producer, chead, cnext, sent, received>>
  BY DEF MailboxFree
<1>2. freed' \in SUBSET Msg
  BY DEF MailboxFree
<1>3. Len(chain') = 1 /\ chain'[1] = Stub /\ chain' \in Seq(Node)
  BY <1>1 DEF Node
<1>4. TypeOK'
  BY <1>1, <1>2, <1>3 DEF TypeOK, Node, ConsumerAt, producer
<1>5. ChainEnds' /\ ChainDistinct' /\ ChainLinked'
  <2>1. next'[Stub] = Null
    BY <1>1 DEF TypeOK, Node
  <2>2. ChainEnds'
    BY <1>1, <1>3, <2>1 DEF ChainEnds
  <2>3. ChainDistinct'
    BY <1>3 DEF ChainDistinct
  <2>4. ChainLinked'
    BY <1>3 DEF ChainLinked
  <2> QED
    BY <2>2, <2>3, <2>4
<1>6. LinkersSound' /\ PushStarted' /\ ConsumerSound'
  BY <1>1 DEF LinkersSound, PushStarted, ConsumerSound, producer
<1>7. Unpublished'
  <2>1. \A i \in 1..Len(chain') : chain'[i] = Stub
    BY <1>3
  <2> QED
    BY <2>1, NodeFacts DEF Unpublished
<1>8. Aligned' /\ FifoDelivery'
  BY <1>1 DEF Aligned, FifoDelivery
<1> QED
  BY <1>4, <1>5, <1>6, <1>7, <1>8
-----------------------------------------------------------------------------
(* The theorems *)

\* Every step of Next, or a stuttering step, preserves the invariant.
LEMMA NextIInv == IInv /\ [Next]_vars => IInv'
<1> SUFFICES ASSUME IInv, [Next]_vars PROVE IInv'
  OBVIOUS
<1>1. ASSUME NEW p \in Producers, Push(p) PROVE IInv'
  BY <1>1, PushCheckIInv, PushExchangeIInv, PushLinkIInv, PushAddIInv DEF Push
<1>2. CASE Pop
  BY <1>2, PopBeginIInv, PopLocalIInv, PopStubIInv, PopLinkStubIInv,
     PopTakeIInv DEF Pop
<1>3. CASE MailboxFree
  BY <1>3, MailboxFreeIInv
<1>4. CASE UNCHANGED vars
  <2> USE <1>4 DEF vars, mailbox, producer, consumer, IInv
  <2>1. TypeOK' /\ ChainEnds' /\ ChainDistinct' /\ Unpublished' /\ PushStarted'
    BY DEF TypeOK, ChainEnds, ChainDistinct, Unpublished, PushStarted
  <2>2. ChainLinked'
    BY DEF ChainLinked, Links, LinksStub, msgOf
  <2>3. LinkersSound' /\ ConsumerSound'
    BY DEF LinkersSound, Missing, msgOf, ConsumerSound
  <2>4. Aligned' /\ FifoDelivery'
    BY DEF Aligned, FifoDelivery, Place, StubUpTo
  <2> QED
    BY <2>1, <2>2, <2>3, <2>4
<1> QED
  BY <1>1, <1>2, <1>3, <1>4 DEF Next

\* The invariant holds throughout.
THEOREM MailboxInvariant == Spec => []IInv
  BY InitIInv, NextIInv, PTL DEF Spec

\* The fields of struct Mailbox and the threads' locals keep their types.
THEOREM MailboxTypeCorrect == Spec => []TypeOK
<1>1. IInv => TypeOK
  BY DEF IInv
<1> QED
  BY <1>1, MailboxInvariant, PTL

\* mailbox_pop delivers in the order of the tail exchanges, losing and
\* repeating nothing, whatever the producers do.
THEOREM MailboxFifo == Spec => []FifoDelivery
<1>1. IInv => FifoDelivery
  BY DEF IInv
<1> QED
  BY <1>1, MailboxInvariant, PTL

\* mailbox_pop returns NULL only on an empty mailbox or when the link after
\* head is still to be stored by a producer.
THEOREM MailboxNull == Spec => NullOnlyMidPush
<1>1. ASSUME IInv, [Next]_vars, cpc # "null", cpc' = "null"
      PROVE  \/ Pending = 0
             \/ \E p \in Producers : ppc[p] = "link" /\ pprev[p] = chead'
  <2> USE DEF IInv
  <2>1. /\ cpc \in {"idle", "spin", "last"} /\ chead' = head /\ next[head] = Null
        /\ cpc = "idle" => head = Stub
        /\ cpc # "idle" => Len(chain) >= 2
    BY <1>1 DEF Next, Push, Pop, PushCheck, PushExchange, PushLink, PushAdd, PopBegin,
           PopReload, PopTail, PopSpin, PopStub, PopLinkStub, PopLast, PopTake,
           PopNull, MailboxFree, vars, consumer, ConsumerSound
  <2>2. Len(chain) \in Nat /\ Len(chain) >= 1 /\ chain[1] = head
        /\ Len(sent) \in Nat /\ Len(received) \in Nat
    BY <1>1 DEF TypeOK, ChainEnds
  <2>3. CASE Len(chain) = 1
    <3>1. Place(1) = Len(received)
      BY <2>1, <2>2, <2>3 DEF Place, StubUpTo
    <3> QED
      BY <1>1, <2>1, <2>2, <2>3, <3>1 DEF Aligned, Pending
  <2>4. CASE Len(chain) >= 2
    <3>1. 1 \in 1..(Len(chain) - 1) /\ 1 + 1 \in 1..Len(chain)
      BY <2>2, <2>4
    <3>2. chain[1 + 1] # Null
      BY <1>1, <3>1, NodeFacts DEF TypeOK
    <3>3. \E p \in Producers : Links(p, head, chain[1 + 1])
      BY <1>1, <2>1, <2>2, <3>1, <3>2 DEF ChainLinked, LinksStub
    <3> QED
      BY <2>1, <3>3 DEF Links
  <2>5. Len(chain) = 1 \/ Len(chain) >= 2
    BY <2>2
  <2> QED
    BY <2>3, <2>4, <2>5
<1>2. IInv /\ [Next]_vars =>
        [cpc # "null" /\ cpc' = "null" =>
           \/ Pending = 0
           \/ \E p \in Producers : ppc[p] = "link" /\ pprev[p] = chead']_vars
  BY <1>1
<1> QED
  BY <1>2, MailboxInvariant, PTL DEF Spec, NullOnlyMidPush
=============================================================================
