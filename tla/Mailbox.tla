------------------------------- MODULE Mailbox -------------------------------
(***************************************************************************)
(* The lock-free multiple-producer single-consumer queue that every block  *)
(* owns (src/runtime/mailbox.c): a linked list with an embedded stub node, *)
(* an atomic tail that producers exchange, a head that only the owner      *)
(* moves, and a separate atomic count.                                     *)
(*                                                                         *)
(* One step is one access to memory another thread may touch.  Accesses to *)
(* memory only one thread can reach at that moment (the head field, a node *)
(* before it is published or after it is unlinked) are folded into the     *)
(* neighbouring step.  The atomics are taken as sequentially consistent.   *)
(***************************************************************************)
EXTENDS Naturals, Sequences, FiniteSets

CONSTANTS Producers,  \* threads that call block_send on this mailbox
          MaxSend,    \* bound: pushes attempted per producer
          MaxSize,    \* limits.max_mailbox_size, 0 = no limit
          CountMod,   \* 2^w for the w-bit size_t count
          Stub, Null

ASSUME MailboxAssumption ==
  /\ IsFiniteSet(Producers)
  /\ MaxSend \in Nat /\ MaxSize \in Nat /\ CountMod \in Nat
  /\ MaxSize < CountMod
  /\ Stub \notin Producers \X Nat
  /\ Null \notin (Producers \X Nat) \cup {Stub}

Msg  == Producers \X (1..MaxSend)
Node == Msg \cup {Stub}

VARIABLES head, tail, next, count,      \* struct Mailbox
          ppc, pprev, seq,              \* a producer inside mailbox_push
          cpc, chead, cnext,            \* the owner inside mailbox_pop
          chain,     \* history: nodes from head to tail in exchange order
          sent,      \* history: messages in exchange order
          received,  \* history: messages mailbox_pop returned
          freed      \* history: messages mailbox_free released

mailbox  == <<head, tail, next, count>>
producer == <<ppc, pprev, seq>>
consumer == <<cpc, chead, cnext>>
vars == <<mailbox, producer, consumer, chain, sent, received, freed>>

ProducerAt == {"idle", "xchg", "link", "add"}
ConsumerAt == {"idle", "null", "reload", "tail", "spin", "stub", "link",
               "last", "take", "freed"}

Pending == Len(sent) - Len(received)
msgOf(p) == <<p, seq[p]>>
-----------------------------------------------------------------------------
Init ==
  /\ head = Stub /\ tail = Stub /\ count = 0
  /\ next = [n \in Node |-> Null]
  /\ ppc = [p \in Producers |-> "idle"]
  /\ pprev = [p \in Producers |-> Null]
  /\ seq = [p \in Producers |-> 0]
  /\ cpc = "idle" /\ chead = Stub /\ cnext = Null
  /\ chain = <<Stub>> /\ sent = <<>> /\ received = <<>> /\ freed = {}

(* mailbox_push *)

\* Mutant: the limit is compared with > instead of >=.
PushCheckOffByOne(p) ==
  /\ cpc # "freed"
  /\ ppc[p] = "idle" /\ seq[p] < MaxSend
  /\ seq' = [seq EXCEPT ![p] = @ + 1]
  /\ ppc' = [ppc EXCEPT ![p] =
               IF MaxSize > 0 /\ count > MaxSize THEN "idle" ELSE "xchg"]
  /\ UNCHANGED <<mailbox, pprev, consumer, chain, sent, received, freed>>

\* message_new and the limit test; a full mailbox refuses the message.
PushCheck(p) ==
  /\ cpc # "freed"
  /\ ppc[p] = "idle" /\ seq[p] < MaxSend
  /\ seq' = [seq EXCEPT ![p] = @ + 1]
  /\ ppc' = [ppc EXCEPT ![p] =
               IF MaxSize > 0 /\ count >= MaxSize THEN "idle" ELSE "xchg"]
  /\ UNCHANGED <<mailbox, pprev, consumer, chain, sent, received, freed>>

\* msg->next = NULL; prev = exchange(tail, msg)
PushExchange(p) ==
  /\ ppc[p] = "xchg"
  /\ next' = [next EXCEPT ![msgOf(p)] = Null]
  /\ pprev' = [pprev EXCEPT ![p] = tail]
  /\ tail' = msgOf(p)
  /\ chain' = Append(chain, msgOf(p))
  /\ sent' = Append(sent, msgOf(p))
  /\ ppc' = [ppc EXCEPT ![p] = "link"]
  /\ UNCHANGED <<head, count, seq, consumer, received, freed>>

\* Mutant: the store of prev->next is forgotten.
PushLinkForgotten(p) ==
  /\ ppc[p] = "link"
  /\ ppc' = [ppc EXCEPT ![p] = "add"]
  /\ UNCHANGED <<mailbox, pprev, seq, consumer, chain, sent, received, freed>>

\* prev->next = msg
PushLink(p) ==
  /\ ppc[p] = "link"
  /\ next' = [next EXCEPT ![pprev[p]] = msgOf(p)]
  /\ ppc' = [ppc EXCEPT ![p] = "add"]
  /\ UNCHANGED <<head, tail, count, pprev, seq, consumer, chain, sent,
                 received, freed>>

\* fetch_add(count, 1)
PushAdd(p) ==
  /\ ppc[p] = "add"
  /\ count' = (count + 1) % CountMod
  /\ ppc' = [ppc EXCEPT ![p] = "idle"]
  /\ UNCHANGED <<head, tail, next, pprev, seq, consumer, chain, sent,
                 received, freed>>
-----------------------------------------------------------------------------
(* mailbox_pop *)

\* Load head and head->next; step over the stub, or find nothing.
PopBegin ==
  /\ cpc = "idle"
  /\ cnext' = next[head]
  /\ IF head = Stub /\ next[head] # Null
       THEN /\ head' = next[head] /\ chead' = next[head]
            /\ chain' = Tail(chain)
            /\ cpc' = "reload"
       ELSE /\ chead' = head
            /\ cpc' = IF head = Stub THEN "null"
                      ELSE IF next[head] # Null THEN "take" ELSE "tail"
            /\ UNCHANGED <<head, chain>>
  /\ UNCHANGED <<tail, next, count, producer, sent, received, freed>>

\* next = head->next, and on to the branch on next != NULL
PopReload ==
  /\ cpc = "reload"
  /\ cnext' = next[chead]
  /\ cpc' = IF next[chead] # Null THEN "take" ELSE "tail"
  /\ UNCHANGED <<mailbox, producer, chead, chain, sent, received, freed>>

\* The load of tail that decides between waiting for a link and the stub.
PopTail ==
  /\ cpc = "tail"
  /\ cpc' = IF chead # tail THEN "spin" ELSE "stub"
  /\ UNCHANGED <<mailbox, producer, chead, cnext, chain, sent, received, freed>>

\* One turn of the bounded wait for the link; the last turn gives up.
PopSpin ==
  /\ cpc = "spin"
  /\ cnext' = next[chead]
  /\ \/ next[chead] # Null /\ cpc' = "take"
     \/ next[chead] = Null /\ cpc' \in {"spin", "null"}
  /\ UNCHANGED <<mailbox, producer, chead, chain, sent, received, freed>>

\* stub.next = NULL; prev_tail = exchange(tail, stub)
PopStub ==
  /\ cpc = "stub"
  /\ next' = [next EXCEPT ![Stub] = Null]
  /\ cnext' = tail            \* holds prev_tail until it is linked
  /\ tail' = Stub
  /\ chain' = Append(chain, Stub)
  /\ cpc' = "link"
  /\ UNCHANGED <<head, count, producer, chead, sent, received, freed>>

\* prev_tail->next = stub
PopLinkStub ==
  /\ cpc = "link"
  /\ next' = [next EXCEPT ![cnext] = Stub]
  /\ cpc' = "last"
  /\ UNCHANGED <<head, tail, count, producer, chead, cnext, chain, sent,
                 received, freed>>

\* Mutant: after putting the stub back, head->next is not looked at again.
PopLastSkipped ==
  /\ cpc = "last"
  /\ cpc' = "null"
  /\ UNCHANGED <<mailbox, producer, chead, cnext, chain, sent, received, freed>>

\* The last look at head->next.
PopLast ==
  /\ cpc = "last"
  /\ cnext' = next[chead]
  /\ cpc' = IF next[chead] # Null THEN "take" ELSE "null"
  /\ UNCHANGED <<mailbox, producer, chead, chain, sent, received, freed>>

\* Mutant: a signed count that goes below zero.
PopTakeSigned ==
  /\ cpc = "take"
  /\ head' = cnext
  /\ count' = count - 1
  /\ next' = [next EXCEPT ![chead] = Null]
  /\ chain' = Tail(chain)
  /\ received' = Append(received, chead)
  /\ cpc' = "idle"
  /\ UNCHANGED <<tail, producer, chead, cnext, sent, freed>>

\* Mutant: count is not decremented.
PopTakeUncounted ==
  /\ cpc = "take"
  /\ head' = cnext
  /\ next' = [next EXCEPT ![chead] = Null]
  /\ chain' = Tail(chain)
  /\ received' = Append(received, chead)
  /\ cpc' = "idle"
  /\ UNCHANGED <<tail, count, producer, chead, cnext, sent, freed>>

\* Mutant: the message is returned but head does not move past it.
PopTakeStays ==
  /\ cpc = "take"
  /\ count' = (count + CountMod - 1) % CountMod
  /\ received' = Append(received, chead)
  /\ cpc' = "idle"
  /\ UNCHANGED <<head, tail, next, producer, chead, cnext, chain, sent, freed>>

\* head = next; fetch_sub(count, 1); head->next = NULL; return head
PopTake ==
  /\ cpc = "take"
  /\ head' = cnext
  /\ count' = (count + CountMod - 1) % CountMod
  /\ next' = [next EXCEPT ![chead] = Null]
  /\ chain' = Tail(chain)
  /\ received' = Append(received, chead)
  /\ cpc' = "idle"
  /\ UNCHANGED <<tail, producer, chead, cnext, sent, freed>>

\* return NULL
PopNull ==
  /\ cpc = "null"
  /\ cpc' = "idle"
  /\ UNCHANGED <<mailbox, producer, chead, cnext, chain, sent, received, freed>>

\* Mutant: the walk starts after head even when head is a message.
MailboxFreeSkipsHead ==
  LET Walk[n \in Node \cup {Null}] ==
        IF n = Null THEN {} ELSE {n} \cup Walk[next[n]]
  IN /\ cpc = "idle" /\ \A p \in Producers : ppc[p] = "idle"
     /\ freed' = {m \in Msg : m \in Walk[next[head]]}
     /\ next' = [next EXCEPT ![Stub] = Null]
     /\ head' = Stub /\ tail' = Stub /\ count' = 0
     /\ chain' = <<Stub>>
     /\ cpc' = "freed"
     /\ UNCHANGED <<producer, chead, cnext, sent, received>>

\* mailbox_free: walk the list from head and release each message.  The
\* scheduler frees its blocks after it has joined every worker.
MailboxFree ==
  LET Walk[n \in Node \cup {Null}] ==
        IF n = Null THEN {} ELSE {n} \cup Walk[next[n]]
  IN /\ cpc = "idle" /\ \A p \in Producers : ppc[p] = "idle"
     /\ freed' = {m \in Msg : m \in Walk[head]}
     /\ next' = [next EXCEPT ![Stub] = Null]
     /\ head' = Stub /\ tail' = Stub /\ count' = 0
     /\ chain' = <<Stub>>
     /\ cpc' = "freed"
     /\ UNCHANGED <<producer, chead, cnext, sent, received>>
-----------------------------------------------------------------------------
Push(p) == PushCheck(p) \/ PushExchange(p) \/ PushLink(p) \/ PushAdd(p)

Pop == \/ PopBegin \/ PopReload \/ PopTail \/ PopSpin \/ PopStub
       \/ PopLinkStub \/ PopLast \/ PopTake \/ PopNull

Next == (\E p \in Producers : Push(p)) \/ Pop \/ MailboxFree

Spec == Init /\ [][Next]_vars

\* A thread inside mailbox_push runs on, and the owner keeps polling.
Fairness == /\ \A p \in Producers :
                 WF_vars(PushExchange(p) \/ PushLink(p) \/ PushAdd(p))
            /\ WF_vars(Pop)

FairSpec == Spec /\ Fairness
-----------------------------------------------------------------------------
TypeOK ==
  /\ head \in Node /\ tail \in Node
  /\ next \in [Node -> Node \cup {Null}]
  /\ count \in 0..(CountMod - 1)
  /\ ppc \in [Producers -> ProducerAt]
  /\ pprev \in [Producers -> Node \cup {Null}]
  /\ seq \in [Producers -> 0..MaxSend]
  /\ cpc \in ConsumerAt /\ chead \in Node /\ cnext \in Node \cup {Null}
  /\ chain \in Seq(Node) /\ sent \in Seq(Msg) /\ received \in Seq(Node)
  /\ freed \in SUBSET Msg

\* mailbox_pop hands messages out in the order of the tail exchanges: none is
\* lost, repeated, reordered, and the stub is never returned.
FifoDelivery ==
  /\ Len(received) <= Len(sent)
  /\ \A i \in 1..Len(received) : received[i] = sent[i]

\* The limit test in mailbox_push reads count without reserving a place, so
\* producers may overshoot max_mailbox_size, but by less than their number.
Overshoot ==
  MaxSize > 0 => Pending <= MaxSize + Cardinality(Producers) - 1

\* When no push or pop is in progress, count is the number of messages held:
\* the increments that trail their links have caught up.
CountSettles ==
  (cpc = "idle" /\ \A p \in Producers : ppc[p] = "idle") => count = Pending

\* mailbox_pop returns NULL only when no message is held, or while the very
\* producer that exchanged the tail after head has not yet linked its node.
NullOnlyMidPush ==
  [][cpc # "null" /\ cpc' = "null" =>
       \/ Pending = 0
       \/ \E p \in Producers : ppc[p] = "link" /\ pprev[p] = chead']_vars

\* mailbox_push refuses a message only when max_mailbox_size messages are held.
RefusedOnlyWhenFull ==
  [][\A p \in Producers :
       seq'[p] # seq[p] /\ ppc'[p] = "idle" => Pending >= MaxSize]_vars

\* mailbox_free releases exactly the messages accepted and never received.
FreeReleasesRest ==
  cpc = "freed" =>
    freed = {sent[i] : i \in (Len(received) + 1)..Len(sent)}

\* An accepted message is eventually received by an owner that keeps polling,
\* or released when the mailbox is freed.
AcceptedIsDone ==
  \A p \in Producers : \A k \in 1..MaxSend :
    (ppc[p] = "xchg" /\ seq[p] = k)
      ~> (\/ <<p, k>> \in freed
          \/ \E i \in 1..Len(received) : received[i] = <<p, k>>)

\* The mailbox implements a FIFO queue whose capacity is the limit plus the
\* overshoot; a message enters it at the tail exchange.
Queue == INSTANCE MessageQueue WITH
  Message <- Msg,
  Capacity <- IF MaxSize = 0 THEN 0 ELSE MaxSize + Cardinality(Producers) - 1,
  queue <- IF cpc = "freed" THEN <<>>
           ELSE SubSeq(sent, Len(received) + 1, Len(sent)),
  delivered <- received,
  closed <- cpc = "freed"

ImplementsQueue == Queue!Spec
=============================================================================
