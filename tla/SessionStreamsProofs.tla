------------------------ MODULE SessionStreamsProofs ------------------------
(***************************************************************************)
(* Proofs about the event stream of one session, for every window, queue   *)
(* size, order of events, and number of readers, losses and restarts.      *)
(*                                                                         *)
(* A replay that is called complete is complete: RegistryInv says that     *)
(* what may not be lost leaves the buffer from its front.                  *)
(*                                                                         *)
(* No reader misses an event, or takes it twice or out of order: ReaderInv *)
(* relates, for each client, what it has seen, what is in its queue of     *)
(* frames, and what it is owed.  Three facts are at its centre: frames are *)
(* in order (FramesInOrder), a terminal's frames come after what it has    *)
(* seen (TerminalOrder), and a snapshot on its way to a page covers all    *)
(* that is ahead of it and is followed by all that it does not cover       *)
(* (PageSnapshot).  A page that subscribes again without a snapshot adds a *)
(* fourth: what it held before, with the replay, leaves out only what the  *)
(* replay does not count as missing (PageCursor, PageGets).                *)
(***************************************************************************)
EXTENDS SessionStreams, FiniteSetTheorems, SequenceTheorems, TLAPS

\* What may not be lost leaves the buffer from its front only, because
\* _trim_session_events takes the oldest event when nothing may be lost.
FrontFirst ==
  \A n \in (1..seq) \ lossy : n \notin buf => \A m \in buf : n < m

RegistryInv ==
  /\ seq \in Nat
  /\ buf \subseteq 1..seq
  /\ FrontFirst

\* One trim keeps the buffer and removes from its front, or removes an event
\* that may be lost (_trim_session_events).
LEMMA TrimFrontFirst ==
  ASSUME NEW B, B \subseteq Nat, NEW L, NEW C \in Trimmed(B, L)
  PROVE  /\ C \subseteq B
         /\ \A n \in B \ C : n \in L \/ \A m \in C : n < m
<1>1. CASE C = B
  BY <1>1
<1>2. CASE C # B
  <2>1. PICK n \in (IF B \cap L # {} THEN B \cap L ELSE B) :
          /\ \A m \in (IF B \cap L # {} THEN B \cap L ELSE B) : n <= m
          /\ C = B \ {n}
    BY <1>2 DEF Trimmed
  <2>2. CASE B \cap L # {}
    BY <2>1, <2>2
  <2>3. CASE B \cap L = {}
    <3>1. \A m \in B : n <= m
      BY <2>1, <2>3
    <3>2. \A m \in C : m \in B /\ m # n
      BY <2>1
    <3>3. n \in Nat /\ \A m \in C : n < m
      BY <2>1, <2>3, <3>1, <3>2
    <3> QED BY <2>1, <3>3
  <2> QED BY <2>2, <2>3
<1> QED BY <1>1, <1>2

\* Recording one event keeps the registry in order (record).
LEMMA RecordKeeps ==
  ASSUME RegistryInv, NEW mayLose, Record(mayLose)
  PROVE  RegistryInv'
<1>1. seq \in Nat /\ seq' = seq + 1 /\ seq' \in Nat
  BY DEF RegistryInv, Record
<1> DEFINE B == buf \cup {seq + 1}
<1>2. buf \subseteq 1..seq /\ B \subseteq 1..seq' /\ B \subseteq Nat
  BY <1>1 DEF RegistryInv
<1>3. buf' \in Trimmed(B, lossy') /\ lossy \subseteq lossy'
  BY DEF Record
<1> HIDE DEF B
<1>4. /\ buf' \subseteq B
      /\ \A n \in B \ buf' : n \in lossy' \/ \A m \in buf' : n < m
  BY <1>2, <1>3, TrimFrontFirst
<1>5. FrontFirst'
  <2> SUFFICES ASSUME NEW n \in (1..seq') \ lossy', n \notin buf', NEW m \in buf'
               PROVE  n < m
    BY DEF FrontFirst
  <2>1. CASE n \in B
    BY <1>4, <2>1
  <2>2. CASE n \notin B
    <3>1. n \in (1..seq) \ lossy /\ n \notin buf
      BY <1>1, <1>3, <2>2 DEF B
    <3>2. \A k \in buf : n < k
      BY <3>1 DEF RegistryInv, FrontFirst
    <3>3. n < seq + 1
      BY <1>1, <3>1
    <3> QED BY <1>4, <3>2, <3>3 DEF B
  <2> QED BY <2>1, <2>2
<1> QED BY <1>1, <1>2, <1>4, <1>5 DEF RegistryInv

\* The inductive invariant of the registry (record, _trim_session_events).
THEOREM RegistryInvariant == Spec => []RegistryInv
<1>1. Init => RegistryInv
  BY DEF Init, RegistryInv, FrontFirst
<1>2. RegistryInv /\ [Next]_vars => RegistryInv'
  <2> SUFFICES ASSUME RegistryInv, [Next]_vars
               PROVE  RegistryInv'
    OBVIOUS
  <2>1. ASSUME UNCHANGED registry
        PROVE  RegistryInv'
    BY <2>1 DEF registry, RegistryInv, FrontFirst
  <2>2. CASE StreamStep
    <3>1. ASSUME NEW mayLose \in BOOLEAN, Emit(mayLose)
          PROVE  RegistryInv'
      BY <3>1, RecordKeeps DEF Emit
    <3>2. CASE EmitLate
      BY <3>2, RecordKeeps DEF EmitLate
    <3>3. ASSUME NEW n \in late, DeliverLate(n)
          PROVE  RegistryInv'
      BY <3>3 DEF DeliverLate, RegistryInv, FrontFirst
    <3> QED BY <2>2, <3>1, <3>2, <3>3 DEF StreamStep
  <2>3. ASSUME NEW p \in Pages, PageStep(p)
        PROVE  RegistryInv'
    BY <2>1, <2>3 DEF PageStep, Connect, SubscribePage, Snapshot
  <2>8. ASSUME NEW p \in Pages, UserStep(p) \/ HistoryEnds(p) \/ NoSocket(p)
        PROVE  RegistryInv'
    BY <2>1, <2>8 DEF UserStep, RetryLive, RetryHistory, HistoryEnds, NoSocket
  <2>4. ASSUME NEW u \in Terminals, TerminalStep(u)
        PROVE  RegistryInv'
    BY <2>1, <2>4 DEF TerminalStep, Bootstrap, SubscribeTerminal, Hydrated, HydrateFails
  <2>5. ASSUME NEW c \in Clients, Receive(c) \/ Lose(c)
        PROVE  RegistryInv'
    BY <2>1, <2>5 DEF Receive, Lose
  <2>6. CASE Restart
    BY <2>6 DEF Restart, RegistryInv, FrontFirst
  <2>7. CASE UNCHANGED vars
    BY <2>1, <2>7 DEF vars
  <2> QED BY <2>2, <2>3, <2>4, <2>5, <2>6, <2>7, <2>8 DEF Next
<1> QED BY <1>1, <1>2, PTL DEF Spec

\* A client whose cursor is called complete gets every event it has not seen
\* and that may not be lost (SessionStreamRegistry.replay), for every window.
THEOREM ReplayHonestAlways == Spec => []ReplayHonest
<1>1. RegistryInv => ReplayHonest
  <2> SUFFICES ASSUME RegistryInv, NEW since \in 0..seq, Complete(since),
                      NEW n \in ((since + 1)..seq) \ lossy
               PROVE  n \in buf
    BY DEF ReplayHonest
  <2>1. seq \in Nat /\ n \in (1..seq) \ lossy /\ since < n /\ since < seq
    BY DEF RegistryInv
  <2>2. PICK k \in buf : k <= since + 1
    BY <2>1 DEF Complete
  <2>3. k \in Nat /\ ~(n < k)
    BY <2>1, <2>2 DEF RegistryInv
  <2> QED BY <2>1, <2>3 DEF RegistryInv, FrontFirst
<1> QED BY <1>1, RegistryInvariant, PTL

----------------------------------------------------------------------------
(* Sorted sets and queues of frames *)

\* The numbers of a non-empty set have a least one.
LEMMA LeastNumber ==
  ASSUME NEW T, T \subseteq Nat, T # {}
  PROVE  \E x \in T : \A y \in T : x <= y
<1> DEFINE R == {ss \in Nat \X Nat : ss[1] < ss[2]}
<1>1. IsWellFoundedOn(R, Nat) BY NatLessThanWellFounded DEF OpToRel
<1>2. \E x \in T : \A y \in T : ~(<<y, x>> \in R) BY <1>1, WFMin
<1>3. \A x \in T : \A y \in T : <<y, x>> \notin R => x <= y OBVIOUS
<1> QED BY <1>2, <1>3

Sorts(s, S) ==
  /\ s \in [1..Cardinality(S) -> S]
  /\ \A i, j \in DOMAIN s : i < j => s[i] < s[j]

\* A finite set of numbers can be sorted: the least size without a sorted set
\* would be one more than a size with one.
LEMMA SortExists ==
  ASSUME NEW S, S \subseteq Nat, IsFiniteSet(S)
  PROVE  \E s : Sorts(s, S)
<1> DEFINE Bad == {n \in Nat : \E V \in SUBSET Nat :
                     IsFiniteSet(V) /\ Cardinality(V) = n /\ ~\E s : Sorts(s, V)}
<1>1. ASSUME Bad # {} PROVE FALSE
  <2>1. PICK n \in Bad : \A m \in Bad : n <= m BY <1>1, LeastNumber
  <2>2. PICK V \in SUBSET Nat : IsFiniteSet(V) /\ Cardinality(V) = n /\ ~\E s : Sorts(s, V)
    BY <2>1
  <2>3. n \in Nat BY <2>1
  <2>4. CASE n = 0
    <3>1. V = {} BY <2>2, <2>4, FS_EmptySet
    <3>2. Sorts([i \in 1..0 |-> 0], V) BY <2>2, <2>4, <3>1 DEF Sorts
    <3> QED BY <2>2, <3>2
  <2>5. CASE n # 0
    <3>1. V # {} BY <2>2, <2>5, FS_EmptySet
    <3>2. PICK x \in V : \A y \in V : x <= y BY <2>2, <3>1, LeastNumber
    <3> DEFINE W == V \ {x}
    <3>3. IsFiniteSet(W) /\ Cardinality(W) = n - 1 BY <2>2, FS_RemoveElement
    <3>4. n - 1 \in Nat /\ n - 1 < n BY <2>3, <2>5
    <3>5. n - 1 \notin Bad BY <2>1, <2>3, <3>4
    <3>6. PICK t : Sorts(t, W)
      <4>1. W \in SUBSET Nat BY <2>2
      <4> QED BY <3>3, <3>4, <3>5, <4>1
    <3>7. t \in [1..n - 1 -> W] /\ \A i, j \in 1..n - 1 : i < j => t[i] < t[j]
      BY <3>3, <3>6 DEF Sorts
    <3> DEFINE s == [i \in 1..n |-> IF i = 1 THEN x ELSE t[i - 1]]
    <3>8. s \in [1..n -> V]
      <4>1. ASSUME NEW i \in 1..n PROVE s[i] \in V
        <5>1. CASE i = 1 BY <5>1
        <5>2. CASE i # 1
          <6>1. i - 1 \in 1..n - 1 BY <2>3, <5>2
          <6> QED BY <3>7, <5>2, <6>1
        <5> QED BY <5>1, <5>2
      <4> QED BY <4>1
    <3>9. ASSUME NEW i \in 1..n, NEW j \in 1..n, i < j PROVE s[i] < s[j]
      <4>1. j - 1 \in 1..n - 1 /\ s[j] = t[j - 1] /\ t[j - 1] \in W BY <2>3, <3>7, <3>9
      <4>2. CASE i = 1
        <5>1. s[i] = x /\ x <= t[j - 1] /\ x # t[j - 1] /\ x \in Nat /\ t[j - 1] \in Nat
          BY <2>2, <3>2, <4>1, <4>2
        <5> QED BY <4>1, <5>1
      <4>3. CASE i # 1
        <5>1. i - 1 \in 1..n - 1 /\ s[i] = t[i - 1] /\ i - 1 < j - 1 BY <2>3, <3>9, <4>3
        <5> QED BY <3>7, <4>1, <5>1
      <4> QED BY <4>2, <4>3
    <3>10. Sorts(s, V)
      <4>1. DOMAIN s = 1..n OBVIOUS
      <4> HIDE DEF s
      <4> QED BY <2>2, <3>8, <3>9, <4>1 DEF Sorts
    <3> QED BY <2>2, <3>10
  <2> QED BY <2>4, <2>5
<1>2. Cardinality(S) \in Nat BY FS_CardinalityType
<1> QED BY <1>1, <1>2

\* The sorted sequence of a finite set holds all of it, in order.
LEMMA AscendingSet ==
  ASSUME NEW S, S \subseteq Nat, IsFiniteSet(S)
  PROVE  /\ Ascending(S) \in Seq(Nat) /\ ToSet(Ascending(S)) = S
         /\ DOMAIN Ascending(S) = 1..Cardinality(S) /\ Cardinality(S) \in Nat
         /\ \A i, j \in DOMAIN Ascending(S) : i < j => Ascending(S)[i] < Ascending(S)[j]
<1> DEFINE n == Cardinality(S)
           a == Ascending(S)
<1>1. n \in Nat BY FS_CardinalityType
<1>2. a \in [1..n -> S] /\ \A i, j \in DOMAIN a : i < j => a[i] < a[j]
  BY SortExists DEF Sorts, Ascending
<1> HIDE DEF a
<1>3. \A i, j \in 1..n : i # j => a[i] # a[j]
  <2> SUFFICES ASSUME NEW i \in 1..n, NEW j \in 1..n, i # j PROVE a[i] # a[j] OBVIOUS
  <2>1. a[i] \in Nat /\ a[j] \in Nat /\ DOMAIN a = 1..n BY <1>2
  <2>2. CASE i < j
    <3>1. a[i] < a[j] BY <1>2, <2>1, <2>2
    <3> QED BY <2>1, <3>1
  <2>3. CASE j < i
    <3>1. a[j] < a[i] BY <1>2, <2>1, <2>3
    <3> QED BY <2>1, <3>1
  <2> QED BY <1>1, <2>2, <2>3
<1>4. a \in Injection(1..n, S) BY <1>2, <1>3 DEF Injection, IsInjective
<1>5. Cardinality(1..n) = n BY <1>1, FS_Interval
<1>6. a \in Surjection(1..n, S) BY <1>4, <1>5, FS_Injection
<1>7. a \in Seq(S) /\ DOMAIN a = 1..n BY <1>1, <1>2
<1>8. ToSet(a) = S BY <1>6, <1>7 DEF Surjection, ToSet
<1>9. a \in Seq(Nat)
  <2>1. a \in [1..n -> Nat] BY <1>2
  <2> QED BY <1>1, <2>1
<1> QED BY <1>1, <1>2, <1>7, <1>8, <1>9 DEF a

Frame == [type : {"event", "ack", "snapshot"}, n : Nat, ok : BOOLEAN]

IsEvent(f) == f.type = "event"

Conn == [pc : {"off", "open", "closing"}, out : Seq(Frame)]

\* A replay is what follows the cursor, in order (replay).
LEMMA ReplayFrames ==
  ASSUME buf \subseteq 1..seq, seq \in Nat, NEW since \in Nat
  PROVE  /\ Replay(since) \in Seq(Frame)
         /\ \A i \in DOMAIN Replay(since) :
              IsEvent(Replay(since)[i]) /\ Replay(since)[i].n \in After(since)
         /\ \A i, j \in DOMAIN Replay(since) :
              i < j => Replay(since)[i].n < Replay(since)[j].n
         /\ \A n \in After(since) : \E i \in DOMAIN Replay(since) : Replay(since)[i].n = n
<1> DEFINE S == After(since)
           ns == Ascending(S)
<1>1. S \subseteq Nat /\ IsFiniteSet(S)
  <2>1. IsFiniteSet(1..seq) BY FS_Interval
  <2>2. S \in SUBSET (1..seq) BY DEF After
  <2> QED BY <2>1, <2>2, FS_Subset
<1>2. /\ ns \in Seq(Nat) /\ ToSet(ns) = S
      /\ DOMAIN ns = 1..Cardinality(S) /\ Cardinality(S) \in Nat
      /\ \A i, j \in DOMAIN ns : i < j => ns[i] < ns[j]
  BY <1>1, AscendingSet
<1>3. Replay(since) = [i \in DOMAIN ns |-> Event(ns[i])] BY DEF Replay
<1> HIDE DEF ns, S
<1>4. \A i \in DOMAIN ns : ns[i] \in Nat /\ ns[i] \in S BY <1>2 DEF ToSet
<1>5. \A n \in Nat : Event(n) \in Frame /\ IsEvent(Event(n)) /\ Event(n).n = n
  BY DEF Event, Frame, IsEvent
<1>6. Replay(since) \in Seq(Frame)
  <2>1. Replay(since) \in [1..Cardinality(S) -> Frame] BY <1>2, <1>3, <1>4, <1>5
  <2> QED BY <1>2, <2>1
<1>7. DOMAIN Replay(since) = DOMAIN ns /\ \A i \in DOMAIN ns : Replay(since)[i] = Event(ns[i])
  BY <1>3
<1>8. \A n \in S : \E i \in DOMAIN ns : ns[i] = n BY <1>2 DEF ToSet
<1> QED BY <1>2, <1>4, <1>5, <1>6, <1>7, <1>8 DEF S

\* A frame that fits goes to the end of the queue, and one that does not closes
\* the connection (_enqueue_frame).
LEMMA EnqueuedCases ==
  ASSUME NEW c, conn[c] \in Conn, Len(conn[c].out) <= QueueSize,
         conn[c].pc # "open" => conn[c].out = <<>>, NEW fs \in Seq(Frame)
  PROVE  /\ Enqueued(c, fs) \in Conn /\ Len(Enqueued(c, fs).out) <= QueueSize
         /\ \/ Enqueued(c, fs).pc # "open" /\ Enqueued(c, fs).out = <<>>
            \/ /\ conn[c].pc = "open" /\ Enqueued(c, fs).pc = "open"
               /\ Enqueued(c, fs).out = conn[c].out \o fs
<1>1. CASE conn[c].pc # "open" BY <1>1 DEF Enqueued, Conn
<1>2. CASE conn[c].pc = "open" /\ Len(conn[c].out) + Len(fs) > QueueSize
  <2>1. Enqueued(c, fs) = [pc |-> "closing", out |-> <<>>] BY <1>2 DEF Enqueued
  <2>2. QueueSize \in Nat BY ConstantsAssumption
  <2> QED BY <2>1, <2>2 DEF Conn
<1>3. CASE conn[c].pc = "open" /\ ~(Len(conn[c].out) + Len(fs) > QueueSize)
  <2>1. Enqueued(c, fs) = [conn[c] EXCEPT !.out = @ \o fs] BY <1>3 DEF Enqueued
  <2>2. conn[c].out \in Seq(Frame) BY DEF Conn
  <2>3. conn[c].out \o fs \in Seq(Frame) /\ Len(conn[c].out \o fs) = Len(conn[c].out) + Len(fs)
    BY <2>2, ConcatProperties
  <2>4. Enqueued(c, fs) = [pc |-> "open", out |-> conn[c].out \o fs]
    BY <1>3, <2>1 DEF Conn
  <2>5. Len(conn[c].out \o fs) <= QueueSize BY <1>3, <2>2, <2>3, ConstantsAssumption
  <2> QED BY <1>3, <2>3, <2>4, <2>5 DEF Conn
<1> QED BY <1>1, <1>2, <1>3

\* The positions of a queue that grew by one frame.
LEMMA OneMore ==
  ASSUME NEW q \in Seq(Frame), NEW f \in Frame
  PROVE  LET r == q \o <<f>>
         IN  /\ r \in Seq(Frame) /\ Len(q) \in Nat
             /\ DOMAIN q = 1..Len(q) /\ DOMAIN r = 1..Len(q) + 1
             /\ r[Len(q) + 1] = f /\ \A i \in DOMAIN q : r[i] = q[i]
OBVIOUS

\* The positions of a queue that lost its head.
LEMMA OneLess ==
  ASSUME NEW q \in Seq(Frame), q # <<>>
  PROVE  /\ Tail(q) \in Seq(Frame) /\ Head(q) \in Frame /\ Head(q) = q[1] /\ 1 \in DOMAIN q
         /\ Len(Tail(q)) \in Nat /\ Len(q) = Len(Tail(q)) + 1 /\ DOMAIN q = 1..Len(q)
         /\ DOMAIN Tail(q) = 1..Len(Tail(q))
         /\ \A i \in DOMAIN Tail(q) : Tail(q)[i] = q[i + 1] /\ i + 1 \in DOMAIN q /\ i + 1 > 1
         /\ \A j \in DOMAIN q : j = 1 \/ (j - 1 \in DOMAIN Tail(q) /\ Tail(q)[j - 1] = q[j])
<1>1. /\ Head(q) \in Frame /\ Tail(q) \in Seq(Frame) /\ Len(Tail(q)) = Len(q) - 1
      /\ \A i \in 1..Len(Tail(q)) : Tail(q)[i] = q[i + 1]
  BY HeadTailProperties
<1>2. Len(q) \in Nat \ {0} /\ Len(Tail(q)) \in Nat /\ DOMAIN q = 1..Len(q)
      /\ DOMAIN Tail(q) = 1..Len(Tail(q)) /\ Head(q) = q[1]
  BY <1>1
<1>3. ASSUME NEW i \in DOMAIN Tail(q)
      PROVE  Tail(q)[i] = q[i + 1] /\ i + 1 \in DOMAIN q /\ i + 1 > 1
  <2>1. i \in 1..Len(Tail(q)) /\ i \in Nat /\ i >= 1 /\ i <= Len(q) - 1 BY <1>1, <1>2
  <2> QED BY <1>1, <1>2, <2>1
<1>4. ASSUME NEW j \in DOMAIN q, j # 1
      PROVE  j - 1 \in DOMAIN Tail(q) /\ Tail(q)[j - 1] = q[j]
  <2>1. j - 1 \in 1..Len(Tail(q)) /\ j - 1 + 1 = j BY <1>1, <1>2, <1>4
  <2> QED BY <1>1, <1>2, <2>1
<1> QED BY <1>1, <1>2, <1>3, <1>4

----------------------------------------------------------------------------
(* Readers and their connections *)

Statuses == {"never", "off", "subscribe", "snapshot", "hydrate", "answered", "live"}
PageType == [gen : 0..MaxGen, last : 0..MaxSeq, acked : BOOLEAN, ack : 0..MaxSeq,
             base : 0..MaxSeq, from : 0..MaxSeq, gap : 0..MaxSeq, got : SUBSET Nat]
TermType == [cursor : Nat, pending : SUBSET Nat, queue : Seq(Nat), gap : BOOLEAN, from : Nat]

\* Attempts that are counted right: a live page begins anew, and the late pair
\* of attempts comes on top of those of the phase.
CountedRuns ==
  {r \in Runs : /\ r.phase = "ready" => r.tries = 0
                /\ r.tries <= r.attempts + (IF r.late THEN MaxAttempts ELSE 0)}

\* The numbers of the stream and the state of its readers.
StateInv ==
  /\ gen \in 1..MaxGen /\ seq \in 0..MaxSeq
  /\ lossy \subseteq 1..seq /\ late \subseteq async /\ async \subseteq 1..seq
  /\ Cardinality(buf) <= Window
  /\ subs \subseteq Clients
  /\ conn \in [Clients -> Conn] /\ st \in [Clients -> Statuses]
  /\ run \in [Pages -> CountedRuns]
  /\ page \in [Pages -> PageType] /\ term \in [Terminals -> TermType]
  /\ \A c \in Clients : Len(conn[c].out) <= QueueSize

\* Only a registered connection that is open has frames, and a client's request
\* registers it.
Registered(c) ==
  /\ c \notin subs \/ conn[c].pc # "open" => conn[c].out = <<>>
  /\ c \in subs <=> st[c] \in {"snapshot", "hydrate", "answered", "live"}

\* Frames speak of what has been recorded, each event after those before it,
\* unless it was recorded ahead of its delivery.
FramesInOrder(c) ==
  \A i \in DOMAIN conn[c].out :
    /\ conn[c].out[i].n <= seq
    /\ \A j \in DOMAIN conn[c].out :
         (i < j /\ IsEvent(conn[c].out[i]) /\ IsEvent(conn[c].out[j])) =>
           conn[c].out[j].n \in async \/ conn[c].out[i].n < conn[c].out[j].n

Seen(u) == ToSet(term[u].queue) \cup term[u].pending

\* What is on its way to a terminal comes after what the terminal has seen.
TerminalOrder(u) ==
  /\ term[u].cursor <= seq /\ term[u].from <= seq
  /\ \A n \in Seen(u) : n <= seq
  /\ st[u] # "snapshot" /\ (st[u] # "live" => term[u].queue = <<>>)
  /\ st[u] \in {"never", "off", "subscribe", "live"} => term[u].pending = {}
  /\ \A i \in DOMAIN conn[u].out :
       IsEvent(conn[u].out[i]) =>
         conn[u].out[i].n \in async \/ \A m \in Seen(u) : m < conn[u].out[i].n
  /\ \A i, j \in DOMAIN term[u].queue :
       i < j => \/ term[u].queue[i] < term[u].queue[j]
                \/ term[u].queue[i] > term[u].queue[j] /\ term[u].queue[j] \in async

\* What a subscribed terminal is owed.
Owed(u) == {n \in (term[u].cursor + 1)..seq : n > term[u].from \/ n \notin lossy}

TerminalGets(u) ==
  (st[u] \in {"hydrate", "answered", "live"} /\ conn[u].pc = "open" /\ ~term[u].gap) =>
    Owed(u) \subseteq Seen(u) \cup Queued(u) \cup late

\* What a page has and where it begins, in the stream that goes on.
Got(p)  == IF page[p].gen = gen THEN page[p].got ELSE {}
Base(p) == IF page[p].gen = gen THEN page[p].base ELSE 0
Cursor(p) == IF page[p].gen = gen THEN page[p].last ELSE 0

\* A page's cursor belongs to the stream that it names; what it has passed over
\* may be lost, or was recorded ahead, or the gateway said that it is missing.
PageCursor(p) ==
  /\ page[p].gen <= gen /\ page[p].ack <= seq
  /\ page[p].gen = 0 => page[p].last = 0 /\ page[p].base = 0 /\ page[p].got = {}
  /\ page[p].gen = gen =>
       /\ page[p].last <= seq
       /\ \A n \in (page[p].base + 1)..page[p].last :
            n \in async \cup page[p].got \cup lossy \/ n <= page[p].gap

\* What is on its way to a page comes after its cursor, and after the answer
\* that is ahead of it.
PageOrder(p) ==
  \A i \in DOMAIN conn[p].out :
    IsEvent(conn[p].out[i]) =>
      /\ conn[p].out[i].n \in async \/ conn[p].out[i].n > Cursor(p)
      /\ \A k \in DOMAIN conn[p].out :
           k < i /\ conn[p].out[k].type = "ack" =>
             conn[p].out[i].n \in async \/ conn[p].out[i].n > conn[p].out[k].n

\* An event a page will not get: the gateway said so, or it might be lost before
\* the page subscribed.
Passed(p, n) == n <= page[p].gap \/ (n \in lossy /\ n <= page[p].from)

\* A registered page has all other events, or they are on their way.
PageGets(p) ==
  (p \in subs /\ conn[p].pc = "open") =>
    \A n \in (Base(p) + 1)..seq : n \in async \cup Got(p) \cup Queued(p) \/ Passed(p, n)

\* A snapshot on its way is newer than what is ahead of it, and what it does not
\* cover is behind it.
PageSnapshot(p) ==
  \A k \in DOMAIN conn[p].out :
    conn[p].out[k].type = "snapshot" =>
      /\ st[p] \in {"answered", "live"} /\ page[p].ack <= conn[p].out[k].n
      /\ page[p].gen = gen => page[p].last <= conn[p].out[k].n
      /\ \A i \in DOMAIN conn[p].out :
           /\ i < k => conn[p].out[i].n <= conn[p].out[k].n /\ conn[p].out[i].type # "snapshot"
           /\ i > k => /\ IsEvent(conn[p].out[i])
                       /\ conn[p].out[i].n \in async \/ conn[p].out[i].n > conn[p].out[k].n
      /\ \A n \in (conn[p].out[k].n + 1)..seq : n \notin async =>
           \E i \in DOMAIN conn[p].out :
             i > k /\ IsEvent(conn[p].out[i]) /\ conn[p].out[i].n = n

\* A live page knows its stream.
PageLive(p) == (st[p] = "live" /\ conn[p].pc = "open") => page[p].gen = gen

PageInv(p) == PageCursor(p) /\ PageOrder(p) /\ PageGets(p) /\ PageSnapshot(p) /\ PageLive(p)

ClientInv(c) ==
  /\ Registered(c) /\ FramesInOrder(c)
  /\ c \in Terminals => TerminalOrder(c) /\ TerminalGets(c)
  /\ c \in Pages => PageInv(c)

ReaderInv == StateInv /\ \A c \in Clients : ClientInv(c)

LEMMA FrameNumbers ==
  ASSUME StateInv, NEW c \in Clients
  PROVE  /\ conn[c].out \in Seq(Frame) /\ DOMAIN conn[c].out = 1..Len(conn[c].out)
         /\ \A i \in DOMAIN conn[c].out :
              conn[c].out[i] \in Frame /\ conn[c].out[i].n \in Nat /\ i \in Nat
<1>1. conn[c].out \in Seq(Frame) BY DEF StateInv, Conn
<1>2. \A i \in DOMAIN conn[c].out : conn[c].out[i] \in Frame /\ i \in Nat BY <1>1
<1> QED BY <1>1, <1>2 DEF Frame

\* A client that a step does not concern.
LEMMA Untouched ==
  ASSUME NEW c \in Clients, ClientInv(c), UNCHANGED registry,
         conn'[c] = conn[c], st'[c] = st[c], c \in subs' <=> c \in subs,
         c \in Pages => page'[c] = page[c], c \in Terminals => term'[c] = term[c]
  PROVE  ClientInv(c)'
<1> USE DEF registry
<1>1. Registered(c)' /\ FramesInOrder(c)' BY DEF ClientInv, Registered, FramesInOrder
<1>2. ASSUME c \in Terminals PROVE TerminalOrder(c)' /\ TerminalGets(c)'
  <2>1. TerminalOrder(c) /\ TerminalGets(c) /\ term'[c] = term[c] BY <1>2 DEF ClientInv
  <2>2. Seen(c)' = Seen(c) /\ Queued(c)' = Queued(c) /\ Owed(c)' = Owed(c)
    BY <2>1 DEF Seen, Queued, Owed
  <2> QED BY <2>1, <2>2 DEF TerminalOrder, TerminalGets
<1>3. ASSUME c \in Pages PROVE PageInv(c)'
  <2>1. PageInv(c) /\ page'[c] = page[c] BY <1>3 DEF ClientInv
  <2>2. Queued(c)' = Queued(c) BY DEF Queued
  <2>3. Got(c)' = Got(c) /\ Base(c)' = Base(c) /\ Cursor(c)' = Cursor(c)
    BY <2>1 DEF Got, Base, Cursor
  <2>4. PageCursor(c)' /\ PageOrder(c)' BY <2>1, <2>3 DEF PageInv, PageCursor, PageOrder
  <2>5. PageGets(c)' BY <2>1, <2>2, <2>3 DEF PageInv, PageGets, Passed
  <2>6. PageSnapshot(c)' /\ PageLive(c)' BY <2>1 DEF PageInv, PageSnapshot, PageLive
  <2> QED BY <2>4, <2>5, <2>6 DEF PageInv
<1> QED BY <1>1, <1>2, <1>3 DEF ClientInv

\* The stream goes on: nothing is forgotten of what was recorded ahead.
StreamMoves ==
  /\ gen' = gen /\ seq' \in {seq, seq + 1}
  /\ async \subseteq async' /\ lossy \subseteq lossy'

\* A client that has nothing queued, and is gone or has not asked yet.
LEMMA QuietStays ==
  ASSUME StateInv, NEW c \in Clients, ClientInv(c), StreamMoves,
         conn'[c].out = <<>>, c \in subs' <=> c \in subs,
         conn'[c].pc # "open" \/ st[c] \notin {"snapshot", "hydrate", "answered", "live"},
         st'[c] = st[c],
         c \in Pages => page'[c] = page[c], c \in Terminals => term'[c] = term[c]
  PROVE  ClientInv(c)'
<1>1. seq \in Nat /\ seq' \in Nat /\ seq <= seq' BY DEF StateInv, StreamMoves
<1>2. Registered(c)' /\ FramesInOrder(c)' BY DEF ClientInv, Registered, FramesInOrder
<1>3. ASSUME c \in Terminals PROVE TerminalOrder(c)' /\ TerminalGets(c)'
  <2>1. TerminalOrder(c) /\ term'[c] = term[c] BY <1>3 DEF ClientInv
  <2>2. Seen(c)' = Seen(c) /\ Seen(c) \subseteq Nat
        /\ term[c].cursor \in Nat /\ term[c].from \in Nat
    BY <1>3, <2>1 DEF Seen, StateInv, TermType, ToSet
  <2>3. TerminalOrder(c)' BY <1>1, <2>1, <2>2 DEF TerminalOrder, StreamMoves
  <2> QED BY <2>3 DEF TerminalGets
<1>4. ASSUME c \in Pages PROVE PageInv(c)'
  <2>1. PageCursor(c) /\ page'[c] = page[c] /\ page[c] \in PageType /\ gen' = gen
    BY <1>4 DEF ClientInv, PageInv, StateInv, StreamMoves
  <2>2. page[c].ack \in Nat /\ page[c].last \in Nat BY <2>1 DEF PageType
  <2>3. PageCursor(c)' BY <1>1, <2>1, <2>2 DEF PageCursor, StreamMoves
  <2>4. PageGets(c)' BY DEF ClientInv, Registered, PageGets
  <2>5. PageLive(c)' BY DEF PageLive
  <2> QED BY <2>3, <2>4, <2>5 DEF PageInv, PageOrder, PageSnapshot
<1> QED BY <1>2, <1>3, <1>4 DEF ClientInv

\* An event is queued for a client: one just recorded, or one recorded ahead.
LEMMA EventQueued ==
  ASSUME StateInv, NEW c \in Clients, ClientInv(c), StreamMoves, NEW n \in Nat,
         \/ n = seq + 1 /\ seq' = seq + 1
         \/ n \in async /\ seq' = seq,
         \A m \in late : m \in late' \/ m = n,
         conn'[c].out = conn[c].out \o <<Event(n)>>,
         conn[c].pc = "open", conn'[c].pc = "open", c \in subs, c \in subs',
         st'[c] = st[c],
         c \in Pages => page'[c] = page[c], c \in Terminals => term'[c] = term[c]
  PROVE  ClientInv(c)'
<1> DEFINE q == conn[c].out
           r == conn'[c].out
           l == Len(q) + 1
<1>1. /\ r \in Seq(Frame) /\ Len(q) \in Nat /\ l \in Nat
      /\ DOMAIN q = 1..Len(q) /\ DOMAIN r = 1..l /\ l \in DOMAIN r
      /\ r[l] = Event(n) /\ \A i \in DOMAIN q : r[i] = q[i] /\ i \in DOMAIN r /\ i < l
      /\ \A i \in DOMAIN r : i \in DOMAIN q \/ i = l
  <2>1. q \in Seq(Frame) BY DEF StateInv, Conn
  <2>2. Event(n) \in Frame BY DEF Event, Frame
  <2>3. /\ r \in Seq(Frame) /\ Len(q) \in Nat
        /\ DOMAIN q = 1..Len(q) /\ DOMAIN r = 1..l
        /\ r[l] = Event(n) /\ \A i \in DOMAIN q : r[i] = q[i]
    BY <2>1, <2>2, OneMore
  <2> HIDE DEF q, r
  <2> QED BY <2>3
<1>2. /\ seq \in Nat /\ seq' \in Nat /\ seq <= seq' /\ n <= seq'
      /\ async \subseteq async'
      /\ n \in async' \/ n = seq + 1
  <2>1. async \subseteq 1..seq /\ seq \in Nat BY DEF StateInv
  <2> QED BY <2>1 DEF StreamMoves
<1>3. Event(n).n = n /\ IsEvent(Event(n)) BY DEF Event, IsEvent
<1>4. \A i \in DOMAIN q : q[i].n \in Nat /\ q[i].n <= seq
  <2>1. q \in Seq(Frame) BY DEF StateInv, Conn
  <2>2. \A i \in DOMAIN q : q[i] \in Frame BY <2>1
  <2> QED BY <2>2 DEF ClientInv, FramesInOrder, Frame
<1>5. Queued(c)' = Queued(c) \cup {n}
  <2> HIDE DEF q, r, l
  <2>1. /\ Queued(c) = {q[i].n : i \in {j \in DOMAIN q : q[j].type = "event"}}
        /\ Queued(c)' = {r[i].n : i \in {j \in DOMAIN r : r[j].type = "event"}}
    BY DEF Queued, q, r
  <2> QED BY <1>1, <1>3, <2>1 DEF IsEvent
<1>6. Registered(c)' BY DEF ClientInv, Registered
<1>7. FramesInOrder(c)'
  <2> SUFFICES ASSUME NEW i \in DOMAIN r
               PROVE  /\ r[i].n <= seq'
                      /\ \A j \in DOMAIN r :
                           (i < j /\ IsEvent(r[i]) /\ IsEvent(r[j])) =>
                             r[j].n \in async' \/ r[i].n < r[j].n
    BY DEF FramesInOrder
  <2> HIDE DEF q, r, l
  <2>1. CASE i \in DOMAIN q
    <3>1. r[i] = q[i] /\ q[i].n \in Nat /\ q[i].n <= seq BY <1>1, <1>4, <2>1
    <3>2. ASSUME NEW j \in DOMAIN q, i < j, IsEvent(q[i]), IsEvent(q[j])
          PROVE  q[j].n \in async' \/ q[i].n < q[j].n
      BY <1>2, <2>1, <3>2 DEF ClientInv, FramesInOrder, q
    <3>3. r[l].n \in async' \/ q[i].n < r[l].n BY <1>1, <1>2, <1>3, <3>1
    <3>4. r[i].n <= seq' BY <1>2, <3>1
    <3>5. ASSUME NEW j \in DOMAIN r, i < j, IsEvent(r[i]), IsEvent(r[j])
          PROVE  r[j].n \in async' \/ r[i].n < r[j].n
      <4>1. CASE j \in DOMAIN q BY <1>1, <2>1, <3>2, <3>5, <4>1
      <4>2. CASE j = l BY <3>1, <3>3, <4>2
      <4> QED BY <1>1, <4>1, <4>2
    <3> QED BY <3>4, <3>5
  <2>2. CASE i = l
    <3>1. \A j \in DOMAIN r : ~(i < j) BY <1>1, <2>2
    <3> QED BY <1>1, <1>2, <1>3, <2>2, <3>1
  <2> QED BY <1>1, <2>1, <2>2
<1>8. ASSUME c \in Terminals PROVE TerminalOrder(c)' /\ TerminalGets(c)'
  <2>1. TerminalOrder(c) /\ TerminalGets(c) /\ term'[c] = term[c] /\ Seen(c)' = Seen(c)
    BY <1>8 DEF ClientInv, Seen
  <2>2. Seen(c) \subseteq Nat /\ term[c].cursor \in Nat /\ term[c].from \in Nat
    <3>1. /\ term[c].queue \in Seq(Nat) /\ term[c].pending \subseteq Nat
          /\ term[c].cursor \in Nat /\ term[c].from \in Nat
      BY <1>8 DEF StateInv, TermType
    <3> QED BY <3>1 DEF Seen, ToSet
  <2>3. \A m \in Seen(c) : m <= seq BY <2>1 DEF TerminalOrder
  <2>4. ASSUME NEW i \in DOMAIN r, IsEvent(r[i])
        PROVE  r[i].n \in async' \/ \A m \in Seen(c) : m < r[i].n
    <3> HIDE DEF r, l
    <3>1. CASE i \in DOMAIN q
      BY <1>1, <1>2, <2>1, <2>4, <3>1 DEF TerminalOrder
    <3>2. CASE i = l BY <1>1, <1>2, <1>3, <2>2, <2>3, <3>2
    <3> QED BY <1>1, <3>1, <3>2
  <2>5. TerminalOrder(c)'
    <3>1. term[c].cursor <= seq' /\ term[c].from <= seq' /\ \A m \in Seen(c) : m <= seq'
      BY <1>2, <2>1, <2>2, <2>3 DEF TerminalOrder
    <3>2. /\ st[c] # "snapshot" /\ (st[c] # "live" => term[c].queue = <<>>)
          /\ st[c] \in {"never", "off", "subscribe", "live"} => term[c].pending = {}
      BY <2>1 DEF TerminalOrder
    <3>3. \A i, j \in DOMAIN term[c].queue :
            i < j => \/ term[c].queue[i] < term[c].queue[j]
                     \/ term[c].queue[i] > term[c].queue[j] /\ term[c].queue[j] \in async'
      BY <1>2, <2>1 DEF TerminalOrder
    <3> HIDE DEF q, l
    <3> QED BY <2>1, <2>4, <3>1, <3>2, <3>3 DEF TerminalOrder
  <2>6. TerminalGets(c)'
    <3> SUFFICES ASSUME st[c] \in {"hydrate", "answered", "live"}, ~term[c].gap,
                        NEW m \in Owed(c)'
                 PROVE  m \in Seen(c) \cup Queued(c) \cup {n} \cup late'
      BY <1>5, <2>1 DEF TerminalGets
    <3>1. /\ m \in (term[c].cursor + 1)..seq' /\ m \in Nat
          /\ m > term[c].from \/ m \notin lossy'
      BY <1>2, <2>1, <2>2 DEF Owed
    <3>2. CASE m <= seq
      <4>1. m \in 1..seq /\ (m \notin lossy' => m \notin lossy)
        <5>1. m \in 1..seq BY <1>2, <2>2, <3>1, <3>2
        <5> QED BY <5>1 DEF StreamMoves
      <4>2. m \in Owed(c) BY <1>2, <2>2, <3>1, <3>2, <4>1 DEF Owed
      <4> QED BY <2>1, <4>2 DEF TerminalGets
    <3>3. CASE ~(m <= seq)
      <4>1. m = n BY <1>2, <3>1, <3>3
      <4> QED BY <4>1
    <3> QED BY <3>2, <3>3
  <2> QED BY <2>5, <2>6
<1>9. ASSUME c \in Pages PROVE PageInv(c)'
  <2>1. /\ PageCursor(c) /\ PageOrder(c) /\ PageGets(c) /\ PageSnapshot(c) /\ PageLive(c)
        /\ page'[c] = page[c] /\ page[c] \in PageType
    BY <1>9 DEF ClientInv, PageInv, StateInv
  <2>0. /\ page[c].ack \in Nat /\ page[c].last \in Nat /\ page[c].base \in Nat
        /\ gen' = gen /\ lossy \subseteq lossy'
    BY <2>1 DEF PageType, StreamMoves
  <2>2. PageCursor(c)' BY <1>2, <2>0, <2>1 DEF PageCursor
  <2>3. PageOrder(c)'
    <3> SUFFICES ASSUME NEW i \in DOMAIN r, IsEvent(r[i])
                 PROVE  /\ r[i].n \in async' \/ r[i].n > Cursor(c)
                        /\ \A k \in DOMAIN r : k < i /\ r[k].type = "ack" =>
                             r[i].n \in async' \/ r[i].n > r[k].n
      <4>1. Cursor(c)' = Cursor(c) BY <2>0, <2>1 DEF Cursor
      <4> QED BY <4>1 DEF PageOrder
    <3>1. \A j \in DOMAIN q : IsEvent(q[j]) =>
            /\ q[j].n \in async \/ q[j].n > Cursor(c)
            /\ \A k \in DOMAIN q : k < j /\ q[k].type = "ack" =>
                 q[j].n \in async \/ q[j].n > q[k].n
      BY <2>1 DEF PageOrder, q
    <3> HIDE DEF q, r, l
    <3>2. CASE i \in DOMAIN q
      <4>1. \A k \in DOMAIN r : k < i => k \in DOMAIN q /\ r[k] = q[k] BY <1>1, <3>2
      <4> QED BY <1>1, <1>2, <3>1, <3>2, <4>1
    <3>3. CASE i = l
      <4>1. \A k \in DOMAIN r : k < i => k \in DOMAIN q /\ r[k] = q[k] BY <1>1, <3>3
      <4>2. Cursor(c) \in Nat /\ Cursor(c) <= seq BY <1>2, <2>0, <2>1 DEF PageCursor, Cursor
      <4> QED BY <1>1, <1>2, <1>3, <1>4, <2>0, <3>3, <4>1, <4>2
    <3> QED BY <1>1, <3>2, <3>3
  <2>4. PageSnapshot(c)'
    <3> SUFFICES ASSUME NEW k \in DOMAIN r, r[k].type = "snapshot"
                 PROVE  /\ st[c] \in {"answered", "live"} /\ page[c].ack <= r[k].n
                        /\ page[c].gen = gen => page[c].last <= r[k].n
                        /\ \A i \in DOMAIN r :
                             /\ i < k => r[i].n <= r[k].n /\ r[i].type # "snapshot"
                             /\ i > k => /\ IsEvent(r[i])
                                         /\ r[i].n \in async' \/ r[i].n > r[k].n
                        /\ \A m \in (r[k].n + 1)..seq' : m \notin async' =>
                             \E i \in DOMAIN r : i > k /\ IsEvent(r[i]) /\ r[i].n = m
      BY <2>1 DEF PageSnapshot, StreamMoves
    <3> HIDE DEF q, r, l
    <3>1. k \in DOMAIN q /\ r[k] = q[k] /\ k < l /\ q[k].n \in Nat /\ q[k].n <= seq
      BY <1>1, <1>3, <1>4 DEF IsEvent
    <3>2. /\ st[c] \in {"answered", "live"} /\ page[c].ack <= q[k].n
          /\ page[c].gen = gen => page[c].last <= q[k].n
          /\ \A i \in DOMAIN q :
               /\ i < k => q[i].n <= q[k].n /\ q[i].type # "snapshot"
               /\ i > k => IsEvent(q[i]) /\ (q[i].n \in async \/ q[i].n > q[k].n)
          /\ \A m \in (q[k].n + 1)..seq : m \notin async =>
               \E i \in DOMAIN q : i > k /\ IsEvent(q[i]) /\ q[i].n = m
      BY <2>1, <3>1 DEF PageSnapshot, q
    <3>3. ASSUME NEW i \in DOMAIN r
          PROVE  /\ i < k => r[i].n <= r[k].n /\ r[i].type # "snapshot"
                 /\ i > k => IsEvent(r[i]) /\ (r[i].n \in async' \/ r[i].n > r[k].n)
      <4>1. CASE i \in DOMAIN q BY <1>1, <1>2, <3>1, <3>2, <4>1
      <4>2. CASE i = l
        <5>1. ~(i < k) BY <1>1, <3>1, <4>2
        <5>2. n \in async' \/ n > q[k].n BY <1>2, <3>1
        <5> QED BY <1>1, <1>3, <3>1, <4>2, <5>1, <5>2
      <4> QED BY <1>1, <4>1, <4>2
    <3>4. ASSUME NEW m \in (r[k].n + 1)..seq', m \notin async'
          PROVE  \E i \in DOMAIN r : i > k /\ IsEvent(r[i]) /\ r[i].n = m
      <4>1. CASE m <= seq
        <5>1. m \in (q[k].n + 1)..seq /\ m \notin async BY <1>2, <3>1, <3>4, <4>1
        <5>2. PICK i \in DOMAIN q : i > k /\ IsEvent(q[i]) /\ q[i].n = m BY <3>2, <5>1
        <5> QED BY <1>1, <5>2
      <4>2. CASE ~(m <= seq)
        <5>1. m = n /\ l \in DOMAIN r /\ l > k BY <1>1, <1>2, <3>1, <4>2
        <5> QED BY <1>1, <1>3, <5>1
      <4> QED BY <4>1, <4>2
    <3> QED BY <3>1, <3>2, <3>3, <3>4
  <2>5. PageLive(c)' BY <2>0, <2>1 DEF PageLive
  <2>6. PageGets(c)'
    <3>1. Got(c)' = Got(c) /\ Base(c)' = Base(c) /\ Base(c) \in Nat BY <2>0, <2>1 DEF Got, Base
    <3> SUFFICES ASSUME NEW m \in (Base(c) + 1)..seq'
                 PROVE  m \in async' \cup Got(c) \cup Queued(c) \cup {n} \/ Passed(c, m)'
      BY <1>5, <3>1 DEF PageGets
    <3>2. CASE m <= seq
      <4>1. m \in (Base(c) + 1)..seq BY <1>2, <3>1, <3>2
      <4>2. m \in async \cup Got(c) \cup Queued(c) \/ Passed(c, m) BY <2>1, <4>1 DEF PageGets
      <4> QED BY <1>2, <2>0, <2>1, <4>2 DEF Passed
    <3>3. CASE ~(m <= seq)
      <4>1. m = n BY <1>2, <3>1, <3>3
      <4> QED BY <4>1
    <3> QED BY <3>2, <3>3
  <2> QED BY <2>2, <2>3, <2>4, <2>5, <2>6 DEF PageInv
<1> QED BY <1>6, <1>7, <1>8, <1>9 DEF ClientInv

\* An event is queued for everybody who is registered (emit).
LEMMA BroadcastStep ==
  ASSUME StateInv, \A c \in Clients : ClientInv(c), StreamMoves, NEW n \in Nat,
         \/ n = seq + 1 /\ seq' = seq + 1
         \/ n \in async /\ seq' = seq,
         \A m \in late : m \in late' \/ m = n,
         Broadcast(n), UNCHANGED <<subs, st, page, term>>
  PROVE  /\ \A c \in Clients : ClientInv(c)'
         /\ conn' \in [Clients -> Conn] /\ \A c \in Clients : Len(conn'[c].out) <= QueueSize
<1> SUFFICES ASSUME NEW c \in Clients
             PROVE  ClientInv(c)' /\ conn'[c] \in Conn /\ Len(conn'[c].out) <= QueueSize
  BY DEF Broadcast
<1>1. conn[c] \in Conn /\ Len(conn[c].out) <= QueueSize /\ Registered(c)
  BY DEF StateInv, ClientInv
<1>2. CASE c \notin subs
  <2>1. /\ conn'[c] = conn[c] /\ conn[c].out = <<>>
        /\ st[c] \notin {"snapshot", "hydrate", "answered", "live"}
    BY <1>1, <1>2 DEF Broadcast, Registered
  <2> QED BY <1>1, <2>1, QuietStays
<1>3. CASE c \in subs
  <2>1. conn'[c] = Enqueued(c, <<Event(n)>>) BY <1>3 DEF Broadcast
  <2>2. <<Event(n)>> \in Seq(Frame) BY DEF Event, Frame
  <2>3. /\ conn'[c] \in Conn /\ Len(conn'[c].out) <= QueueSize
        /\ \/ conn'[c].pc # "open" /\ conn'[c].out = <<>>
           \/ /\ conn[c].pc = "open" /\ conn'[c].pc = "open"
              /\ conn'[c].out = conn[c].out \o <<Event(n)>>
    <3>1. conn[c].pc # "open" => conn[c].out = <<>> BY <1>1 DEF Registered
    <3> QED BY <1>1, <2>1, <2>2, <3>1, EnqueuedCases
  <2>4. CASE conn'[c].pc # "open" /\ conn'[c].out = <<>> BY <2>3, <2>4, QuietStays
  <2>5. CASE /\ conn[c].pc = "open" /\ conn'[c].pc = "open"
             /\ conn'[c].out = conn[c].out \o <<Event(n)>>
    BY <1>3, <2>3, <2>5, EventQueued
  <2> QED BY <2>3, <2>4, <2>5
<1> QED BY <1>2, <1>3

\* An event is recorded, and its delivery left to a task.
LEMMA RecordedAhead ==
  ASSUME StateInv, NEW c \in Clients, ClientInv(c), gen' = gen, seq' = seq + 1,
         lossy' = lossy, async' = async \cup {seq + 1}, late' = late \cup {seq + 1},
         UNCHANGED <<subs, conn, st, page, term>>
  PROVE  ClientInv(c)'
<1>1. seq \in Nat /\ seq' \in Nat /\ seq <= seq' BY DEF StateInv
<1>2. Registered(c)' BY DEF ClientInv, Registered
<1>3. FramesInOrder(c)'
  <2>1. \A i \in DOMAIN conn[c].out : conn[c].out[i].n \in Nat BY FrameNumbers
  <2> QED BY <1>1, <2>1 DEF ClientInv, FramesInOrder
<1>4. Queued(c)' = Queued(c) BY DEF Queued
<1>5. ASSUME c \in Terminals PROVE TerminalOrder(c)' /\ TerminalGets(c)'
  <2>1. TerminalOrder(c) /\ TerminalGets(c) /\ Seen(c)' = Seen(c) BY <1>5 DEF ClientInv, Seen
  <2>2. Seen(c) \subseteq Nat /\ term[c].cursor \in Nat /\ term[c].from \in Nat
    BY <1>5 DEF Seen, StateInv, TermType, ToSet
  <2>3. Owed(c)' \subseteq Owed(c) \cup {seq + 1} BY <1>1, <2>2 DEF Owed
  <2>4. TerminalOrder(c)' BY <1>1, <2>1, <2>2 DEF TerminalOrder
  <2>5. TerminalGets(c)' BY <1>4, <2>1, <2>3 DEF TerminalGets
  <2> QED BY <2>4, <2>5
<1>6. ASSUME c \in Pages PROVE PageInv(c)'
  <2>1. /\ PageInv(c) /\ page[c] \in PageType BY <1>6 DEF ClientInv, StateInv
  <2>2. \A m \in Nat : \A n \in (m + 1)..seq' : n \notin async' => n \in (m + 1)..seq
    BY <1>1
  <2>3. page[c].ack \in Nat /\ page[c].last \in Nat /\ page[c].base \in Nat
    BY <2>1 DEF PageType
  <2>4. PageCursor(c)' BY <1>1, <2>1, <2>3 DEF PageInv, PageCursor
  <2>5. PageSnapshot(c)'
    <3>1. \A i \in DOMAIN conn[c].out : conn[c].out[i].n \in Nat BY FrameNumbers
    <3> QED BY <2>1, <2>2, <3>1 DEF PageInv, PageSnapshot
  <2>6. PageOrder(c)' /\ PageLive(c)'
    <3>1. Cursor(c)' = Cursor(c) BY <2>1 DEF Cursor
    <3> QED BY <2>1, <3>1 DEF PageInv, PageOrder, PageLive
  <2>7. PageGets(c)'
    <3>1. Got(c)' = Got(c) /\ Base(c)' = Base(c) /\ Base(c) \in Nat BY <2>3 DEF Got, Base
    <3> QED BY <1>4, <2>1, <2>2, <3>1 DEF PageInv, PageGets, Passed
  <2> QED BY <2>4, <2>5, <2>6, <2>7 DEF PageInv
<1> QED BY <1>2, <1>3, <1>5, <1>6 DEF ClientInv

\* The steps of the stream: emit, recording ahead, late delivery.
LEMMA StreamKeeps ==
  ASSUME RegistryInv, ReaderInv, StreamStep
  PROVE  ReaderInv'
<1>0. /\ StateInv /\ \A c \in Clients : ClientInv(c)
      /\ seq \in Nat /\ gen \in Nat \ {0} /\ MaxSeq \in Nat
      /\ UNCHANGED <<subs, st, run, page, term>>
  <2>1. UNCHANGED <<subs, st, run, page, term>>
    BY DEF StreamStep, Emit, EmitLate, DeliverLate, clients
  <2>2. StateInv /\ \A c \in Clients : ClientInv(c) BY DEF ReaderInv
  <2>3. gen \in 1..MaxGen /\ seq \in 0..MaxSeq BY <2>2 DEF StateInv
  <2>4. seq \in Nat /\ gen \in Nat \ {0} /\ MaxSeq \in Nat BY <2>3, ConstantsAssumption
  <2> QED BY <2>1, <2>2, <2>4
<1>1. ASSUME NEW mayLose \in BOOLEAN, Record(mayLose)
      PROVE  /\ seq' = seq + 1 /\ seq' \in 0..MaxSeq /\ gen' = gen
             /\ lossy \subseteq lossy' /\ lossy' \subseteq 1..seq' /\ Cardinality(buf') <= Window
             /\ async \subseteq 1..seq' /\ seq' \in 1..seq'
             /\ ~mayLose => lossy' = lossy
  <2>1. seq + gen < MaxSeq /\ seq' = seq + 1 /\ gen' = gen BY <1>1 DEF Record
  <2>2. lossy' \subseteq lossy \cup {seq + 1} /\ lossy \subseteq lossy' BY <1>1 DEF Record
  <2>3. lossy \subseteq 1..seq /\ async \subseteq 1..seq BY <1>0 DEF StateInv
  <2>4. Cardinality(buf') <= Window
    <3> DEFINE B == buf \cup {seq + 1}
    <3>1. IsFiniteSet(buf)
      <4>1. IsFiniteSet(1..seq) BY <1>0, FS_Interval
      <4> QED BY <4>1, FS_Subset DEF RegistryInv
    <3>2. /\ IsFiniteSet(B) /\ Cardinality(buf) \in Nat /\ Cardinality(B) \in Nat
          /\ Cardinality(B) <= Cardinality(buf) + 1
      BY <3>1, FS_AddElement, FS_CardinalityType
    <3>3. Cardinality(buf) <= Window /\ Window \in Nat BY <1>0, ConstantsAssumption DEF StateInv
    <3>4. buf' \in Trimmed(B, lossy') BY <1>1 DEF Record
    <3> HIDE DEF B
    <3>5. CASE Cardinality(B) <= Window /\ buf' = B BY <3>5
    <3>6. CASE \E n \in B : buf' = B \ {n}
      <4>1. PICK n \in B : buf' = B \ {n} BY <3>6
      <4>2. Cardinality(B \ {n}) = Cardinality(B) - 1 BY <3>2, FS_RemoveElement
      <4> QED BY <3>2, <3>3, <4>1, <4>2
    <3> QED BY <3>4, <3>5, <3>6 DEF Trimmed
  <2>5. ~mayLose => lossy' = lossy BY <1>1 DEF Record
  <2> QED BY <1>0, <2>1, <2>2, <2>3, <2>4, <2>5
<1>2. ASSUME NEW mayLose \in BOOLEAN, Emit(mayLose) PROVE ReaderInv'
  <2>1. Record(mayLose) /\ Broadcast(seq + 1) /\ UNCHANGED <<late, async>> BY <1>2 DEF Emit
  <2>2. StreamMoves /\ seq + 1 \in Nat BY <1>0, <1>1, <2>1 DEF StreamMoves
  <2>3. /\ \A c \in Clients : ClientInv(c)'
        /\ conn' \in [Clients -> Conn] /\ \A c \in Clients : Len(conn'[c].out) <= QueueSize
    BY <1>0, <1>1, <2>1, <2>2, BroadcastStep
  <2>4. StateInv' BY <1>0, <1>1, <2>1, <2>3 DEF StateInv
  <2> QED BY <2>3, <2>4 DEF ReaderInv
<1>3. CASE EmitLate
  <2>1. /\ Record(FALSE) /\ late' = late \cup {seq + 1} /\ async' = async \cup {seq + 1}
        /\ UNCHANGED conn
    BY <1>3 DEF EmitLate
  <2>2. \A c \in Clients : ClientInv(c)'
    BY <1>0, <1>1, <2>1, RecordedAhead
  <2>3. StateInv' BY <1>0, <1>1, <2>1 DEF StateInv
  <2> QED BY <2>2, <2>3 DEF ReaderInv
<1>4. ASSUME NEW n \in late, DeliverLate(n) PROVE ReaderInv'
  <2>1. /\ late' = late \ {n} /\ Broadcast(n) /\ UNCHANGED <<gen, seq, buf, lossy, async>>
    BY <1>4 DEF DeliverLate
  <2>2. n \in async /\ n \in Nat BY <1>0, <1>4 DEF StateInv
  <2>3. StreamMoves BY <2>1 DEF StreamMoves
  <2>4. /\ \A c \in Clients : ClientInv(c)'
        /\ conn' \in [Clients -> Conn] /\ \A c \in Clients : Len(conn'[c].out) <= QueueSize
    BY <1>0, <2>1, <2>2, <2>3, BroadcastStep
  <2>5. StateInv' BY <1>0, <2>1, <2>4 DEF StateInv
  <2> QED BY <2>4, <2>5 DEF ReaderInv
<1> QED BY <1>2, <1>3, <1>4 DEF StreamStep

----------------------------------------------------------------------------
(* Bootstrap runs *)

\* What of a run counts its attempts.
Alike(r, w) ==
  w \in Runs /\ w.phase = r.phase /\ w.attempts = r.attempts /\ w.tries = r.tries /\ w.late = r.late

\* One field of a run is changed.
LEMMA RunPhase ==
  ASSUME NEW r \in Runs, NEW x \in {"connecting", "ready", "degraded"}
  PROVE  LET w == [r EXCEPT !.phase = x]
         IN  /\ w \in Runs /\ w.phase = x /\ w.attempts = r.attempts
             /\ w.tries = r.tries /\ w.late = r.late
BY DEF Runs, Budget, MaxAttempts

LEMMA RunAttempts ==
  ASSUME NEW r \in Runs, NEW x \in 0..2
  PROVE  LET w == [r EXCEPT !.attempts = x]
         IN  /\ w \in Runs /\ w.phase = r.phase /\ w.attempts = x
             /\ w.tries = r.tries /\ w.late = r.late
BY DEF Runs, Budget, MaxAttempts

LEMMA RunTries ==
  ASSUME NEW r \in Runs, NEW x \in 0..5
  PROVE  LET w == [r EXCEPT !.tries = x]
         IN  /\ w \in Runs /\ w.phase = r.phase /\ w.attempts = r.attempts
             /\ w.tries = x /\ w.late = r.late
BY DEF Runs, Budget, MaxAttempts

LEMMA RunLate ==
  ASSUME NEW r \in Runs, NEW x \in BOOLEAN
  PROVE  LET w == [r EXCEPT !.late = x]
         IN  /\ w \in Runs /\ w.phase = r.phase /\ w.attempts = r.attempts
             /\ w.tries = r.tries /\ w.late = x
BY DEF Runs, Budget, MaxAttempts

LEMMA RunFlags ==
  ASSUME NEW r \in Runs, NEW x \in BOOLEAN
  PROVE  /\ Alike(r, [r EXCEPT !.skip = x]) /\ Alike(r, [r EXCEPT !.awaiting = x])
         /\ Alike(r, [r EXCEPT !.resume = x]) /\ Alike(r, [r EXCEPT !.reading = x])
         /\ Alike(r, [r EXCEPT !.fresh = x])
<1> USE DEF Runs, Budget, MaxAttempts, Alike
<1>1. Alike(r, [r EXCEPT !.skip = x]) /\ Alike(r, [r EXCEPT !.awaiting = x]) OBVIOUS
<1>2. Alike(r, [r EXCEPT !.resume = x]) /\ Alike(r, [r EXCEPT !.reading = x]) OBVIOUS
<1>3. Alike(r, [r EXCEPT !.fresh = x]) OBVIOUS
<1> HIDE DEF Runs, Budget, MaxAttempts, Alike
<1> QED BY <1>1, <1>2, <1>3

\* The numbers of a counted run.
LEMMA RunNumbers ==
  ASSUME NEW r \in CountedRuns
  PROVE  /\ r \in Runs /\ r.tries \in 0..4 /\ r.attempts \in 0..2 /\ r.late \in BOOLEAN
         /\ r.skip \in BOOLEAN /\ r.resume \in BOOLEAN /\ r.awaiting \in BOOLEAN
         /\ r.fresh \in BOOLEAN /\ r.reading \in BOOLEAN
         /\ r.phase \in {"connecting", "ready", "degraded"}
         /\ r.phase = "ready" => r.tries = 0
         /\ r.tries <= r.attempts + (IF r.late THEN 2 ELSE 0)
         /\ r.tries <= Budget /\ Tried(r) = r.tries + 1 /\ MaxAttempts = 2
BY DEF CountedRuns, Runs, Tried, Budget, MaxAttempts

\* The phase of attempts ends or begins anew, or the next attempt is made.
LEMMA RunPhases ==
  ASSUME NEW r \in Runs, NEW n, n = r.attempts, r.phase = "ready" => r.tries = 0,
         r.tries <= n + (IF r.late THEN 2 ELSE 0)
  PROVE  /\ Degraded(r) \in CountedRuns /\ Ready(r) \in CountedRuns
         /\ NextAttempt(r) \in CountedRuns
         /\ ((r.late /\ r.tries <= 2) \/ r.tries = 0) => Restarted(r) \in CountedRuns
<1>0. 1 \in 0..2 /\ 0 \in 0..5 OBVIOUS
<1>1. /\ r.tries \in 0..4 /\ r.attempts \in 0..2 /\ r.late \in BOOLEAN /\ r.resume \in BOOLEAN
      /\ MaxAttempts = 2 /\ Tried(r) = r.tries + 1
  BY DEF Runs, Budget, MaxAttempts, Tried
<1> USE DEF CountedRuns
<1>2. Degraded(r) \in CountedRuns
  <2> DEFINE a == [r EXCEPT !.phase = "degraded"]
             b == [a EXCEPT !.late = r.late \/ r.resume]
             d == [b EXCEPT !.resume = FALSE]
  <2>1. Degraded(r) = d BY Zenon DEF Degraded
  <2>2. /\ a \in Runs /\ a.phase = "degraded" /\ a.attempts = r.attempts
        /\ a.tries = r.tries /\ a.late = r.late
    BY RunPhase
  <2> HIDE DEF a
  <2>3. /\ b \in Runs /\ b.phase = "degraded" /\ b.attempts = r.attempts
        /\ b.tries = r.tries /\ b.late = (r.late \/ r.resume)
    BY <1>1, <2>2, RunLate
  <2> HIDE DEF b
  <2>4. Alike(b, d) BY <2>3, RunFlags
  <2> HIDE DEF d
  <2> QED BY <1>1, <2>1, <2>3, <2>4 DEF Alike
<1>3. Ready(r) \in CountedRuns
  <2> DEFINE a == [r EXCEPT !.phase = "ready"]
             b == [a EXCEPT !.resume = FALSE]
             d == [b EXCEPT !.tries = 0]
  <2>1. Ready(r) = d BY Zenon DEF Ready
  <2>2. /\ a \in Runs /\ a.phase = "ready" /\ a.attempts = r.attempts
        /\ a.tries = r.tries /\ a.late = r.late
    BY RunPhase
  <2> HIDE DEF a
  <2>3. Alike(a, b) BY <2>2, RunFlags
  <2> HIDE DEF b
  <2>4. /\ d \in Runs /\ d.phase = "ready" /\ d.attempts = r.attempts
        /\ d.tries = 0 /\ d.late = r.late
    BY <1>0, <2>2, <2>3, RunTries DEF Alike
  <2> HIDE DEF d
  <2> QED BY <1>1, <2>1, <2>4
<1>4. NextAttempt(r) \in CountedRuns
  <2> DEFINE a == [r EXCEPT !.phase = "connecting"]
             b == [a EXCEPT !.attempts = r.attempts + 1]
             d == [b EXCEPT !.tries = Tried(r)]
  <2>1. CASE r.attempts < 2
    <3>1. NextAttempt(r) = d
      <4>1. NextAttempt(r) = [r EXCEPT !.phase = "connecting", !.attempts = @ + 1, !.tries = Tried(r)]
        BY <1>1, <2>1 DEF NextAttempt
      <4> QED BY <4>1, Zenon
    <3>2. /\ a \in Runs /\ a.phase = "connecting" /\ a.attempts = r.attempts
          /\ a.tries = r.tries /\ a.late = r.late
      BY RunPhase
    <3> HIDE DEF a
    <3>3. r.attempts + 1 \in 0..2 /\ Tried(r) \in 0..5 BY <1>1, <2>1
    <3>4. /\ b \in Runs /\ b.phase = "connecting" /\ b.attempts = r.attempts + 1
          /\ b.tries = r.tries /\ b.late = r.late
      BY <3>2, <3>3, RunAttempts
    <3> HIDE DEF b
    <3>5. /\ d \in Runs /\ d.phase = "connecting" /\ d.attempts = r.attempts + 1
          /\ d.tries = Tried(r) /\ d.late = r.late
      BY <3>3, <3>4, RunTries
    <3> HIDE DEF d
    <3> QED BY <1>1, <3>1, <3>5
  <2>2. CASE ~(r.attempts < 2) BY <1>1, <1>2, <2>2 DEF NextAttempt
  <2> QED BY <2>1, <2>2
<1>5. ASSUME (r.late /\ r.tries <= 2) \/ r.tries = 0 PROVE Restarted(r) \in CountedRuns
  <2> DEFINE a == [r EXCEPT !.phase = "connecting"]
             b == [a EXCEPT !.attempts = 1]
             d == [b EXCEPT !.skip = FALSE]
             e == [d EXCEPT !.resume = FALSE]
             f == [e EXCEPT !.tries = Tried(r)]
  <2>1. Restarted(r) = f BY Zenon DEF Restarted
  <2>2. /\ a \in Runs /\ a.phase = "connecting" /\ a.tries = r.tries /\ a.late = r.late
    BY RunPhase
  <2> HIDE DEF a
  <2>3. /\ b \in Runs /\ b.phase = "connecting" /\ b.attempts = 1 /\ b.tries = r.tries
        /\ b.late = r.late
    BY <1>0, <2>2, RunAttempts
  <2> HIDE DEF b
  <2>4. Alike(b, d) BY <2>3, RunFlags
  <2> HIDE DEF d
  <2>5. Alike(d, e) BY <2>4, RunFlags DEF Alike
  <2> HIDE DEF e
  <2>6. Tried(r) \in 0..5 BY <1>1
  <2>7. /\ f \in Runs /\ f.phase = "connecting" /\ f.attempts = 1 /\ f.tries = Tried(r)
        /\ f.late = r.late
    BY <2>3, <2>4, <2>5, <2>6, RunTries DEF Alike
  <2> HIDE DEF f
  <2> QED BY <1>1, <1>5, <2>1, <2>7
<1> QED BY <1>2, <1>3, <1>4, <1>5

\* One step of a bootstrap run keeps its attempts counted.
LEMMA RunSteps ==
  /\ NewRun \in CountedRuns
  /\ \A r \in CountedRuns :
       /\ Degraded(r) \in CountedRuns /\ Ready(r) \in CountedRuns
       /\ Reopened(r) \in CountedRuns /\ Retried(r) \in CountedRuns
       /\ \A acked \in BOOLEAN : Failed(r, acked) \in CountedRuns /\ Dropped(r, acked) \in CountedRuns
       /\ r.tries <= Budget
<1>1. NewRun \in CountedRuns BY DEF NewRun, CountedRuns, Runs, Budget, MaxAttempts
<1>2. ASSUME NEW r \in CountedRuns
      PROVE  r.tries <= Budget /\ Degraded(r) \in CountedRuns /\ Ready(r) \in CountedRuns
  BY RunNumbers, RunPhases
<1>3. ASSUME NEW r \in CountedRuns, NEW acked \in BOOLEAN PROVE Failed(r, acked) \in CountedRuns
  <2> DEFINE q == [r EXCEPT !.skip = r.skip \/ acked]
  <2>1. Failed(r, acked) = NextAttempt(q) BY DEF Failed
  <2>2. Alike(r, q) BY RunNumbers, RunFlags
  <2> HIDE DEF q
  <2> QED BY <2>1, <2>2, RunNumbers, RunPhases DEF Alike
<1>4. ASSUME NEW r \in CountedRuns, NEW acked \in BOOLEAN PROVE Dropped(r, acked) \in CountedRuns
  <2>1. CASE r.phase = "degraded" BY <2>1 DEF Dropped
  <2>2. CASE r.phase = "connecting"
    <3> DEFINE q == [r EXCEPT !.awaiting = TRUE]
    <3>1. Dropped(r, acked) = Failed(q, acked) BY <2>2 DEF Dropped
    <3>2. Alike(r, q) BY RunNumbers, RunFlags
    <3> HIDE DEF q
    <3>3. q \in CountedRuns BY <3>2, RunNumbers DEF Alike, CountedRuns, MaxAttempts
    <3> QED BY <1>3, <3>1, <3>3
  <2>3. CASE r.phase = "ready" /\ ~r.reading BY <1>1, <2>3 DEF Dropped
  <2>4. CASE r.phase = "ready" /\ r.reading
    <3> DEFINE a == [r EXCEPT !.awaiting = TRUE]
               b == [a EXCEPT !.resume = FALSE]
               d == [b EXCEPT !.fresh = FALSE]
               n == IF r.fresh THEN 0 ELSE r.attempts
               q == [d EXCEPT !.attempts = n]
    <3>1. Dropped(r, acked) = NextAttempt(q)
      <4>1. Dropped(r, acked) =
              NextAttempt([r EXCEPT !.awaiting = TRUE, !.resume = FALSE, !.fresh = FALSE,
                                    !.attempts = n])
        BY <2>4 DEF Dropped
      <4> QED BY <4>1, Zenon
    <3>2. Alike(r, a) BY RunNumbers, RunFlags
    <3> HIDE DEF a
    <3>3. Alike(a, b) BY <3>2, RunFlags DEF Alike
    <3> HIDE DEF b
    <3>4. Alike(b, d) BY <3>3, RunFlags DEF Alike
    <3> HIDE DEF d
    <3>5. n \in 0..2 BY RunNumbers
    <3>6. /\ q \in Runs /\ q.phase = r.phase /\ q.attempts = n /\ q.tries = r.tries
          /\ q.late = r.late
      BY <3>2, <3>3, <3>4, <3>5, RunAttempts DEF Alike
    <3> HIDE DEF q
    <3>7. r.tries = 0 /\ r.late \in BOOLEAN BY <2>4, RunNumbers
    <3>8. q.tries <= n + (IF q.late THEN 2 ELSE 0) BY <3>5, <3>6, <3>7
    <3> QED BY <3>1, <3>6, <3>7, <3>8, RunPhases
  <2> QED BY <2>1, <2>2, <2>3, <2>4, RunNumbers
<1>5. ASSUME NEW r \in CountedRuns PROVE Retried(r) \in CountedRuns
  <2> DEFINE q == [r EXCEPT !.tries = 0]
  <2>1. 0 \in 0..5 OBVIOUS
  <2>2. q \in Runs /\ q.attempts = r.attempts /\ q.tries = 0 /\ q.late = r.late
    BY <2>1, RunNumbers, RunTries
  <2>3. Retried(r) = Restarted(q) BY DEF Retried
  <2> HIDE DEF q
  <2>4. q.tries <= q.attempts + (IF q.late THEN 2 ELSE 0) BY <2>2, RunNumbers
  <2> QED BY <2>2, <2>3, <2>4, RunPhases
<1>6. ASSUME NEW r \in CountedRuns PROVE Reopened(r) \in CountedRuns
  <2> DEFINE o == [r EXCEPT !.awaiting = FALSE]
  <2>1. /\ r.phase = "connecting" => Reopened(r) = [o EXCEPT !.resume = @ \/ r.awaiting]
        /\ r.phase = "degraded" /\ ~r.late => Reopened(r) = Restarted([o EXCEPT !.late = TRUE])
        /\ r.phase = "ready" \/ (r.phase = "degraded" /\ r.late) => Reopened(r) = o
    BY DEF Reopened
  <2>2. Alike(r, o) BY RunNumbers, RunFlags
  <2>3. o.resume \in BOOLEAN BY <2>2 DEF Alike, Runs
  <2> HIDE DEF o
  <2>4. o \in CountedRuns BY <2>2, RunNumbers DEF Alike, CountedRuns, MaxAttempts
  <2>5. CASE r.phase = "connecting"
    <3> DEFINE q == [o EXCEPT !.resume = o.resume \/ r.awaiting]
    <3>1. Reopened(r) = q BY <2>1, <2>5
    <3>2. Alike(o, q) BY <2>3, <2>4, RunNumbers, RunFlags
    <3> HIDE DEF q
    <3>3. q \in CountedRuns BY <2>4, <3>2, RunNumbers DEF Alike, CountedRuns, MaxAttempts
    <3> QED BY <3>1, <3>3
  <2>6. CASE r.phase = "degraded" /\ ~r.late
    <3> DEFINE q == [o EXCEPT !.late = TRUE]
    <3>1. Reopened(r) = Restarted(q) BY <2>1, <2>6
    <3>2. /\ q \in Runs /\ q.phase = o.phase /\ q.attempts = o.attempts /\ q.tries = o.tries
          /\ q.late = TRUE
      BY <2>4, RunNumbers, RunLate
    <3> HIDE DEF q
    <3>3. o.tries \in 0..4 /\ o.attempts \in 0..2 /\ o.tries <= o.attempts
      <4>1. ~o.late BY <2>2, <2>6 DEF Alike
      <4> QED BY <2>4, <4>1, RunNumbers
    <3>4. q.tries <= 2 /\ q.tries <= q.attempts + 2 BY <3>2, <3>3
    <3>5. q.phase # "ready" BY <2>2, <2>6, <3>2 DEF Alike
    <3> QED BY <3>1, <3>2, <3>4, <3>5, RunPhases
  <2>7. CASE r.phase = "ready" \/ (r.phase = "degraded" /\ r.late) BY <2>1, <2>4, <2>7
  <2> QED BY <2>5, <2>6, <2>7, RunNumbers
<1> QED BY <1>1, <1>2, <1>3, <1>4, <1>5, <1>6

----------------------------------------------------------------------------
(* Requests of one connection *)

\* A step of one client changes nothing of the others.
LEMMA OneClient ==
  ASSUME ReaderInv, UNCHANGED registry,
         NEW c \in Clients, ClientInv(c)',
         NEW X \in Conn, Len(X.out) <= QueueSize, conn' = [conn EXCEPT ![c] = X],
         NEW v \in Statuses, st' = [st EXCEPT ![c] = v],
         \A d \in Clients \ {c} : d \in subs' <=> d \in subs, subs' \subseteq Clients,
         run' \in [Pages -> CountedRuns],
         page' \in [Pages -> PageType], \A p \in Pages \ {c} : page'[p] = page[p],
         term' \in [Terminals -> TermType], \A u \in Terminals \ {c} : term'[u] = term[u]
  PROVE  ReaderInv'
<1>1. StateInv /\ \A d \in Clients : ClientInv(d) BY DEF ReaderInv
<1>2. conn' \in [Clients -> Conn] /\ st' \in [Clients -> Statuses]
  BY <1>1 DEF StateInv, Statuses
<1>3. \A d \in Clients : Len(conn'[d].out) <= QueueSize BY <1>1 DEF StateInv
<1>4. StateInv'
  BY <1>1, <1>2, <1>3 DEF StateInv, registry, Statuses, PageType, TermType
<1>5. ASSUME NEW d \in Clients, d # c PROVE ClientInv(d)'
  <2>1. conn'[d] = conn[d] /\ st'[d] = st[d] BY <1>1, <1>5 DEF StateInv
  <2>2. d \in subs' <=> d \in subs BY <1>5
  <2>3. /\ d \in Pages => page'[d] = page[d]
        /\ d \in Terminals => term'[d] = term[d]
    BY <1>5
  <2> QED BY <1>1, <2>1, <2>2, <2>3, Untouched
<1> QED BY <1>4, <1>5 DEF ReaderInv

\* A step of a page's bootstrap alone.
LEMMA RunOnly ==
  ASSUME ReaderInv, UNCHANGED <<registry, subs, conn, st, page, term>>,
         run' \in [Pages -> CountedRuns]
  PROVE  ReaderInv'
<1>1. StateInv /\ \A c \in Clients : ClientInv(c) BY DEF ReaderInv
<1>2. \A c \in Clients : ClientInv(c)' BY <1>1, Untouched
<1>3. StateInv' BY <1>1 DEF StateInv, registry
<1> QED BY <1>2, <1>3 DEF ReaderInv

\* History ends or is read again, or a page waits for its socket in vain.
LEMMA WaitKeeps ==
  ASSUME ReaderInv, NEW p \in Pages, HistoryEnds(p) \/ RetryHistory(p) \/ NoSocket(p)
  PROVE  ReaderInv'
<1>1. run \in [Pages -> CountedRuns]
  BY DEF ReaderInv, StateInv
<1>2. run[p] \in CountedRuns BY <1>1
<1>3. ASSUME NEW r \in CountedRuns, run' = [run EXCEPT ![p] = r]
      PROVE  run' \in [Pages -> CountedRuns]
  BY <1>1, <1>3
<1>4. CASE HistoryEnds(p)
  <2> DEFINE r == [run[p] EXCEPT !.reading = FALSE]
  <2>1. r \in CountedRuns BY <1>2 DEF CountedRuns, Runs
  <2>2. run' = [run EXCEPT ![p] = r] BY <1>4 DEF HistoryEnds
  <2> HIDE DEF r
  <2>3. run' \in [Pages -> CountedRuns] BY <1>3, <2>1, <2>2
  <2> QED BY <1>1, <1>4, <2>3, RunOnly DEF HistoryEnds
<1>5. CASE RetryHistory(p)
  <2> DEFINE r == [run[p] EXCEPT !.reading = TRUE, !.fresh = TRUE]
  <2>1. r \in CountedRuns BY <1>2 DEF CountedRuns, Runs
  <2>2. run' = [run EXCEPT ![p] = r] BY <1>5 DEF RetryHistory
  <2> HIDE DEF r
  <2>3. run' \in [Pages -> CountedRuns] BY <1>3, <2>1, <2>2
  <2> QED BY <1>1, <1>5, <2>3, RunOnly DEF RetryHistory
<1>6. CASE NoSocket(p)
  <2>1. [run[p] EXCEPT !.awaiting = TRUE] \in CountedRuns BY <1>2 DEF CountedRuns, Runs
  <2>2. run' \in [Pages -> CountedRuns] BY <1>2, <1>3, <1>6, <2>1, RunSteps DEF NoSocket
  <2> QED BY <1>6, <2>2, RunOnly DEF NoSocket
<1> QED BY <1>4, <1>5, <1>6

\* A page connects, or its user retries: it asks from its cursor, or stays off.
LEMMA AttemptKeeps ==
  ASSUME ReaderInv, NEW p \in Pages, Connect(p) \/ RetryLive(p)
  PROVE  ReaderInv'
<1>1. /\ StateInv /\ ClientInv(p) /\ p \in Clients /\ p \notin Terminals /\ QueueSize \in Nat
  BY ConstantsAssumption DEF ReaderInv, Clients
<1>2. PICK r \in {Reopened(run[p]), Retried(run[p])} :
        /\ run' = [run EXCEPT ![p] = r]
        /\ \E v \in {"subscribe", "off"} : st' = [st EXCEPT ![p] = v]
  BY DEF Connect, RetryLive, Attempting
<1>3. PICK v \in {"subscribe", "off"} : st' = [st EXCEPT ![p] = v] BY <1>2
<1>4. st[p] = "off" /\ UNCHANGED <<registry, subs, page, term>>
  BY DEF Connect, RetryLive
<1>5. PICK X \in Conn : X.out = <<>> /\ conn' = [conn EXCEPT ![p] = X]
  <2>1. CASE Connect(p)
    <3>1. [pc |-> "open", out |-> <<>>] \in Conn BY DEF Conn
    <3> QED BY <2>1, <3>1 DEF Connect
  <2>2. CASE RetryLive(p)
    <3>1. conn[p] \in Conn /\ conn = [conn EXCEPT ![p] = conn[p]] BY <1>1 DEF StateInv
    <3>2. conn[p].out = <<>> BY <1>1, <1>4 DEF ClientInv, Registered
    <3> QED BY <2>2, <3>1, <3>2 DEF RetryLive
  <2> QED BY <2>1, <2>2
<1>6. conn'[p] = X /\ conn'[p].out = <<>> /\ st'[p] \in {"subscribe", "off"} /\ Len(X.out) <= QueueSize
  BY <1>1, <1>3, <1>5 DEF StateInv
<1>7. ClientInv(p)'
  <2>1. Registered(p)' BY <1>1, <1>4, <1>6 DEF ClientInv, Registered
  <2>2. FramesInOrder(p)' BY <1>6 DEF FramesInOrder
  <2>3. PageCursor(p)' BY <1>1, <1>4 DEF ClientInv, PageInv, PageCursor, registry
  <2>4. PageOrder(p)' /\ PageSnapshot(p)' BY <1>6 DEF PageOrder, PageSnapshot
  <2>5. PageGets(p)' /\ PageLive(p)' BY <1>6, <2>1 DEF Registered, PageGets, PageLive
  <2> QED BY <1>1, <2>1, <2>2, <2>3, <2>4, <2>5 DEF ClientInv, PageInv
<1>8. /\ page \in [Pages -> PageType] /\ term \in [Terminals -> TermType]
      /\ subs \subseteq Clients /\ run \in [Pages -> CountedRuns]
  BY <1>1 DEF StateInv
<1>9. run' \in [Pages -> CountedRuns]
  <2>1. r \in CountedRuns BY <1>2, <1>8, RunSteps
  <2> QED BY <1>2, <1>8, <2>1
<1>10. v \in Statuses BY DEF Statuses
<1> QED BY <1>1, <1>3, <1>4, <1>5, <1>6, <1>7, <1>8, <1>9, <1>10, OneClient

\* A terminal connects and reads its bootstrap.
LEMMA BootstrapKeeps ==
  ASSUME ReaderInv, NEW u \in Terminals, Bootstrap(u)
  PROVE  ReaderInv'
<1> DEFINE X == [pc |-> "open", out |-> <<>>]
<1>1. /\ StateInv /\ ClientInv(u) /\ u \in Clients /\ u \notin Pages /\ QueueSize \in Nat
  BY ConstantsAssumption DEF ReaderInv, Clients
<1>2. /\ st[u] = "off" /\ conn' = [conn EXCEPT ![u] = X]
      /\ st' = [st EXCEPT ![u] = "subscribe"] /\ UNCHANGED <<registry, subs, run, page>>
      /\ term' = [term EXCEPT ![u] = [term[u] EXCEPT !.cursor = seq]]
  BY DEF Bootstrap
<1>3. X \in Conn /\ Len(X.out) <= QueueSize BY <1>1 DEF Conn
<1>4. /\ page \in [Pages -> PageType] /\ term \in [Terminals -> TermType]
      /\ seq \in Nat /\ subs \subseteq Clients
      /\ run \in [Pages -> CountedRuns]
  BY <1>1 DEF StateInv
<1>5. conn'[u] = X /\ st'[u] = "subscribe" BY <1>1, <1>2 DEF StateInv
<1>6. /\ [term[u] EXCEPT !.cursor = seq] \in TermType
      /\ term'[u] = [term[u] EXCEPT !.cursor = seq]
  <2>1. \A t \in TermType : [t EXCEPT !.cursor = seq] \in TermType BY <1>4 DEF TermType
  <2> QED BY <1>2, <1>4, <2>1
<1>7. /\ term'[u].cursor = seq /\ term'[u].from = term[u].from
      /\ term'[u].queue = term[u].queue /\ term'[u].pending = term[u].pending
  <2>1. term[u] \in TermType BY <1>4
  <2> QED BY <1>6, <2>1 DEF TermType
<1>8. ClientInv(u)'
  <2>1. Registered(u)' BY <1>1, <1>2, <1>5 DEF ClientInv, Registered
  <2>2. FramesInOrder(u)' BY <1>5 DEF FramesInOrder
  <2>3. TerminalOrder(u)'
    <3>1. TerminalOrder(u) BY <1>1 DEF ClientInv
    <3>2. seq' = seq /\ async' = async BY <1>2 DEF registry
    <3>3. Seen(u)' = Seen(u) BY <1>7 DEF Seen
    <3> QED BY <1>2, <1>4, <1>5, <1>7, <3>1, <3>2, <3>3 DEF TerminalOrder
  <2>4. TerminalGets(u)' BY <1>5 DEF TerminalGets
  <2> QED BY <1>1, <2>1, <2>2, <2>3, <2>4 DEF ClientInv
<1>9. term' \in [Terminals -> TermType] BY <1>2, <1>4, <1>6
<1>10. \A d \in Terminals \ {u} : term'[d] = term[d] BY <1>2, <1>4
<1>11. "subscribe" \in Statuses BY DEF Statuses
<1> HIDE DEF X
<1> QED BY <1>1, <1>2, <1>3, <1>4, <1>8, <1>9, <1>10, <1>11, OneClient

\* An answer is queued behind what is already there.
LEMMA AnswerQueued ==
  ASSUME StateInv, NEW c \in Clients, FramesInOrder(c), UNCHANGED registry,
         NEW f \in Frame, ~IsEvent(f), f.n <= seq,
         conn'[c].out = conn[c].out \o <<f>>
  PROVE  /\ FramesInOrder(c)' /\ Queued(c)' = Queued(c)
         /\ Len(conn[c].out) \in Nat
         /\ conn'[c].out[Len(conn[c].out) + 1] = f
         /\ DOMAIN conn[c].out = 1..Len(conn[c].out)
         /\ DOMAIN conn'[c].out = 1..Len(conn[c].out) + 1
         /\ \A i \in DOMAIN conn[c].out : conn'[c].out[i] = conn[c].out[i]
<1> DEFINE q == conn[c].out
           r == conn'[c].out
           l == Len(q) + 1
<1>1. q \in Seq(Frame) BY FrameNumbers
<1>2. /\ Len(q) \in Nat /\ DOMAIN q = 1..Len(q) /\ DOMAIN r = 1..l
      /\ r[l] = f /\ \A i \in DOMAIN q : r[i] = q[i]
  BY <1>1, OneMore
<1>3. /\ \A i \in DOMAIN q : i \in DOMAIN r /\ i # l
      /\ \A i \in DOMAIN r : i \in DOMAIN q \/ i = l
  <2> HIDE DEF q, r
  <2> QED BY <1>2
<1>4. FramesInOrder(c)'
  <2>1. /\ \A i \in DOMAIN r : i \in DOMAIN q \/ r[i] = f
        /\ \A i \in DOMAIN q : r[i] = q[i]
    BY <1>2, <1>3
  <2>2. UNCHANGED <<seq, async>> BY DEF registry
  <2>3. \A i \in DOMAIN q :
          /\ q[i].n <= seq
          /\ \A j \in DOMAIN q : (i < j /\ IsEvent(q[i]) /\ IsEvent(q[j])) =>
                                   q[j].n \in async \/ q[i].n < q[j].n
    BY DEF FramesInOrder
  <2> SUFFICES \A i \in DOMAIN r :
          /\ r[i].n <= seq
          /\ \A j \in DOMAIN r : (i < j /\ IsEvent(r[i]) /\ IsEvent(r[j])) =>
                                   r[j].n \in async \/ r[i].n < r[j].n
    BY <2>2 DEF FramesInOrder
  <2> HIDE DEF q, r, l
  <2> QED BY <2>1, <2>3
<1>5. Queued(c)' = Queued(c)
  <2>1. /\ Queued(c) = {q[i].n : i \in {j \in DOMAIN q : q[j].type = "event"}}
        /\ Queued(c)' = {r[i].n : i \in {j \in DOMAIN r : r[j].type = "event"}}
    BY DEF Queued
  <2>2. f.type # "event" BY DEF IsEvent
  <2> HIDE DEF q, r, l
  <2> QED BY <1>2, <1>3, <2>1, <2>2
<1> QED BY <1>2, <1>4, <1>5

\* A page's snapshot is queued: what is ahead of it is no newer.
LEMMA SnapshotKeeps ==
  ASSUME ReaderInv, NEW p \in Pages, Snapshot(p)
  PROVE  ReaderInv'
<1> DEFINE f == Snapshotted(seq)
           X == Enqueued(p, <<f>>)
<1>1. /\ StateInv /\ ClientInv(p) /\ p \in Clients /\ p \notin Terminals
      /\ Registered(p) /\ FramesInOrder(p) /\ PageCursor(p) /\ PageSnapshot(p)
      /\ PageOrder(p) /\ PageGets(p)
  BY ConstantsAssumption DEF ReaderInv, Clients, ClientInv, PageInv
<1>2. /\ st[p] = "snapshot" /\ conn[p].pc = "open" /\ conn' = [conn EXCEPT ![p] = X]
      /\ st' = [st EXCEPT ![p] = "answered"]
      /\ UNCHANGED <<registry, subs, run, page, term>>
  BY DEF Snapshot
<1>3. /\ page \in [Pages -> PageType] /\ term \in [Terminals -> TermType]
      /\ subs \subseteq Clients /\ seq \in Nat /\ run \in [Pages -> CountedRuns]
  BY <1>1 DEF StateInv
<1>4. f \in Frame /\ f.n = seq /\ ~IsEvent(f) /\ f.type = "snapshot" /\ <<f>> \in Seq(Frame)
  BY <1>3 DEF Snapshotted, Frame, IsEvent
<1>5. conn[p] \in Conn /\ Len(conn[p].out) <= QueueSize BY <1>1 DEF StateInv
<1> HIDE DEF f
<1>6. /\ X \in Conn /\ Len(X.out) <= QueueSize
      /\ (X.pc # "open" /\ X.out = <<>>) \/ (X.pc = "open" /\ X.out = conn[p].out \o <<f>>)
  BY <1>2, <1>4, <1>5, EnqueuedCases
<1> HIDE DEF X
<1>7. conn'[p] = X /\ st'[p] = "answered" BY <1>1, <1>2 DEF StateInv
<1>8. Registered(p)' BY <1>1, <1>2, <1>6, <1>7 DEF Registered
<1>9. PageCursor(p)' BY <1>1, <1>2 DEF PageCursor, registry
<1>10. PageLive(p)' BY <1>7 DEF PageLive
<1>11. FramesInOrder(p)' /\ PageSnapshot(p)' /\ PageOrder(p)' /\ PageGets(p)'
  <2>1. CASE X.pc # "open" /\ X.out = <<>>
    BY <1>7, <2>1 DEF FramesInOrder, PageSnapshot, PageOrder, PageGets
  <2>2. CASE X.pc = "open" /\ X.out = conn[p].out \o <<f>>
    <3> DEFINE q == conn[p].out
               r == conn'[p].out
               l == Len(q) + 1
    <3>1. /\ FramesInOrder(p)' /\ Queued(p)' = Queued(p) /\ Len(q) \in Nat /\ r[l] = f
          /\ DOMAIN q = 1..Len(q) /\ DOMAIN r = 1..l /\ \A i \in DOMAIN q : r[i] = q[i]
      <4>1. conn'[p].out = conn[p].out \o <<f>> BY <1>7, <2>2
      <4>2. f.n <= seq BY <1>3, <1>4
      <4> QED BY <1>1, <1>2, <1>4, <4>1, <4>2, AnswerQueued
    <3>2. \A i \in DOMAIN q : q[i].type # "snapshot" BY <1>1, <1>2 DEF PageSnapshot
    <3>3. \A i \in DOMAIN q : q[i].n <= seq BY <1>1 DEF FramesInOrder
    <3>4. UNCHANGED <<gen, seq, async, lossy, page>> BY <1>2 DEF registry
    <3>11. PageGets(p)'
      <4>1. Got(p)' = Got(p) /\ Base(p)' = Base(p) BY <3>4 DEF Got, Base
      <4> QED BY <1>1, <1>2, <3>1, <3>4, <4>1 DEF PageGets, Passed
    <3>12. PageOrder(p)'
      <4>1. \A i \in DOMAIN r : (IsEvent(r[i]) \/ r[i].type = "ack") => i \in DOMAIN q /\ r[i] = q[i]
        <5> HIDE DEF q, r
        <5> QED BY <1>4, <3>1
      <4>2. Cursor(p)' = Cursor(p) BY <3>4 DEF Cursor
      <4> QED BY <1>1, <3>4, <4>1, <4>2 DEF PageOrder
    <3>5. page[p].ack <= seq /\ (page[p].gen = gen => page[p].last <= seq)
      BY <1>1 DEF PageCursor
    <3> SUFFICES ASSUME NEW k \in DOMAIN r, r[k].type = "snapshot"
                 PROVE  /\ page[p].ack <= r[k].n
                        /\ page[p].gen = gen => page[p].last <= r[k].n
                        /\ \A i \in DOMAIN r :
                             /\ i < k => r[i].n <= r[k].n /\ r[i].type # "snapshot"
                             /\ i > k => /\ IsEvent(r[i])
                                         /\ r[i].n \in async \/ r[i].n > r[k].n
                        /\ \A m \in (r[k].n + 1)..seq : m \notin async =>
                             \E i \in DOMAIN r : i > k /\ IsEvent(r[i]) /\ r[i].n = m
      BY <1>7, <3>1, <3>4, <3>11, <3>12 DEF PageSnapshot
    <3> HIDE DEF q, r, l
    <3>6. \A i \in DOMAIN r : i \in DOMAIN q \/ i = l BY <3>1 DEF l
    <3>7. k = l /\ r[k].n = seq BY <1>4, <3>1, <3>2, <3>6
    <3>8. \A i \in DOMAIN r : i < k => i \in DOMAIN q BY <3>1, <3>6, <3>7 DEF l
    <3>9. \A i \in DOMAIN r : ~(i > k) BY <3>1, <3>7 DEF l
    <3>10. \A m \in (seq + 1)..seq : FALSE BY <1>3
    <3> QED BY <3>1, <3>2, <3>3, <3>5, <3>7, <3>8, <3>9, <3>10
  <2> QED BY <1>6, <2>1, <2>2
<1>12. ClientInv(p)' BY <1>1, <1>8, <1>9, <1>10, <1>11 DEF ClientInv, PageInv
<1>13. "answered" \in Statuses BY DEF Statuses
<1> QED BY <1>1, <1>2, <1>3, <1>6, <1>12, <1>13, OneClient

\* A terminal's subscription is answered.
LEMMA HydratedKeeps ==
  ASSUME ReaderInv, NEW u \in Terminals, Hydrated(u)
  PROVE  ReaderInv'
<1> DEFINE f == Ack(term[u].from, ~term[u].gap)
           X == Enqueued(u, <<f>>)
<1>1. /\ StateInv /\ ClientInv(u) /\ u \in Clients /\ u \notin Pages
      /\ Registered(u) /\ FramesInOrder(u) /\ TerminalOrder(u) /\ TerminalGets(u)
  BY ConstantsAssumption DEF ReaderInv, Clients, ClientInv
<1>2. /\ st[u] = "hydrate" /\ conn[u].pc = "open" /\ conn' = [conn EXCEPT ![u] = X]
      /\ st' = [st EXCEPT ![u] = "answered"]
      /\ UNCHANGED <<registry, subs, run, page, term>>
  BY DEF Hydrated
<1>3. /\ page \in [Pages -> PageType] /\ term \in [Terminals -> TermType]
      /\ subs \subseteq Clients /\ seq \in Nat /\ run \in [Pages -> CountedRuns]
  BY <1>1 DEF StateInv
<1>4. /\ f \in Frame /\ f.n = term[u].from /\ ~IsEvent(f) /\ <<f>> \in Seq(Frame)
      /\ f.n <= seq
  BY <1>1, <1>3 DEF Ack, Frame, IsEvent, TermType, TerminalOrder
<1>5. conn[u] \in Conn /\ Len(conn[u].out) <= QueueSize BY <1>1 DEF StateInv
<1> HIDE DEF f
<1>6. /\ X \in Conn /\ Len(X.out) <= QueueSize
      /\ (X.pc # "open" /\ X.out = <<>>) \/ (X.pc = "open" /\ X.out = conn[u].out \o <<f>>)
  BY <1>2, <1>4, <1>5, EnqueuedCases
<1> HIDE DEF X
<1>7. conn'[u] = X /\ st'[u] = "answered" BY <1>1, <1>2 DEF StateInv
<1>8. Registered(u)' BY <1>1, <1>2, <1>6, <1>7 DEF Registered
<1>9. Seen(u)' = Seen(u) /\ Owed(u)' = Owed(u) BY <1>2 DEF Seen, Owed, registry
<1>10. FramesInOrder(u)' /\ TerminalOrder(u)' /\ TerminalGets(u)'
  <2>1. CASE X.pc # "open" /\ X.out = <<>>
    <3>1. UNCHANGED <<seq, async, term>> BY <1>2 DEF registry
    <3> QED
      BY <1>1, <1>2, <1>7, <1>9, <2>1, <3>1 DEF FramesInOrder, TerminalOrder, TerminalGets
  <2>2. CASE X.out = conn[u].out \o <<f>>
    <3>1. /\ FramesInOrder(u)' /\ Queued(u)' = Queued(u) /\ Len(conn[u].out) \in Nat
          /\ conn'[u].out[Len(conn[u].out) + 1] = f
          /\ DOMAIN conn[u].out = 1..Len(conn[u].out)
          /\ DOMAIN conn'[u].out = 1..Len(conn[u].out) + 1
          /\ \A i \in DOMAIN conn[u].out : conn'[u].out[i] = conn[u].out[i]
      <4>1. conn'[u].out = conn[u].out \o <<f>> BY <1>7, <2>2
      <4> QED BY <1>1, <1>2, <1>4, <4>1, AnswerQueued
    <3>2. UNCHANGED <<seq, async, late, term>> BY <1>2 DEF registry
    <3>3. \A i \in DOMAIN conn'[u].out :
            IsEvent(conn'[u].out[i]) =>
              i \in DOMAIN conn[u].out /\ conn'[u].out[i] = conn[u].out[i]
      BY <1>4, <3>1
    <3>4. TerminalOrder(u)' BY <1>1, <1>2, <1>7, <1>9, <3>2, <3>3 DEF TerminalOrder
    <3>5. TerminalGets(u)' BY <1>1, <1>2, <1>7, <1>9, <3>1, <3>2 DEF TerminalGets
    <3> QED BY <3>1, <3>4, <3>5
  <2> QED BY <1>6, <2>1, <2>2
<1>11. ClientInv(u)' BY <1>1, <1>8, <1>10 DEF ClientInv
<1>12. "answered" \in Statuses BY DEF Statuses
<1> QED BY <1>1, <1>2, <1>3, <1>6, <1>11, <1>12, OneClient

\* What a registered client is sent at first.
LEMMA ReplayQueued ==
  ASSUME StateInv, RegistryInv, NEW c \in Clients, UNCHANGED registry,
         NEW fs \in Seq(Frame), conn'[c].out = fs,
         \A i \in DOMAIN fs : fs[i].n <= seq,
         \A i, j \in DOMAIN fs : (i < j /\ IsEvent(fs[i]) /\ IsEvent(fs[j])) => fs[i].n < fs[j].n
  PROVE  FramesInOrder(c)'
BY DEF FramesInOrder, registry

\* A terminal is registered and replayed from its bootstrap cursor.
LEMMA SubscribeTerminalKeeps ==
  ASSUME ReaderInv, RegistryInv, ReplayHonest, NEW u \in Terminals, SubscribeTerminal(u)
  PROVE  ReaderInv'
<1> DEFINE t == term[u]
           fs == Replay(t.cursor)
           X == Enqueued(u, fs)
           incomplete == ~Complete(t.cursor)
           T == [t EXCEPT !.gap = incomplete, !.from = seq]
<1>1. /\ StateInv /\ ClientInv(u) /\ u \in Clients /\ u \notin Pages
      /\ Registered(u) /\ FramesInOrder(u) /\ TerminalOrder(u) /\ TerminalGets(u)
  BY ConstantsAssumption DEF ReaderInv, Clients, ClientInv
<1>2. /\ st[u] = "subscribe" /\ conn[u].pc = "open" /\ conn' = [conn EXCEPT ![u] = X]
      /\ st' = [st EXCEPT ![u] = "hydrate"] /\ UNCHANGED <<registry, run, page>>
      /\ subs' = subs \cup {u}
      /\ term' = [term EXCEPT ![u].gap = incomplete, ![u].from = seq]
  BY DEF SubscribeTerminal
<1>3. /\ page \in [Pages -> PageType] /\ term \in [Terminals -> TermType]
      /\ subs \subseteq Clients /\ seq \in Nat /\ t \in TermType /\ t.cursor \in Nat
      /\ t.cursor <= seq /\ run \in [Pages -> CountedRuns]
  BY <1>1 DEF StateInv, TermType, TerminalOrder
<1>4. /\ T \in TermType /\ T.cursor = t.cursor /\ T.from = seq /\ T.queue = t.queue
      /\ T.pending = t.pending /\ T.gap = incomplete
  <2>1. ASSUME NEW v \in TermType, NEW b \in BOOLEAN
        PROVE  LET w == [v EXCEPT !.gap = b, !.from = seq]
               IN  /\ w \in TermType /\ w.cursor = v.cursor /\ w.from = seq /\ w.queue = v.queue
                   /\ w.pending = v.pending /\ w.gap = b
    BY <1>3 DEF TermType
  <2> HIDE DEF t
  <2>2. incomplete = TRUE \/ incomplete = FALSE BY Zenon
  <2> HIDE DEF incomplete
  <2>3. incomplete \in BOOLEAN BY <2>2
  <2> QED BY <1>3, <2>1, <2>3, Zenon
<1>5. /\ term' \in [Terminals -> TermType] /\ term'[u] = T
      /\ \A d \in Terminals \ {u} : term'[d] = term[d]
  <2>1. term' = [term EXCEPT ![u] = T] BY <1>2, <1>3
  <2> HIDE DEF T
  <2> QED BY <1>3, <1>4, <2>1
<1>6. /\ fs \in Seq(Frame)
      /\ \A i \in DOMAIN fs : IsEvent(fs[i]) /\ fs[i].n \in After(t.cursor)
      /\ \A i, j \in DOMAIN fs : i < j => fs[i].n < fs[j].n
      /\ \A n \in After(t.cursor) : \E i \in DOMAIN fs : fs[i].n = n
  BY <1>3, ReplayFrames DEF RegistryInv
<1>7. \A n \in After(t.cursor) : n \in buf /\ n > t.cursor /\ n <= seq
  <2>1. buf \subseteq 1..seq BY DEF RegistryInv
  <2> HIDE DEF t
  <2> QED BY <1>3, <2>1 DEF After
<1>8. conn[u] \in Conn /\ Len(conn[u].out) <= QueueSize BY <1>1 DEF StateInv
<1> HIDE DEF fs
<1>9. conn[u].out = <<>> BY <1>1, <1>2 DEF Registered
<1>10. /\ X \in Conn /\ Len(X.out) <= QueueSize
       /\ (X.pc # "open" /\ X.out = <<>>) \/ (X.pc = "open" /\ X.out = fs)
  <2>1. <<>> \o fs = fs BY <1>6, ConcatEmptySeq
  <2>2. conn[u].pc # "open" => conn[u].out = <<>> BY <1>9
  <2>3. fs \in Seq(Frame) BY <1>6
  <2> HIDE DEF t, T
  <2> QED BY <1>1, <1>2, <1>8, <1>9, <2>1, <2>2, <2>3, EnqueuedCases
<1> HIDE DEF X, T
<1>11. conn'[u] = X /\ st'[u] = "hydrate" BY <1>1, <1>2 DEF StateInv
<1>12. Registered(u)' BY <1>1, <1>2, <1>10, <1>11 DEF Registered
<1>13. FramesInOrder(u)'
  <2>1. CASE X.out = <<>> BY <1>11, <2>1 DEF FramesInOrder
  <2>2. CASE X.out = fs BY <1>1, <1>2, <1>6, <1>7, <1>11, <2>2, ReplayQueued
  <2> QED BY <1>10, <2>1, <2>2
<1>14. t.queue = <<>> /\ t.pending = {} BY <1>1, <1>2 DEF TerminalOrder
<1>15. Seen(u)' = {} BY <1>4, <1>5, <1>14 DEF Seen, ToSet
<1>16. UNCHANGED <<seq, async, lossy, late>> BY <1>2 DEF registry
<1>17. TerminalOrder(u)'
  BY <1>3, <1>4, <1>5, <1>11, <1>14, <1>15, <1>16 DEF TerminalOrder
<1>18. TerminalGets(u)'
  <2> SUFFICES ASSUME X.pc = "open", Complete(t.cursor), NEW n \in Owed(u)'
               PROVE  n \in Queued(u)'
    BY <1>4, <1>5, <1>11 DEF TerminalGets
  <2>1. n \in (t.cursor + 1)..seq /\ (n > seq \/ n \notin lossy)
    BY <1>4, <1>5, <1>16 DEF Owed
  <2>2. n \in buf
    <3>1. t.cursor \in 0..seq BY <1>3
    <3>2. n \in ((t.cursor + 1)..seq) \ lossy BY <1>3, <2>1
    <3> HIDE DEF t
    <3> QED BY <3>1, <3>2 DEF ReplayHonest
  <2>3. n \in After(t.cursor) BY <1>3, <2>1, <2>2 DEF After
  <2>4. PICK i \in DOMAIN fs : fs[i].n = n BY <1>6, <2>3
  <2>5. conn'[u].out = fs BY <1>10, <1>11
  <2> QED BY <1>6, <2>4, <2>5 DEF Queued, IsEvent
<1>19. ClientInv(u)' BY <1>1, <1>12, <1>13, <1>17, <1>18 DEF ClientInv
<1>20. "hydrate" \in Statuses BY DEF Statuses
<1>21. subs' \subseteq Clients /\ \A d \in Clients \ {u} : d \in subs' <=> d \in subs
  BY <1>1, <1>2, <1>3
<1> QED BY <1>1, <1>2, <1>3, <1>5, <1>10, <1>19, <1>20, <1>21, OneClient

\* A page is registered, replayed from its cursor, and answered.
LEMMA SubscribePageKeeps ==
  ASSUME ReaderInv, RegistryInv, ReplayHonest, NEW p \in Pages, SubscribePage(p)
  PROVE  ReaderInv'
<1> DEFINE v == page[p]
           since == v.last
           known == v.gen \in {0, gen}
           whole == known /\ Complete(since)
           rp == IF known THEN Replay(since) ELSE <<>>
           f == Ack(seq, whole)
           fs == rp \o <<f>>
           X == Enqueued(p, fs)
           g == IF ~whole THEN seq ELSE IF v.gen = gen THEN v.gap ELSE 0
           w == [v EXCEPT !.from = seq, !.gap = g]
           to == IF run[p].skip THEN "answered" ELSE "snapshot"
<1>1. /\ StateInv /\ ClientInv(p) /\ p \in Clients /\ p \notin Terminals
      /\ Registered(p) /\ FramesInOrder(p) /\ PageCursor(p)
  BY ConstantsAssumption DEF ReaderInv, Clients, ClientInv, PageInv
<1>2. /\ st[p] = "subscribe" /\ conn[p].pc = "open" /\ conn' = [conn EXCEPT ![p] = X]
      /\ st' = [st EXCEPT ![p] = to] /\ UNCHANGED <<registry, run, term>>
      /\ subs' = subs \cup {p}
      /\ page' = [page EXCEPT ![p].from = seq, ![p].gap = IF ~whole THEN seq
                                           ELSE IF page[p].gen = gen THEN @ ELSE 0]
  BY DEF SubscribePage
<1>3. /\ page \in [Pages -> PageType] /\ term \in [Terminals -> TermType]
      /\ subs \subseteq Clients /\ seq \in Nat /\ seq \in 0..MaxSeq /\ MaxSeq \in Nat
      /\ run \in [Pages -> CountedRuns] /\ gen \in 1..MaxGen /\ gen \in Nat /\ gen # 0
  BY <1>1, ConstantsAssumption DEF StateInv
<1>4. /\ v \in PageType /\ v.base \in Nat /\ v.ack \in Nat /\ v.gap \in 0..MaxSeq
      /\ v.gap \in Nat /\ since \in Nat
  BY <1>3 DEF PageType
<1>5. page' = [page EXCEPT ![p] = w]
  <2> HIDE DEF whole
  <2> QED BY <1>2, <1>3
<1>6. g \in 0..MaxSeq
  <2> HIDE DEF whole, v
  <2> QED BY <1>3, <1>4
<1>7. /\ w \in PageType /\ w.gen = v.gen /\ w.last = v.last /\ w.base = v.base
      /\ w.got = v.got /\ w.ack = v.ack /\ w.from = seq /\ w.gap = g
  <2> HIDE DEF v, g
  <2> QED BY <1>3, <1>4, <1>6 DEF PageType
<1>8. /\ Replay(since) \in Seq(Frame)
      /\ \A i \in DOMAIN Replay(since) :
           IsEvent(Replay(since)[i]) /\ Replay(since)[i].n \in After(since)
      /\ \A i, j \in DOMAIN Replay(since) :
           i < j => Replay(since)[i].n < Replay(since)[j].n
      /\ \A n \in After(since) : \E i \in DOMAIN Replay(since) : Replay(since)[i].n = n
  BY <1>3, <1>4, ReplayFrames DEF RegistryInv
<1>9. \A n \in After(since) : n \in Nat /\ n <= seq /\ n > since
  BY <1>3 DEF After, RegistryInv
<1>10. known => since = Cursor(p)
  BY <1>1, <1>3 DEF PageCursor, Cursor
<1> HIDE DEF w, g
<1>11. f \in Frame /\ f.n = seq /\ ~IsEvent(f) /\ f.type = "ack"
  <2>1. whole \in BOOLEAN
    <3> DEFINE a == known
               b == Complete(since)
    <3>1. a \in BOOLEAN OBVIOUS
    <3>2. whole = (a /\ b) OBVIOUS
    <3> HIDE DEF a, b, whole
    <3> QED BY <3>2
  <2> HIDE DEF whole
  <2> QED BY <1>3, <2>1 DEF Ack, Frame, IsEvent
<1>12. /\ rp \in Seq(Frame)
       /\ \A i \in DOMAIN rp :
            IsEvent(rp[i]) /\ rp[i].n \in Nat /\ rp[i].n <= seq /\ rp[i].n > Cursor(p)
       /\ \A i, j \in DOMAIN rp : i < j => rp[i].n < rp[j].n
       /\ known => \A n \in After(since) : \E i \in DOMAIN rp : rp[i].n = n
  <2>1. CASE known
    <3>1. rp = Replay(since) BY <2>1
    <3> HIDE DEF rp, v, known
    <3> QED BY <1>8, <1>9, <1>10, <2>1, <3>1
  <2>2. CASE ~known BY <2>2
  <2> QED BY <2>1, <2>2
<1> HIDE DEF rp, f
<1>13. /\ fs \in Seq(Frame)
       /\ \A i \in DOMAIN fs : fs[i].n <= seq /\ fs[i].type # "snapshot"
       /\ \A i \in DOMAIN fs : IsEvent(fs[i]) =>
            /\ fs[i].n > Cursor(p)
            /\ \A k \in DOMAIN fs : k < i => fs[k].type # "ack"
       /\ \A i, j \in DOMAIN fs : (i < j /\ IsEvent(fs[i]) /\ IsEvent(fs[j])) => fs[i].n < fs[j].n
       /\ \A i \in DOMAIN rp : i \in DOMAIN fs /\ fs[i] = rp[i]
  <2>1. /\ fs \in Seq(Frame) /\ Len(rp) \in Nat
        /\ DOMAIN rp = 1..Len(rp) /\ DOMAIN fs = 1..Len(rp) + 1
        /\ fs[Len(rp) + 1] = f /\ \A i \in DOMAIN rp : fs[i] = rp[i]
    BY <1>11, <1>12, OneMore
  <2>2. \A i \in DOMAIN fs : i \in DOMAIN rp \/ fs[i] = f BY <2>1
  <2> HIDE DEF fs
  <2>3. \A i \in DOMAIN fs : fs[i].n <= seq /\ fs[i].type # "snapshot"
    BY <1>3, <1>11, <1>12, <2>1, <2>2 DEF IsEvent
  <2>4. \A i \in DOMAIN fs : IsEvent(fs[i]) => i \in DOMAIN rp /\ fs[i] = rp[i]
    BY <1>11, <2>1, <2>2
  <2>5. ASSUME NEW i \in DOMAIN rp, NEW k \in DOMAIN fs, k < i PROVE fs[k].type # "ack"
    <3>1. k \in DOMAIN rp BY <2>1, <2>5
    <3> QED BY <1>12, <2>1, <3>1 DEF IsEvent
  <2>6. \A i \in DOMAIN rp : i \in DOMAIN fs BY <2>1
  <2> QED BY <1>12, <2>1, <2>3, <2>4, <2>5, <2>6
<1>14. conn[p] \in Conn /\ Len(conn[p].out) <= QueueSize BY <1>1 DEF StateInv
<1> HIDE DEF fs
<1>15. conn[p].out = <<>> BY <1>1, <1>2 DEF Registered
<1>16. /\ X \in Conn /\ Len(X.out) <= QueueSize
       /\ (X.pc # "open" /\ X.out = <<>>) \/ (X.pc = "open" /\ X.out = fs)
  <2>1. <<>> \o fs = fs BY <1>13, ConcatEmptySeq
  <2> QED BY <1>2, <1>13, <1>14, <1>15, <2>1, EnqueuedCases
<1> HIDE DEF X, v, known, whole
<1>17. /\ conn'[p] = X /\ st'[p] = to /\ to \in {"snapshot", "answered"} /\ to \in Statuses
       /\ page'[p] = w /\ p \in subs'
  BY <1>1, <1>2, <1>3, <1>5 DEF StateInv, Statuses
<1> HIDE DEF to
<1>18. UNCHANGED <<gen, seq, async, lossy>> BY <1>2 DEF registry
<1>19. Registered(p)' BY <1>1, <1>2, <1>16, <1>17 DEF Registered
<1>20. Got(p)' = Got(p) /\ Base(p)' = Base(p) /\ Cursor(p)' = Cursor(p)
  BY <1>7, <1>17, <1>18 DEF Got, Base, Cursor, v
<1>21. FramesInOrder(p)' /\ PageSnapshot(p)' /\ PageOrder(p)'
  <2>1. CASE X.out = <<>> BY <1>17, <2>1 DEF FramesInOrder, PageSnapshot, PageOrder
  <2>2. CASE X.out = fs
    <3>1. FramesInOrder(p)' BY <1>1, <1>2, <1>13, <1>17, <2>2, ReplayQueued
    <3>2. PageSnapshot(p)' BY <1>13, <1>17, <2>2 DEF PageSnapshot
    <3>3. PageOrder(p)' BY <1>13, <1>17, <1>20, <2>2 DEF PageOrder
    <3> QED BY <3>1, <3>2, <3>3
  <2> QED BY <1>16, <2>1, <2>2
<1>22. PageCursor(p)'
  <2> SUFFICES ASSUME v.gen = gen, NEW n \in (v.base + 1)..v.last
               PROVE  n \in async \cup v.got \cup lossy \/ n <= g
    BY <1>1, <1>7, <1>17, <1>18 DEF PageCursor, v
  <2>1. n \in async \cup v.got \cup lossy \/ n <= v.gap BY <1>1 DEF PageCursor, v
  <2>2. n \in Nat /\ n <= seq BY <1>1, <1>3, <1>4 DEF PageCursor, v
  <2> QED BY <2>1, <2>2 DEF g
<1>23. PageLive(p)' BY <1>17 DEF PageLive
<1>24. PageGets(p)'
  <2> SUFFICES ASSUME X.pc = "open", NEW n \in (Base(p) + 1)..seq
               PROVE  n \in async \cup Got(p) \cup Queued(p)' \/ n <= g \/ n \in lossy
    BY <1>3, <1>4, <1>7, <1>17, <1>18, <1>20 DEF PageGets, Passed, Base, v
  <2>0. n \in Nat /\ n >= 1 /\ n <= seq /\ n > Base(p) BY <1>3, <1>4 DEF Base, v
  <2>1. CASE ~whole BY <2>0, <2>1 DEF g
  <2>2. CASE whole /\ n <= Cursor(p)
    <3>1. v.gen = gen /\ n \in (v.base + 1)..v.last BY <1>4, <2>0, <2>2 DEF Cursor, Base, v
    <3>2. n \in async \cup v.got \cup lossy \/ n <= v.gap BY <1>1, <3>1 DEF PageCursor, v
    <3>3. g = v.gap /\ Got(p) = v.got BY <2>2, <3>1 DEF g, Got, v
    <3> QED BY <3>2, <3>3
  <2>3. CASE whole /\ ~(n <= Cursor(p)) /\ n \notin lossy
    <3>1. known /\ Complete(since) /\ since = Cursor(p) BY <1>10, <2>3 DEF whole
    <3>2. since \in 0..seq /\ n > since BY <1>3, <1>4, <2>0, <2>3, <3>1
    <3>3. n \in buf BY <1>3, <2>0, <2>3, <3>1, <3>2 DEF ReplayHonest
    <3>4. n \in After(since) BY <3>2, <3>3 DEF After
    <3>5. PICK i \in DOMAIN rp : rp[i].n = n BY <1>12, <3>1, <3>4
    <3>6. conn'[p].out = fs BY <1>16, <1>17
    <3> QED BY <1>12, <1>13, <3>5, <3>6 DEF Queued, IsEvent
  <2> QED BY <2>1, <2>2, <2>3
<1>25. ClientInv(p)' BY <1>1, <1>19, <1>21, <1>22, <1>23, <1>24 DEF ClientInv, PageInv
<1>26. /\ subs' \subseteq Clients /\ \A d \in Clients \ {p} : d \in subs' <=> d \in subs
       /\ page' \in [Pages -> PageType] /\ \A d \in Pages \ {p} : page'[d] = page[d]
       /\ run' = run /\ term' = term /\ UNCHANGED registry
  BY <1>1, <1>2, <1>3, <1>5, <1>7
<1> QED BY <1>1, <1>2, <1>3, <1>16, <1>17, <1>25, <1>26, OneClient

----------------------------------------------------------------------------
(* Frames arrive *)

\* The first frame is sent: the others move up.
LEMMA HeadGone ==
  ASSUME StateInv, NEW c \in Clients, ClientInv(c), UNCHANGED registry,
         conn[c].out # <<>>, conn'[c].out = Tail(conn[c].out)
  PROVE  /\ conn[c].out \in Seq(Frame) /\ conn'[c].out \in Seq(Frame)
         /\ Len(conn'[c].out) <= QueueSize
         /\ Head(conn[c].out) = conn[c].out[1] /\ 1 \in DOMAIN conn[c].out
         /\ \A i \in DOMAIN conn'[c].out :
              /\ conn'[c].out[i] = conn[c].out[i + 1]
              /\ i + 1 \in DOMAIN conn[c].out /\ i + 1 > 1 /\ i \in Nat
         /\ \A j \in DOMAIN conn[c].out :
              j = 1 \/ (j - 1 \in DOMAIN conn'[c].out /\ conn'[c].out[j - 1] = conn[c].out[j])
         /\ FramesInOrder(c)'
         /\ \A m \in Queued(c) :
              m \in Queued(c)' \/ (IsEvent(conn[c].out[1]) /\ conn[c].out[1].n = m)
<1> DEFINE q == conn[c].out
           r == conn'[c].out
<1>1. q \in Seq(Frame) /\ Len(q) <= QueueSize BY DEF StateInv, Conn
<1>2. /\ r \in Seq(Frame) /\ Head(q) = q[1] /\ 1 \in DOMAIN q
      /\ Len(r) \in Nat /\ Len(q) = Len(r) + 1
      /\ \A i \in DOMAIN r : r[i] = q[i + 1] /\ i + 1 \in DOMAIN q /\ i + 1 > 1
      /\ \A j \in DOMAIN q : j = 1 \/ (j - 1 \in DOMAIN r /\ r[j - 1] = q[j])
  BY <1>1, OneLess
<1>3. \A i \in DOMAIN r : i \in Nat
  <2> HIDE DEF r, q
  <2> QED BY <1>2
<1>4. Len(r) <= QueueSize
  <2> HIDE DEF r, q
  <2> QED BY <1>1, <1>2, ConstantsAssumption
<1>5. FramesInOrder(c)'
  <2>1. \A i \in DOMAIN q :
          /\ q[i].n <= seq
          /\ \A j \in DOMAIN q : (i < j /\ IsEvent(q[i]) /\ IsEvent(q[j])) =>
                                   q[j].n \in async \/ q[i].n < q[j].n
    BY DEF ClientInv, FramesInOrder
  <2> SUFFICES \A i \in DOMAIN r :
          /\ r[i].n <= seq
          /\ \A j \in DOMAIN r : (i < j /\ IsEvent(r[i]) /\ IsEvent(r[j])) =>
                                   r[j].n \in async \/ r[i].n < r[j].n
    BY DEF FramesInOrder, registry
  <2> HIDE DEF q, r
  <2>2. ASSUME NEW i \in DOMAIN r, NEW j \in DOMAIN r, i < j PROVE i + 1 < j + 1
    BY <1>3, <2>2
  <2> QED BY <1>2, <2>1, <2>2
<1>6. \A m \in Queued(c) : m \in Queued(c)' \/ (IsEvent(q[1]) /\ q[1].n = m)
  <2>1. /\ Queued(c) = {q[i].n : i \in {j \in DOMAIN q : q[j].type = "event"}}
        /\ Queued(c)' = {r[i].n : i \in {j \in DOMAIN r : r[j].type = "event"}}
    BY DEF Queued
  <2> HIDE DEF q, r
  <2> SUFFICES ASSUME NEW j \in DOMAIN q, IsEvent(q[j])
               PROVE  q[j].n \in Queued(c)' \/ (IsEvent(q[1]) /\ q[1].n = q[j].n)
    BY <2>1 DEF IsEvent
  <2> QED BY <1>2, <2>1 DEF IsEvent
<1> QED BY <1>1, <1>2, <1>3, <1>4, <1>5, <1>6

\* What a page knows of the stream when a frame reaches it.
LEMMA ObservedPage ==
  ASSUME StateInv, NEW p \in Pages, PageCursor(p), NEW o, o = Observed(page[p])
  PROVE  /\ o \in PageType /\ o.gen = gen /\ o.last = Cursor(p) /\ o.base = Base(p) /\ o.got = Got(p)
         /\ o.acked = page[p].acked /\ o.ack = page[p].ack
         /\ o.from = page[p].from /\ o.gap = page[p].gap
<1> DEFINE v == page[p]
<1>1. /\ v \in PageType /\ gen \in 0..MaxGen /\ gen # 0 /\ 0 \in 0..MaxSeq /\ {} \in SUBSET Nat
  BY ConstantsAssumption DEF StateInv
<1>2. v.gen = 0 => v.last = 0 /\ v.base = 0 /\ v.got = {} BY DEF PageCursor
<1>3. /\ Cursor(p) = IF v.gen = gen THEN v.last ELSE 0
      /\ Base(p) = IF v.gen = gen THEN v.base ELSE 0
      /\ Got(p) = IF v.gen = gen THEN v.got ELSE {}
  BY DEF Cursor, Base, Got
<1>4. o = Observed(v) OBVIOUS
<1> HIDE DEF v
<1>5. CASE v.gen \in {0, gen}
  <2>1. o = [v EXCEPT !.gen = gen] BY <1>4, <1>5 DEF Observed
  <2>2. /\ o \in PageType /\ o.gen = gen /\ o.last = v.last /\ o.base = v.base /\ o.got = v.got
        /\ o.acked = v.acked /\ o.ack = v.ack /\ o.from = v.from /\ o.gap = v.gap
    BY <1>1, <2>1 DEF PageType
  <2> QED BY <1>1, <1>2, <1>3, <1>5, <2>2 DEF v
<1>6. CASE v.gen \notin {0, gen}
  <2>1. o = [v EXCEPT !.gen = gen, !.last = 0, !.base = 0, !.got = {}]
    BY <1>4, <1>6 DEF Observed
  <2>2. /\ o \in PageType /\ o.gen = gen /\ o.last = 0 /\ o.base = 0 /\ o.got = {}
        /\ o.acked = v.acked /\ o.ack = v.ack /\ o.from = v.from /\ o.gap = v.gap
    BY <1>1, <2>1 DEF PageType
  <2> QED BY <1>3, <1>6, <2>2 DEF v
<1> QED BY <1>5, <1>6

\* A page handles an event or the answer to its subscription: its cursor stays,
\* or moves to that frame, and what is behind it is newer, or was recorded ahead.
LEMMA PageMoves ==
  ASSUME StateInv, NEW p \in Pages, p \in Clients, ClientInv(p), UNCHANGED registry,
         conn[p].pc = "open", conn[p].out # <<>>, conn'[p].out = Tail(conn[p].out),
         p \in subs, st'[p] \in {st[p], "live"}, NEW n, n = Head(conn[p].out).n,
         Head(conn[p].out).type # "snapshot",
         page'[p] \in PageType, page'[p].gen = gen, page'[p].base = Base(p),
         Got(p) \subseteq page'[p].got, page'[p].ack \in {page[p].ack, n, 0},
         page'[p].from = page[p].from, page'[p].gap = page[p].gap,
         page'[p].last = Cursor(p) \/ (page'[p].last = n /\ n > Cursor(p)),
         IsEvent(Head(conn[p].out)) => n \in page'[p].got \/ ~(n > Cursor(p))
  PROVE  PageInv(p)'
<1> DEFINE q == conn[p].out
           r == conn'[p].out
           v == page[p]
           w == page'[p]
           L == Cursor(p)
<1>1. /\ q \in Seq(Frame) /\ Head(q) = q[1] /\ 1 \in DOMAIN q /\ n = q[1].n
      /\ \A i \in DOMAIN r : r[i] = q[i + 1] /\ i + 1 \in DOMAIN q /\ i + 1 > 1 /\ i \in Nat
      /\ \A j \in DOMAIN q : j = 1 \/ (j - 1 \in DOMAIN r /\ r[j - 1] = q[j])
      /\ \A m \in Queued(p) : m \in Queued(p)' \/ (IsEvent(q[1]) /\ q[1].n = m)
  BY HeadGone
<1>2. /\ v \in PageType /\ seq \in 0..MaxSeq /\ MaxSeq \in Nat /\ seq \in Nat
      /\ PageCursor(p) /\ PageOrder(p) /\ PageGets(p) /\ PageSnapshot(p) /\ FramesInOrder(p)
  BY ConstantsAssumption DEF StateInv, ClientInv, PageInv
<1>3. UNCHANGED <<gen, seq, async, lossy>> BY DEF registry
<1>4. \A i \in DOMAIN q : q[i].n \in Nat /\ q[i].n <= seq /\ i \in Nat
                           /\ q[i].type \in {"event", "ack", "snapshot"}
  <2>1. \A i \in DOMAIN q : q[i] \in Frame /\ i \in Nat BY <1>1
  <2> QED BY <1>2, <2>1 DEF Frame, FramesInOrder
<1>5. /\ v.ack \in Nat /\ v.base \in Nat /\ v.last \in Nat /\ v.ack <= seq
      /\ v.gen = gen => v.last <= seq
      /\ L \in Nat /\ Base(p) \in Nat /\ L <= seq
  BY <1>2 DEF PageType, PageCursor, Cursor, Base
<1>6. n \in Nat /\ n <= seq BY <1>1, <1>4
<1>7. Cursor(p)' = w.last /\ Got(p)' = w.got /\ Base(p)' = Base(p)
  BY <1>3 DEF Cursor, Got, Base
<1>8. \A i \in DOMAIN q : IsEvent(q[i]) =>
        /\ q[i].n \in async \/ q[i].n > L
        /\ \A k \in DOMAIN q : k < i /\ q[k].type = "ack" => q[i].n \in async \/ q[i].n > q[k].n
  BY <1>2 DEF PageOrder
<1>9. \A i \in DOMAIN q : (1 < i /\ IsEvent(q[i])) => q[i].n \in async \/ q[i].n > n
  <2>1. \A j \in DOMAIN q : (1 < j /\ IsEvent(q[1]) /\ IsEvent(q[j])) =>
                              q[j].n \in async \/ q[1].n < q[j].n
    BY <1>1, <1>2 DEF FramesInOrder
  <2>2. IsEvent(q[1]) \/ q[1].type = "ack" BY <1>1, <1>4 DEF IsEvent
  <2> HIDE DEF q
  <2> QED BY <1>1, <1>4, <1>8, <2>1, <2>2
<1>10. \A m \in (Base(p) + 1)..seq :
         m \in async \cup Got(p) \cup Queued(p) \/ m <= v.gap \/ (m \in lossy /\ m <= v.from)
  BY <1>2 DEF PageGets, Passed
<1> HIDE DEF q, r, w, v, L
<1>11. PageOrder(p)'
  <2> SUFFICES ASSUME NEW i \in DOMAIN r, IsEvent(r[i])
               PROVE  /\ r[i].n \in async \/ r[i].n > w.last
                      /\ \A k \in DOMAIN r : k < i /\ r[k].type = "ack" =>
                           r[i].n \in async \/ r[i].n > r[k].n
    BY <1>3, <1>7 DEF PageOrder, r
  <2>1. r[i] = q[i + 1] /\ i + 1 \in DOMAIN q /\ 1 < i + 1 BY <1>1
  <2>2. r[i].n \in async \/ (r[i].n > L /\ r[i].n > n) BY <1>8, <1>9, <2>1
  <2>3. w.last = L \/ w.last = n BY DEF w, L
  <2>4. ASSUME NEW k \in DOMAIN r, k < i, r[k].type = "ack"
        PROVE  r[i].n \in async \/ r[i].n > r[k].n
    <3>1. k + 1 \in DOMAIN q /\ k + 1 < i + 1 /\ r[k] = q[k + 1] BY <1>1, <2>4
    <3> QED BY <1>8, <2>1, <2>4, <3>1
  <2> QED BY <2>2, <2>3, <2>4
<1>12. ASSUME NEW m \in (Base(p) + 1)..seq
       PROVE  m \in async \cup w.got \cup Queued(p)' \/ m <= v.gap \/ (m \in lossy /\ m <= v.from)
  <2>1. CASE m \in Queued(p) /\ m \notin Queued(p)'
    <3>1. IsEvent(q[1]) /\ m = n BY <1>1, <2>1
    <3>2. n \in w.got \/ ~(n > L) BY <1>1, <3>1 DEF w, L, q
    <3>3. n \in async \/ n > L BY <1>1, <1>8, <3>1
    <3> QED BY <3>1, <3>2, <3>3
  <2>2. Got(p) \subseteq w.got BY DEF w
  <2> QED BY <1>10, <2>1, <2>2
<1>13. PageGets(p)'
  <2>1. w.gap = v.gap /\ w.from = v.from BY DEF w, v
  <2> QED BY <1>3, <1>7, <1>12, <2>1 DEF PageGets, Passed, w
<1>14. PageCursor(p)'
  <2>0. /\ w.gen = gen /\ w.base = Base(p) /\ w.gap = v.gap /\ Got(p) \subseteq w.got
        /\ w.ack \in {v.ack, n, 0} /\ w.last \in {L, n}
    BY DEF w, v, L
  <2>1. /\ w.gen = gen /\ w.base = Base(p) /\ w.gap = v.gap /\ w.ack <= seq /\ w.last <= seq
        /\ Got(p) \subseteq w.got /\ w.last \in Nat
    BY <1>2, <1>5, <1>6, <2>0
  <2> SUFFICES ASSUME NEW m \in (Base(p) + 1)..w.last
               PROVE  m \in async \cup w.got \cup lossy \/ m <= v.gap
    <3>1. gen # 0 /\ gen <= gen BY DEF StateInv
    <3> QED BY <1>3, <2>1, <3>1 DEF PageCursor, w
  <2>2. m \in Nat /\ m \in (Base(p) + 1)..seq /\ m >= 1 BY <1>2, <1>5, <2>1
  <2>3. CASE m <= L
    <3>1. v.gen = gen /\ m \in (v.base + 1)..v.last /\ Got(p) = v.got
      BY <1>5, <2>2, <2>3 DEF L, Cursor, Base, Got, v
    <3> QED BY <1>2, <2>1, <3>1 DEF PageCursor, v
  <2>4. CASE ~(m <= L)
    <3>1. w.last = n /\ m <= n BY <1>5, <2>1, <2>2, <2>4 DEF w, L
    <3>2. CASE m \in Queued(p)'
      <4>1. PICK i \in DOMAIN r : IsEvent(r[i]) /\ r[i].n = m BY <3>2 DEF Queued, IsEvent, r
      <4>2. r[i] = q[i + 1] /\ i + 1 \in DOMAIN q /\ 1 < i + 1 BY <1>1
      <4>3. m \in async \/ m > n BY <1>9, <4>1, <4>2
      <4> QED BY <1>6, <2>2, <3>1, <4>3
    <3> QED BY <1>12, <2>2, <3>2
  <2> QED BY <2>3, <2>4, <1>5, <2>2
<1>15. PageSnapshot(p)'
  <2> SUFFICES ASSUME NEW k \in DOMAIN r, r[k].type = "snapshot"
               PROVE  /\ st'[p] \in {"answered", "live"} /\ w.ack <= r[k].n
                      /\ w.last <= r[k].n
                      /\ \A i \in DOMAIN r :
                           /\ i < k => r[i].n <= r[k].n /\ r[i].type # "snapshot"
                           /\ i > k => /\ IsEvent(r[i])
                                       /\ r[i].n \in async \/ r[i].n > r[k].n
                      /\ \A m \in (r[k].n + 1)..seq : m \notin async =>
                           \E i \in DOMAIN r : i > k /\ IsEvent(r[i]) /\ r[i].n = m
    BY <1>3 DEF PageSnapshot, r, w
  <2>1. k \in Nat /\ r[k] = q[k + 1] /\ 1 < k + 1 /\ k + 1 \in DOMAIN q /\ q[k + 1].n \in Nat
    BY <1>1, <1>4
  <2>2. /\ st[p] \in {"answered", "live"} /\ v.ack <= q[k + 1].n
        /\ v.gen = gen => v.last <= q[k + 1].n
        /\ \A i \in DOMAIN q :
             /\ i < k + 1 => q[i].n <= q[k + 1].n /\ q[i].type # "snapshot"
             /\ i > k + 1 => IsEvent(q[i]) /\ (q[i].n \in async \/ q[i].n > q[k + 1].n)
        /\ \A m \in (q[k + 1].n + 1)..seq : m \notin async =>
             \E i \in DOMAIN q : i > k + 1 /\ IsEvent(q[i]) /\ q[i].n = m
    BY <1>2, <2>1 DEF PageSnapshot, q, v
  <2>3. n <= q[k + 1].n BY <1>1, <2>1, <2>2
  <2>4. L <= q[k + 1].n BY <2>1, <2>2 DEF L, Cursor, v
  <2>5. w.ack <= r[k].n /\ w.last <= r[k].n
    <3>1. w.ack \in {v.ack, n, 0} /\ (w.last = L \/ w.last = n) BY DEF w, v, L
    <3> QED BY <2>1, <2>2, <2>3, <2>4, <3>1
  <2>6. ASSUME NEW i \in DOMAIN r
        PROVE  /\ i < k => r[i].n <= r[k].n /\ r[i].type # "snapshot"
               /\ i > k => IsEvent(r[i]) /\ (r[i].n \in async \/ r[i].n > r[k].n)
    <3>1. i \in Nat /\ i + 1 \in DOMAIN q /\ r[i] = q[i + 1] BY <1>1
    <3>2. (i < k => i + 1 < k + 1) /\ (i > k => i + 1 > k + 1) BY <2>1, <3>1
    <3> QED BY <2>1, <2>2, <3>1, <3>2
  <2>7. ASSUME NEW m \in (r[k].n + 1)..seq, m \notin async
        PROVE  \E i \in DOMAIN r : i > k /\ IsEvent(r[i]) /\ r[i].n = m
    <3>1. PICK j \in DOMAIN q : j > k + 1 /\ IsEvent(q[j]) /\ q[j].n = m
      BY <2>1, <2>2, <2>7
    <3>2. j \in Nat /\ j # 1 /\ j - 1 > k BY <1>4, <2>1, <3>1
    <3> QED BY <1>1, <3>1, <3>2
  <2>8. st'[p] \in {"answered", "live"} BY <2>2
  <2> QED BY <2>5, <2>6, <2>7, <2>8
<1>16. PageLive(p)' BY <1>3 DEF PageLive
<1> QED BY <1>11, <1>13, <1>14, <1>15, <1>16 DEF PageInv

\* An event reaches a page (acceptStreamSeq).
LEMMA PageEventKeeps ==
  ASSUME StateInv, NEW p \in Pages, p \in Clients, ClientInv(p), UNCHANGED registry,
         conn[p].pc = "open", conn[p].out # <<>>, conn'[p].out = Tail(conn[p].out),
         p \in subs, st'[p] = st[p], IsEvent(Head(conn[p].out)),
         page'[p] = Accepted(page[p], Head(conn[p].out).n)
  PROVE  PageInv(p)' /\ page'[p] \in PageType
<1> DEFINE n == Head(conn[p].out).n
           o == Observed(page[p])
           w == page'[p]
<1>1. n \in 0..MaxSeq /\ n \in Nat
  <2>1. /\ Head(conn[p].out) = conn[p].out[1] /\ 1 \in DOMAIN conn[p].out
        /\ conn[p].out \in Seq(Frame)
    BY HeadGone
  <2>2. seq \in 0..MaxSeq /\ MaxSeq \in Nat /\ FramesInOrder(p)
    BY ConstantsAssumption DEF StateInv, ClientInv
  <2>3. conn[p].out[1].n <= seq BY <2>1, <2>2 DEF FramesInOrder
  <2>4. conn[p].out[1].n \in Nat BY <2>1, FrameNumbers
  <2> QED BY <2>1, <2>2, <2>3, <2>4
<1>2. /\ o \in PageType /\ o.gen = gen /\ o.last = Cursor(p) /\ o.base = Base(p) /\ o.got = Got(p)
      /\ o.ack = page[p].ack /\ o.from = page[p].from /\ o.gap = page[p].gap
  BY ObservedPage DEF ClientInv, PageInv
<1>3. w = IF n > o.last THEN [o EXCEPT !.last = n, !.got = @ \cup {n}] ELSE o BY DEF Accepted
<1> HIDE DEF o
<1>4. /\ w \in PageType /\ w.gen = gen /\ w.base = Base(p) /\ Got(p) \subseteq w.got
      /\ w.ack = page[p].ack /\ w.from = page[p].from /\ w.gap = page[p].gap
      /\ w.last = Cursor(p) \/ (w.last = n /\ n > Cursor(p))
      /\ n \in w.got \/ ~(n > Cursor(p))
  <2> HIDE DEF w, n
  <2>1. CASE n > o.last
    <3>1. w = [o EXCEPT !.last = n, !.got = @ \cup {n}] BY <1>3, <2>1
    <3> QED BY <1>1, <1>2, <2>1, <3>1 DEF PageType
  <2>2. CASE ~(n > o.last) BY <1>2, <1>3, <2>2
  <2> QED BY <2>1, <2>2
<1>5. Head(conn[p].out).type # "snapshot" BY DEF IsEvent
<1> HIDE DEF w
<1> QED BY <1>4, <1>5, PageMoves DEF w

\* The answer to a page's subscription reaches it: it is kept for the snapshot, or
\* it is all that was asked for (runSubscription).
LEMMA PageAckKeeps ==
  ASSUME StateInv, NEW p \in Pages, p \in Clients, ClientInv(p), UNCHANGED registry,
         conn[p].pc = "open", conn[p].out # <<>>, conn'[p].out = Tail(conn[p].out),
         p \in subs, st'[p] \in {st[p], "live"}, Head(conn[p].out).type = "ack",
         page'[p] \in {Held(page[p], Head(conn[p].out).n), SettledBare(page[p], Head(conn[p].out).n)}
  PROVE  PageInv(p)' /\ page'[p] \in PageType
<1> DEFINE n == Head(conn[p].out).n
           o == Observed(page[p])
           w == page'[p]
<1>1. n \in 0..MaxSeq /\ n \in Nat
  <2>1. /\ Head(conn[p].out) = conn[p].out[1] /\ 1 \in DOMAIN conn[p].out
        /\ conn[p].out \in Seq(Frame)
    BY HeadGone
  <2>2. seq \in 0..MaxSeq /\ MaxSeq \in Nat /\ FramesInOrder(p)
    BY ConstantsAssumption DEF StateInv, ClientInv
  <2>3. conn[p].out[1].n <= seq BY <2>1, <2>2 DEF FramesInOrder
  <2>4. conn[p].out[1].n \in Nat BY <2>1, FrameNumbers
  <2> QED BY <2>1, <2>2, <2>3, <2>4
<1>2. /\ o \in PageType /\ o.gen = gen /\ o.last = Cursor(p) /\ o.base = Base(p) /\ o.got = Got(p)
      /\ o.ack = page[p].ack /\ o.from = page[p].from /\ o.gap = page[p].gap
  BY ObservedPage DEF ClientInv, PageInv
<1>3. \/ w = [o EXCEPT !.acked = TRUE, !.ack = n]
      \/ w = [o EXCEPT !.last = IF n > @ THEN n ELSE @]
  BY DEF Held, SettledBare, Applied
<1> HIDE DEF o
<1>4. /\ w \in PageType /\ w.gen = gen /\ w.base = Base(p) /\ Got(p) \subseteq w.got
      /\ w.ack \in {page[p].ack, n} /\ w.from = page[p].from /\ w.gap = page[p].gap
      /\ w.last = Cursor(p) \/ (w.last = n /\ n > Cursor(p))
  <2> HIDE DEF w, n
  <2>1. CASE w = [o EXCEPT !.acked = TRUE, !.ack = n] BY <1>1, <1>2, <2>1 DEF PageType
  <2>2. CASE w = [o EXCEPT !.last = IF n > @ THEN n ELSE @] BY <1>1, <1>2, <2>2 DEF PageType
  <2> QED BY <1>3, <2>1, <2>2
<1>5. ~IsEvent(Head(conn[p].out)) BY DEF IsEvent
<1> HIDE DEF w
<1> QED BY <1>4, <1>5, PageMoves DEF w

\* The snapshot reaches a page, which goes live (runSubscription).
LEMMA PageSnapshotKeeps ==
  ASSUME StateInv, NEW p \in Pages, p \in Clients, ClientInv(p), UNCHANGED registry,
         conn[p].out # <<>>, conn'[p].out = Tail(conn[p].out),
         st'[p] = "live", Head(conn[p].out).type = "snapshot",
         page'[p] = Settled(page[p], Head(conn[p].out).n)
  PROVE  PageInv(p)' /\ page'[p] \in PageType
<1> DEFINE q == conn[p].out
           r == conn'[p].out
           n == Head(q).n
           v == page[p]
           w == page'[p]
           o == Observed(v)
<1>1. /\ q \in Seq(Frame) /\ Head(q) = q[1] /\ 1 \in DOMAIN q
      /\ \A i \in DOMAIN r : r[i] = q[i + 1] /\ i + 1 \in DOMAIN q /\ i + 1 > 1 /\ i \in Nat
      /\ \A j \in DOMAIN q : j = 1 \/ (j - 1 \in DOMAIN r /\ r[j - 1] = q[j])
      /\ FramesInOrder(p)'
  BY HeadGone
<1>2. /\ seq \in 0..MaxSeq /\ MaxSeq \in Nat /\ gen \in Nat /\ gen # 0
      /\ PageCursor(p) /\ PageOrder(p) /\ PageSnapshot(p) /\ FramesInOrder(p)
  BY ConstantsAssumption DEF StateInv, ClientInv, PageInv
<1>3. UNCHANGED <<gen, seq, async, lossy>> BY DEF registry
<1>4. n \in 0..MaxSeq /\ n \in Nat /\ n <= seq /\ n = q[1].n /\ \A i \in DOMAIN q : i \in Nat
  <2>1. q[1] \in Frame BY <1>1
  <2> QED BY <1>1, <1>2, <2>1 DEF Frame, FramesInOrder
<1>5. /\ v.ack <= n /\ (v.gen = gen => v.last <= n)
      /\ \A i \in DOMAIN q : i > 1 => IsEvent(q[i]) /\ (q[i].n \in async \/ q[i].n > n)
      /\ \A m \in (n + 1)..seq : m \notin async =>
           \E i \in DOMAIN q : i > 1 /\ IsEvent(q[i]) /\ q[i].n = m
  BY <1>1, <1>2 DEF PageSnapshot
<1>6. /\ o \in PageType /\ o.gen = gen /\ o.last = Cursor(p) /\ o.last \in Nat
  <2>1. o \in PageType /\ o.gen = gen /\ o.last = Cursor(p) BY <1>2, ObservedPage
  <2> HIDE DEF o
  <2> QED BY <2>1 DEF PageType
<1>7. v.ack \in 0..MaxSeq /\ v.ack \in Nat /\ n >= Cursor(p)
  <2>1. v \in PageType BY DEF StateInv
  <2> QED BY <1>4, <1>5, <2>1 DEF PageType, Cursor
<1>8. w \in PageType /\ w.gen = gen /\ w.ack = 0 /\ w.base = n /\ w.last = n /\ w.got = {}
  <2> DEFINE b == [o EXCEPT !.last = n, !.base = n, !.got = {}]
  <2>1. w = [Applied(b, v.ack) EXCEPT !.acked = FALSE, !.ack = 0]
    <3> HIDE DEF o
    <3> QED BY <1>6, <1>7 DEF Settled, o
  <2> HIDE DEF w, v, n, o
  <2>2. b \in PageType /\ b.gen = gen /\ b.last = n /\ b.base = n /\ b.got = {}
    BY <1>4, <1>6 DEF PageType
  <2> HIDE DEF b
  <2>3. Applied(b, v.ack) = b
    <3>1. ~(v.ack > b.last) BY <1>4, <1>5, <1>7, <2>2
    <3> QED BY <2>2, <3>1 DEF Applied, PageType
  <2>4. 0 \in 0..MaxSeq BY <1>2
  <2> QED BY <2>1, <2>2, <2>3, <2>4 DEF PageType
<1>9. \A i \in DOMAIN r : IsEvent(r[i]) /\ (r[i].n \in async \/ r[i].n > n)
  BY <1>1, <1>5
<1>10. Cursor(p)' = n /\ Got(p)' = {} /\ Base(p)' = n
  <2> HIDE DEF w, n
  <2> QED BY <1>3, <1>8 DEF Cursor, Got, Base, w
<1> HIDE DEF w, n
<1>11. PageCursor(p)'
  <2>1. \A m \in (n + 1)..n : FALSE BY <1>4
  <2> QED BY <1>2, <1>3, <1>4, <1>8, <2>1 DEF PageCursor, w
<1>12. PageOrder(p)' BY <1>3, <1>9, <1>10 DEF PageOrder, IsEvent
<1>13. PageSnapshot(p)' BY <1>9 DEF PageSnapshot, IsEvent
<1>14. PageGets(p)'
  <2> SUFFICES ASSUME NEW m \in (n + 1)..seq, m \notin async
               PROVE  m \in Queued(p)'
    BY <1>3, <1>10 DEF PageGets
  <2>1. PICK j \in DOMAIN q : j > 1 /\ IsEvent(q[j]) /\ q[j].n = m BY <1>5
  <2>2. j - 1 \in DOMAIN r /\ r[j - 1] = q[j]
    <3>1. j # 1
      <4>1. j \in Nat BY <1>4
      <4> QED BY <2>1, <4>1
    <3> QED BY <1>1, <3>1
  <2> QED BY <2>1, <2>2 DEF Queued, IsEvent
<1>15. PageLive(p)' BY <1>3, <1>8 DEF PageLive, w
<1> QED BY <1>8, <1>11, <1>12, <1>13, <1>14, <1>15 DEF PageInv, w

\* What a terminal has not seen goes to the end of its queue, sorted (_activate,
\* _enqueue).
LEMMA UnseenQueue ==
  ASSUME NEW q \in Seq(Nat), NEW k \in Nat, NEW S \in SUBSET (0..k), NEW A,
         \A i, j \in DOMAIN q : i < j => q[i] < q[j] \/ (q[i] > q[j] /\ q[j] \in A),
         \A n \in S : n \in A \/ \A m \in ToSet(q) : m < n
  PROVE  LET r == q \o Ascending(S \ ToSet(q))
         IN  /\ r \in Seq(Nat) /\ ToSet(r) = ToSet(q) \cup S
             /\ \A i, j \in DOMAIN r : i < j => r[i] < r[j] \/ (r[i] > r[j] /\ r[j] \in A)
<1> DEFINE D == S \ ToSet(q)
           a == Ascending(D)
           r == q \o a
<1>1. D \subseteq Nat /\ IsFiniteSet(D)
  <2>1. IsFiniteSet(0..k) BY FS_Interval
  <2>2. D \in SUBSET (0..k) OBVIOUS
  <2> QED BY <2>1, <2>2, FS_Subset
<1>2. /\ a \in Seq(Nat) /\ ToSet(a) = D
      /\ \A i, j \in DOMAIN a : i < j => a[i] < a[j]
  BY <1>1, AscendingSet
<1> HIDE DEF a
<1>3. /\ r \in Seq(Nat) /\ Len(q) \in Nat /\ DOMAIN q = 1..Len(q)
      /\ Len(a) \in Nat /\ DOMAIN a = 1..Len(a) /\ DOMAIN r = 1..Len(q) + Len(a)
      /\ \A i \in DOMAIN q : r[i] = q[i]
      /\ \A i \in DOMAIN a : r[Len(q) + i] = a[i]
  BY <1>2
<1>4. \A i \in DOMAIN r : i \in Nat /\ (i \in DOMAIN q \/ i - Len(q) \in DOMAIN a)
  <2> HIDE DEF r
  <2> QED BY <1>3
<1>5. \A i \in DOMAIN a : Len(q) + i \in DOMAIN r BY <1>3
<1> HIDE DEF r
<1>6. \A i \in DOMAIN r : i \notin DOMAIN q => i - Len(q) \in DOMAIN a /\ r[i] = a[i - Len(q)]
  <2> SUFFICES ASSUME NEW i \in DOMAIN r, i \notin DOMAIN q
               PROVE  i - Len(q) \in DOMAIN a /\ r[i] = a[i - Len(q)]
    OBVIOUS
  <2>1. i - Len(q) \in DOMAIN a BY <1>4
  <2>2. r[Len(q) + (i - Len(q))] = a[i - Len(q)] BY <1>3, <2>1
  <2>3. Len(q) + (i - Len(q)) = i BY <1>3, <1>4
  <2> QED BY <2>1, <2>2, <2>3
<1>7. /\ \A i \in DOMAIN q : q[i] \in ToSet(q) /\ q[i] \in Nat /\ i \in DOMAIN r
      /\ \A i \in DOMAIN a : a[i] \in D /\ a[i] \in Nat
      /\ \A n \in ToSet(q) : \E i \in DOMAIN q : q[i] = n
      /\ \A n \in D : \E i \in DOMAIN a : a[i] = n
  <2>1. \A i \in DOMAIN q : q[i] \in ToSet(q) /\ q[i] \in Nat BY DEF ToSet
  <2>2. \A i \in DOMAIN q : i \in DOMAIN r BY <1>3
  <2> HIDE DEF D
  <2>3. \A i \in DOMAIN a : a[i] \in D /\ a[i] \in Nat BY <1>2 DEF ToSet
  <2>4. \A n \in D : \E i \in DOMAIN a : a[i] = n BY <1>2 DEF ToSet
  <2> QED BY <2>1, <2>2, <2>3, <2>4 DEF ToSet
<1>8. ToSet(r) = ToSet(q) \cup S
  <2>1. ASSUME NEW n \in ToSet(r) PROVE n \in ToSet(q) \cup S
    <3>1. PICK i \in DOMAIN r : r[i] = n BY <2>1 DEF ToSet
    <3> QED BY <1>3, <1>6, <1>7, <3>1
  <2>2. ASSUME NEW n \in ToSet(q) \cup S PROVE \E i \in DOMAIN r : r[i] = n
    <3>1. CASE n \in ToSet(q) BY <1>3, <1>7, <3>1
    <3>2. CASE n \in D BY <1>3, <1>5, <1>7, <3>2
    <3> QED BY <2>2, <3>1, <3>2
  <2> QED BY <2>1, <2>2 DEF ToSet
<1>9. ASSUME NEW i \in DOMAIN r, NEW j \in DOMAIN r, i < j
      PROVE  r[i] < r[j] \/ (r[i] > r[j] /\ r[j] \in A)
  <2>1. CASE j \in DOMAIN q
    <3>1. i \in DOMAIN q BY <1>3, <1>9, <2>1
    <3> QED BY <1>3, <1>9, <2>1, <3>1
  <2>2. CASE i \in DOMAIN q /\ j \notin DOMAIN q
    <3>1. r[j] \in D /\ r[j] \in Nat BY <1>6, <1>7, <2>2
    <3>2. r[i] \in ToSet(q) /\ r[i] \in Nat BY <1>3, <1>7, <2>2
    <3>3. r[i] # r[j] /\ r[j] \in S BY <3>1, <3>2
    <3> QED BY <3>1, <3>2, <3>3
  <2>3. CASE i \notin DOMAIN q /\ j \notin DOMAIN q
    <3>1. /\ i - Len(q) \in DOMAIN a /\ r[i] = a[i - Len(q)]
          /\ j - Len(q) \in DOMAIN a /\ r[j] = a[j - Len(q)]
      BY <1>6, <2>3
    <3>2. i - Len(q) < j - Len(q) BY <1>3, <1>4, <1>9
    <3> QED BY <1>2, <3>1, <3>2
  <2> QED BY <2>1, <2>2, <2>3
<1> QED BY <1>3, <1>8, <1>9 DEF r, a

\* An event reaches a terminal that waits for its answer.
LEMMA CollectKeeps ==
  ASSUME StateInv, NEW u \in Terminals, u \in Clients, ClientInv(u), UNCHANGED registry,
         conn[u].out # <<>>, conn'[u].out = Tail(conn[u].out), conn'[u].pc = conn[u].pc,
         u \in subs, st'[u] = st[u], IsEvent(Head(conn[u].out)), st[u] # "live",
         term'[u] = [term[u] EXCEPT !.pending = @ \cup {Head(conn[u].out).n}]
  PROVE  TerminalOrder(u)' /\ TerminalGets(u)' /\ term'[u] \in TermType
<1> DEFINE q == conn[u].out
           r == conn'[u].out
           n == Head(q).n
           t == term[u]
           w == term'[u]
<1>1. /\ q \in Seq(Frame) /\ Head(q) = q[1] /\ 1 \in DOMAIN q
      /\ \A i \in DOMAIN r : r[i] = q[i + 1] /\ i + 1 \in DOMAIN q /\ i + 1 > 1 /\ i \in Nat
      /\ \A m \in Queued(u) : m \in Queued(u)' \/ (IsEvent(q[1]) /\ q[1].n = m)
  BY HeadGone
<1>2. /\ t \in TermType /\ seq \in Nat
      /\ Registered(u) /\ TerminalOrder(u) /\ TerminalGets(u) /\ FramesInOrder(u)
  BY DEF StateInv, TermType, ClientInv
<1>3. UNCHANGED <<gen, seq, async, lossy, late>> BY DEF registry
<1>4. n \in Nat /\ n <= seq /\ n = q[1].n /\ IsEvent(q[1])
  <2>1. q[1] \in Frame BY <1>1
  <2> QED BY <1>1, <1>2, <2>1 DEF Frame, FramesInOrder
<1>5. /\ w \in TermType /\ w.cursor = t.cursor /\ w.from = t.from /\ w.gap = t.gap
      /\ w.queue = t.queue /\ w.pending = t.pending \cup {n}
  <2>1. w = [t EXCEPT !.pending = @ \cup {n}] OBVIOUS
  <2> HIDE DEF w, t, n
  <2> QED BY <1>2, <1>4, <2>1 DEF TermType
<1>6. Seen(u)' = Seen(u) \cup {n} BY <1>5 DEF Seen
<1>7. Owed(u)' = Owed(u) BY <1>3, <1>5 DEF Owed
<1>8. TerminalOrder(u)'
  <2>1. /\ t.cursor <= seq /\ t.from <= seq /\ (\A m \in Seen(u) : m <= seq)
        /\ t.queue = <<>> /\ st[u] # "snapshot"
    BY <1>2 DEF TerminalOrder
  <2>2. st[u] \notin {"never", "off", "subscribe", "live"} BY <1>2 DEF Registered
  <2>3. ASSUME NEW i \in DOMAIN r, IsEvent(r[i])
        PROVE  r[i].n \in async \/ \A m \in Seen(u) \cup {n} : m < r[i].n
    <3>1. r[i] = q[i + 1] /\ i + 1 \in DOMAIN q /\ i + 1 > 1 BY <1>1
    <3>2. q[i + 1].n \in async \/ q[1].n < q[i + 1].n
      BY <1>1, <1>2, <1>4, <2>3, <3>1 DEF FramesInOrder
    <3>3. q[i + 1].n \in async \/ \A m \in Seen(u) : m < q[i + 1].n
      BY <1>2, <2>3, <3>1 DEF TerminalOrder
    <3> HIDE DEF q, r, n
    <3> QED BY <1>4, <3>1, <3>2, <3>3
  <2> HIDE DEF n
  <2>4. \A i \in DOMAIN w.queue : FALSE BY <1>5, <2>1
  <2> QED BY <1>3, <1>4, <1>5, <1>6, <2>1, <2>2, <2>3, <2>4 DEF TerminalOrder
<1>9. TerminalGets(u)'
  BY <1>1, <1>2, <1>3, <1>4, <1>5, <1>6, <1>7 DEF TerminalGets
<1> QED BY <1>5, <1>8, <1>9

\* A terminal takes what it has collected, or an event that arrives when it is
\* live, into its queue.
LEMMA TakeKeeps ==
  ASSUME StateInv, NEW u \in Terminals, u \in Clients, ClientInv(u), UNCHANGED registry,
         conn[u].out # <<>>, conn'[u].out = Tail(conn[u].out), conn'[u].pc = conn[u].pc,
         u \in subs, st'[u] = "live",
         NEW S, \/ IsEvent(Head(conn[u].out)) /\ st[u] = "live" /\ S = {Head(conn[u].out).n}
                \/ ~IsEvent(Head(conn[u].out)) /\ S = term[u].pending,
         term'[u] = [term[u] EXCEPT !.queue = Unseen(u, S), !.pending = {}]
  PROVE  TerminalOrder(u)' /\ TerminalGets(u)' /\ term'[u] \in TermType
<1> DEFINE q == conn[u].out
           r == conn'[u].out
           n == Head(q).n
           t == term[u]
           w == term'[u]
<1>1. /\ q \in Seq(Frame) /\ Head(q) = q[1] /\ 1 \in DOMAIN q
      /\ \A i \in DOMAIN r : r[i] = q[i + 1] /\ i + 1 \in DOMAIN q /\ i + 1 > 1 /\ i \in Nat
      /\ \A m \in Queued(u) : m \in Queued(u)' \/ (IsEvent(q[1]) /\ q[1].n = m)
  BY HeadGone
<1>2. /\ t \in TermType /\ seq \in Nat
      /\ Registered(u) /\ TerminalOrder(u) /\ TerminalGets(u) /\ FramesInOrder(u)
  BY DEF StateInv, TermType, ClientInv
<1>3. UNCHANGED <<gen, seq, async, lossy, late>> BY DEF registry
<1>4. n \in Nat /\ n <= seq /\ n = q[1].n
  <2>1. q[1] \in Frame BY <1>1
  <2> QED BY <1>1, <1>2, <2>1 DEF Frame, FramesInOrder
<1>5. /\ t.cursor <= seq /\ t.from <= seq /\ \A m \in Seen(u) : m <= seq /\ m \in Nat
      /\ st[u] # "live" => t.queue = <<>>
      /\ st[u] = "live" => t.pending = {}
      /\ t.queue \in Seq(Nat)
  BY <1>2 DEF TerminalOrder, Seen, TermType, ToSet
<1>6. S \in SUBSET (0..seq)
  <2>1. t.pending \subseteq Seen(u) BY DEF Seen
  <2> HIDE DEF n, t
  <2> QED BY <1>2, <1>4, <1>5, <2>1 DEF n, t
<1>7. \A m \in S : m \in async \/ \A k \in ToSet(t.queue) : k < m
  <2>1. CASE S = {n} /\ IsEvent(q[1])
    <3>1. q[1].n \in async \/ \A k \in Seen(u) : k < q[1].n
      BY <1>1, <1>2, <2>1 DEF TerminalOrder
    <3> QED BY <1>4, <2>1, <3>1 DEF Seen
  <2>2. CASE S = t.pending
    <3>1. CASE st[u] = "live" BY <1>5, <2>2, <3>1
    <3>2. CASE st[u] # "live"
      <4>1. ToSet(t.queue) = {} BY <1>5, <3>2 DEF ToSet
      <4> QED BY <4>1
    <3> QED BY <3>1, <3>2
  <2> QED BY <1>1, <2>1, <2>2
<1>8. /\ Unseen(u, S) \in Seq(Nat) /\ ToSet(Unseen(u, S)) = ToSet(t.queue) \cup S
      /\ \A i, j \in DOMAIN Unseen(u, S) :
           i < j => \/ Unseen(u, S)[i] < Unseen(u, S)[j]
                    \/ Unseen(u, S)[i] > Unseen(u, S)[j] /\ Unseen(u, S)[j] \in async
  <2>1. \A i, j \in DOMAIN t.queue :
          i < j => t.queue[i] < t.queue[j] \/ (t.queue[i] > t.queue[j] /\ t.queue[j] \in async)
    BY <1>2 DEF TerminalOrder
  <2> DEFINE a == t.queue \o Ascending(S \ ToSet(t.queue))
  <2>2. Unseen(u, S) = a BY DEF Unseen
  <2>3. /\ a \in Seq(Nat) /\ ToSet(a) = ToSet(t.queue) \cup S
        /\ \A i, j \in DOMAIN a : i < j => a[i] < a[j] \/ (a[i] > a[j] /\ a[j] \in async)
    <3> HIDE DEF t
    <3> QED BY <1>2, <1>5, <1>6, <1>7, <2>1, UnseenQueue
  <2> HIDE DEF a
  <2> QED BY <2>2, <2>3
<1>9. /\ w \in TermType /\ w.cursor = t.cursor /\ w.from = t.from /\ w.gap = t.gap
      /\ w.queue = Unseen(u, S) /\ w.pending = {}
  <2>1. w = [t EXCEPT !.queue = Unseen(u, S), !.pending = {}] OBVIOUS
  <2>2. {} \in SUBSET Nat OBVIOUS
  <2> HIDE DEF w, t
  <2> QED BY <1>2, <1>8, <2>1, <2>2 DEF TermType
<1>10. /\ Seen(u)' = ToSet(t.queue) \cup S /\ Seen(u)' \subseteq Seen(u) \cup {n}
       /\ Seen(u) \subseteq Seen(u)'
       /\ IsEvent(q[1]) => n \in Seen(u)'
       /\ ~IsEvent(q[1]) => Seen(u)' = Seen(u)
  <2>1. Seen(u)' = ToSet(t.queue) \cup S BY <1>8, <1>9 DEF Seen
  <2> QED BY <1>1, <1>5, <2>1 DEF Seen
<1>11. Owed(u)' = Owed(u) BY <1>3, <1>9 DEF Owed
<1>12. TerminalOrder(u)'
  <2>1. ASSUME NEW i \in DOMAIN r, IsEvent(r[i])
        PROVE  r[i].n \in async \/ \A m \in Seen(u)' : m < r[i].n
    <3>1. r[i] = q[i + 1] /\ i + 1 \in DOMAIN q /\ i + 1 > 1 BY <1>1
    <3>2. IsEvent(q[1]) => q[i + 1].n \in async \/ q[1].n < q[i + 1].n
      BY <1>1, <1>2, <2>1, <3>1 DEF FramesInOrder
    <3>3. q[i + 1].n \in async \/ \A m \in Seen(u) : m < q[i + 1].n
      BY <1>2, <2>1, <3>1 DEF TerminalOrder
    <3> HIDE DEF q, r, n
    <3> QED BY <1>4, <1>10, <3>1, <3>2, <3>3
  <2>2. \A m \in Seen(u)' : m <= seq BY <1>4, <1>5, <1>10
  <2> HIDE DEF n
  <2> QED BY <1>3, <1>5, <1>8, <1>9, <2>1, <2>2 DEF TerminalOrder
<1>13. TerminalGets(u)'
  <2>1. st[u] \in {"snapshot", "hydrate", "answered", "live"} BY <1>2 DEF Registered
  <2> SUFFICES ASSUME conn[u].pc = "open", ~t.gap, NEW m \in Owed(u)
               PROVE  m \in Seen(u)' \cup Queued(u)' \cup late
    BY <1>3, <1>9, <1>11 DEF TerminalGets
  <2>2. m \in Seen(u) \cup Queued(u) \cup late BY <1>2, <2>1 DEF TerminalOrder, TerminalGets
  <2> QED BY <1>1, <1>4, <1>10, <2>2
<1> QED BY <1>9, <1>12, <1>13

\* A frame arrives at its reader.
LEMMA ReceiveKeeps ==
  ASSUME ReaderInv, NEW c \in Clients, Receive(c)
  PROVE  ReaderInv'
<1> DEFINE X == [conn[c] EXCEPT !.out = Tail(@)]
           f == Head(conn[c].out)
<1>1. StateInv /\ ClientInv(c) /\ Registered(c) BY DEF ReaderInv, ClientInv
<1>2. /\ conn[c].pc = "open" /\ conn[c].out # <<>> /\ conn' = [conn EXCEPT ![c] = X]
      /\ UNCHANGED <<registry, subs>>
  BY DEF Receive
<1>3. /\ conn[c] \in Conn /\ conn \in [Clients -> Conn]
      /\ st \in [Clients -> Statuses] /\ subs \subseteq Clients
      /\ page \in [Pages -> PageType] /\ term \in [Terminals -> TermType]
      /\ run \in [Pages -> CountedRuns]
  BY <1>1 DEF StateInv
<1>4. conn'[c] = X /\ X.pc = conn[c].pc /\ X.out = Tail(conn[c].out)
  BY <1>2, <1>3 DEF Conn
<1>5. conn'[c].out \in Seq(Frame) /\ Len(conn'[c].out) <= QueueSize /\ FramesInOrder(c)'
  BY <1>1, <1>2, <1>4, HeadGone
<1>6. X \in Conn /\ Len(X.out) <= QueueSize
  <2>1. X.out \in Seq(Frame) /\ Len(X.out) <= QueueSize BY <1>4, <1>5
  <2>2. X = [pc |-> conn[c].pc, out |-> X.out] BY <1>3, <1>4 DEF Conn
  <2>3. conn[c].pc \in {"off", "open", "closing"} BY <1>3 DEF Conn
  <2> HIDE DEF X
  <2> QED BY <2>1, <2>2, <2>3 DEF Conn
<1>7. c \in subs /\ c \in subs' BY <1>1, <1>2 DEF Registered
<1>8. /\ st[c] \in {"snapshot", "hydrate", "answered", "live"} /\ st[c] \in Statuses
      /\ "live" \in Statuses
  BY <1>1, <1>7 DEF Registered, Statuses
<1> HIDE DEF X
<1>9. ASSUME NEW v \in Statuses, v \in {st[c], "live"}, st' = [st EXCEPT ![c] = v]
      PROVE  st'[c] = v /\ Registered(c)'
  <2>1. st'[c] = v BY <1>3, <1>9
  <2> QED BY <1>2, <1>4, <1>7, <1>8, <1>9, <2>1 DEF Registered
<1>10. UNCHANGED st => st' = [st EXCEPT ![c] = st[c]] BY <1>3
<1>11. ASSUME c \in Pages, NEW w, page' = [page EXCEPT ![c] = w], term' = term,
              NEW v \in Statuses, v \in {st[c], "live"}, st' = [st EXCEPT ![c] = v],
              run' \in [Pages -> CountedRuns], page'[c] \in PageType, PageInv(c)'
       PROVE  ReaderInv'
  <2>1. c \notin Terminals BY <1>11, ConstantsAssumption
  <2>2. ClientInv(c)' BY <1>5, <1>9, <1>11, <2>1 DEF ClientInv
  <2>3. /\ page' \in [Pages -> PageType] /\ \A p \in Pages \ {c} : page'[p] = page[p]
        /\ term' \in [Terminals -> TermType] /\ \A u \in Terminals \ {c} : term'[u] = term[u]
    BY <1>3, <1>11
  <2>4. subs' \subseteq Clients BY <1>2, <1>3
  <2> QED BY <1>2, <1>6, <1>11, <2>2, <2>3, <2>4, OneClient
<1>12. ASSUME c \in Terminals, NEW w, term' = [term EXCEPT ![c] = w], page' = page,
              NEW v \in Statuses, v \in {st[c], "live"}, st' = [st EXCEPT ![c] = v],
              run' = run, term'[c] \in TermType, TerminalOrder(c)', TerminalGets(c)'
       PROVE  ReaderInv'
  <2>1. c \notin Pages BY <1>12, ConstantsAssumption
  <2>2. ClientInv(c)' BY <1>5, <1>9, <1>12, <2>1 DEF ClientInv
  <2>3. /\ term' \in [Terminals -> TermType] /\ \A u \in Terminals \ {c} : term'[u] = term[u]
        /\ page' \in [Pages -> PageType] /\ \A p \in Pages \ {c} : page'[p] = page[p]
    BY <1>3, <1>12
  <2>4. subs' \subseteq Clients /\ run' \in [Pages -> CountedRuns]
    BY <1>2, <1>3, <1>12
  <2> QED BY <1>2, <1>6, <1>12, <2>2, <2>3, <2>4, OneClient
<1>13. /\ UNCHANGED registry /\ conn'[c].out = Tail(conn[c].out) /\ conn'[c].pc = conn[c].pc
  BY <1>2, <1>4
<1>14. CASE /\ c \in Pages /\ f.type = "event" /\ UNCHANGED <<st, run, term>>
            /\ page' = [page EXCEPT ![c] = Accepted(page[c], f.n)]
  <2>1. page'[c] = Accepted(page[c], f.n) /\ st'[c] = st[c] /\ IsEvent(f)
    BY <1>3, <1>14 DEF IsEvent
  <2>2. PageInv(c)' /\ page'[c] \in PageType
    BY <1>1, <1>2, <1>7, <1>13, <1>14, <2>1, PageEventKeeps
  <2> QED BY <1>3, <1>8, <1>10, <1>11, <1>14, <2>2
<1>15. CASE /\ c \in Pages /\ f.type = "ack" /\ UNCHANGED <<st, run, term>>
            /\ page' = [page EXCEPT ![c] = Held(page[c], f.n)]
  <2>1. page'[c] = Held(page[c], f.n) /\ st'[c] = st[c] BY <1>3, <1>15
  <2>2. PageInv(c)' /\ page'[c] \in PageType
    BY <1>1, <1>2, <1>7, <1>13, <1>15, <2>1, PageAckKeeps
  <2> QED BY <1>3, <1>8, <1>10, <1>11, <1>15, <2>2
<1>16. CASE /\ c \in Pages /\ UNCHANGED term /\ st' = [st EXCEPT ![c] = "live"]
            /\ run' = [run EXCEPT ![c] = Ready(run[c])]
            /\ \/ f.type = "ack" /\ page' = [page EXCEPT ![c] = SettledBare(page[c], f.n)]
               \/ f.type = "snapshot" /\ page' = [page EXCEPT ![c] = Settled(page[c], f.n)]
  <2>1. st'[c] = "live" /\ run' \in [Pages -> CountedRuns]
    <3>1. Ready(run[c]) \in CountedRuns BY <1>3, <1>16, RunSteps
    <3> QED BY <1>3, <1>16, <3>1
  <2>2. CASE f.type = "ack" /\ page' = [page EXCEPT ![c] = SettledBare(page[c], f.n)]
    <3>1. page'[c] = SettledBare(page[c], f.n) BY <1>3, <1>16, <2>2
    <3>2. PageInv(c)' /\ page'[c] \in PageType
      BY <1>1, <1>2, <1>7, <1>13, <1>16, <2>1, <2>2, <3>1, PageAckKeeps
    <3> QED BY <1>8, <1>11, <1>16, <2>1, <2>2, <3>2
  <2>3. CASE f.type = "snapshot" /\ page' = [page EXCEPT ![c] = Settled(page[c], f.n)]
    <3>1. page'[c] = Settled(page[c], f.n) BY <1>3, <1>16, <2>3
    <3>2. PageInv(c)' /\ page'[c] \in PageType
      BY <1>1, <1>2, <1>13, <1>16, <2>1, <2>3, <3>1, PageSnapshotKeeps
    <3> QED BY <1>8, <1>11, <1>16, <2>1, <2>3, <3>2
  <2> QED BY <1>16, <2>2, <2>3
<1>17. CASE /\ c \in Terminals /\ f.type = "event" /\ st[c] # "live" /\ UNCHANGED <<st, run, page>>
            /\ term' = [term EXCEPT ![c] = [term[c] EXCEPT !.pending = @ \cup {f.n}]]
  <2>1. /\ term'[c] = [term[c] EXCEPT !.pending = @ \cup {f.n}] /\ st'[c] = st[c]
        /\ IsEvent(f)
    BY <1>3, <1>17 DEF IsEvent
  <2>2. TerminalOrder(c)' /\ TerminalGets(c)' /\ term'[c] \in TermType
    BY <1>1, <1>2, <1>7, <1>13, <1>17, <2>1, CollectKeeps
  <2> QED BY <1>8, <1>10, <1>12, <1>17, <2>2
<1> DEFINE one == Unseen(c, {f.n})
           all == Unseen(c, term[c].pending)
<1>18. CASE /\ c \in Terminals /\ f.type = "event" /\ st[c] = "live" /\ UNCHANGED <<st, run, page>>
            /\ term' = [term EXCEPT ![c] = [term[c] EXCEPT !.queue = one]]
  <2>1. /\ term'[c] = [term[c] EXCEPT !.queue = one] /\ st'[c] = "live" /\ IsEvent(f)
        /\ term[c] \in TermType /\ term[c].pending = {}
    <3> HIDE DEF one
    <3> QED BY <1>1, <1>3, <1>18 DEF IsEvent, ClientInv, TerminalOrder
  <2>2. term'[c] = [term[c] EXCEPT !.queue = one, !.pending = {}]
    <3> HIDE DEF one
    <3>1. ASSUME NEW t \in TermType, t.pending = {}, NEW s
          PROVE  [t EXCEPT !.queue = s] = [t EXCEPT !.queue = s, !.pending = {}]
      BY <3>1 DEF TermType
    <3> QED BY <2>1, <3>1, Zenon
  <2>3. TerminalOrder(c)' /\ TerminalGets(c)' /\ term'[c] \in TermType
    BY <1>1, <1>2, <1>7, <1>13, <1>18, <2>1, <2>2, TakeKeeps, Zenon
  <2> HIDE DEF one
  <2> QED BY <1>8, <1>10, <1>12, <1>18, <2>3
<1>19. CASE /\ c \in Terminals /\ f.type = "ack" /\ UNCHANGED <<run, page>>
            /\ term' = [term EXCEPT ![c] = [term[c] EXCEPT !.queue = all, !.pending = {}]]
            /\ st' = [st EXCEPT ![c] = "live"]
  <2>1. /\ term'[c] = [term[c] EXCEPT !.queue = all, !.pending = {}]
        /\ st'[c] = "live" /\ ~IsEvent(f)
    <3> HIDE DEF all
    <3> QED BY <1>3, <1>19 DEF IsEvent
  <2>2. TerminalOrder(c)' /\ TerminalGets(c)' /\ term'[c] \in TermType
    BY <1>1, <1>2, <1>7, <1>13, <1>19, <2>1, TakeKeeps, Zenon
  <2> HIDE DEF all
  <2> QED BY <1>8, <1>12, <1>19, <2>2
<1> QED BY <1>14, <1>15, <1>16, <1>17, <1>18, <1>19 DEF Receive

----------------------------------------------------------------------------
(* Ends *)

\* A client whose connection ends, with the gateway or without it.
LEMMA Disconnected ==
  ASSUME StateInv, NEW c \in Clients, ClientInv(c), c \notin subs',
         UNCHANGED registry \/ (gen' = gen + 1 /\ seq' = 0),
         conn'[c] = Off, st'[c] = IF st[c] # "never" THEN "off" ELSE st[c],
         c \in Pages => page'[c] = [page[c] EXCEPT !.acked = FALSE, !.ack = 0],
         c \in Terminals => term'[c] = Fresh
  PROVE  /\ ClientInv(c)' /\ conn'[c] \in Conn /\ Len(conn'[c].out) <= QueueSize
         /\ st'[c] \in Statuses
         /\ c \in Pages => page'[c] \in PageType
         /\ c \in Terminals => term'[c] \in TermType
<1>1. /\ seq \in Nat /\ seq' \in Nat /\ gen \in Nat /\ MaxSeq \in Nat /\ QueueSize \in Nat
  BY ConstantsAssumption DEF StateInv, registry
<1>2. /\ conn'[c].out = <<>> /\ conn'[c].pc = "off" /\ conn'[c] \in Conn
      /\ Len(conn'[c].out) <= QueueSize
  BY <1>1 DEF Off, Conn
<1>3. st'[c] \in {"never", "off"} /\ st'[c] \in Statuses BY DEF Statuses
<1>4. Registered(c)' BY <1>2, <1>3 DEF Registered
<1>5. FramesInOrder(c)' BY <1>2 DEF FramesInOrder
<1>6. ASSUME c \in Terminals PROVE TerminalOrder(c)' /\ TerminalGets(c)' /\ term'[c] \in TermType
  <2>1. /\ term'[c].cursor = 0 /\ term'[c].from = 0 /\ term'[c].queue = <<>>
        /\ term'[c].pending = {}
    BY <1>6 DEF Fresh
  <2>2. Seen(c)' = {} BY <2>1 DEF Seen, ToSet
  <2>3. TerminalOrder(c)' BY <1>1, <1>2, <1>3, <2>1, <2>2 DEF TerminalOrder
  <2>4. TerminalGets(c)' BY <1>2 DEF TerminalGets
  <2>5. Fresh \in TermType
    <3>1. <<>> \in Seq(Nat) /\ {} \in SUBSET Nat /\ FALSE \in BOOLEAN /\ 0 \in Nat OBVIOUS
    <3> QED BY <3>1 DEF Fresh, TermType
  <2> QED BY <1>6, <2>3, <2>4, <2>5
<1>7. ASSUME c \in Pages PROVE PageInv(c)' /\ page'[c] \in PageType
  <2>1. page[c] \in PageType /\ PageCursor(c) /\ 0 \in 0..MaxSeq
    BY <1>1, <1>7 DEF StateInv, ClientInv, PageInv
  <2>2. /\ page'[c] \in PageType /\ page'[c].ack = 0 /\ page'[c].gen = page[c].gen
        /\ page'[c].last = page[c].last /\ page'[c].base = page[c].base
        /\ page'[c].got = page[c].got /\ page'[c].gap = page[c].gap /\ page[c].gen \in Nat
    <3> DEFINE v == page[c]
               b == [v EXCEPT !.acked = FALSE]
               w == [b EXCEPT !.ack = 0]
    <3>1. page'[c] = w BY <1>7, Zenon
    <3>2. v \in PageType /\ v.gen \in Nat BY <2>1 DEF PageType
    <3> HIDE DEF v
    <3>3. /\ b \in PageType /\ b.gen = v.gen /\ b.last = v.last
          /\ b.base = v.base /\ b.got = v.got /\ b.gap = v.gap
      BY <3>2 DEF PageType
    <3> HIDE DEF b
    <3>4. /\ w \in PageType /\ w.ack = 0 /\ w.gen = b.gen /\ w.last = b.last
          /\ w.base = b.base /\ w.got = b.got /\ w.gap = b.gap
      BY <2>1, <3>3 DEF PageType
    <3> HIDE DEF w
    <3> QED BY <3>1, <3>2, <3>3, <3>4 DEF v
  <2>3. PageCursor(c)' BY <1>1, <2>1, <2>2 DEF PageCursor, registry
  <2> QED BY <1>2, <2>2, <2>3 DEF PageInv, PageOrder, PageGets, PageSnapshot, PageLive
<1> QED BY <1>2, <1>3, <1>4, <1>5, <1>6, <1>7 DEF ClientInv

\* The bootstraps of the pages that lose their sockets.
LEMMA DroppedRuns ==
  ASSUME StateInv, NEW C, Disconnect(C)
  PROVE  run' \in [Pages -> CountedRuns]
<1>1. run \in [Pages -> CountedRuns] /\ page \in [Pages -> PageType] BY DEF StateInv
<1>2. ASSUME NEW p \in Pages
      PROVE  run[p] \in CountedRuns /\ Dropped(run[p], page[p].acked) \in CountedRuns
  <2>1. run[p] \in CountedRuns /\ page[p].acked \in BOOLEAN BY <1>1 DEF PageType
  <2> QED BY <2>1, RunSteps
<1> QED BY <1>2 DEF Disconnect

\* One connection is lost.
LEMMA LossKeeps ==
  ASSUME ReaderInv, NEW c \in Clients, Disconnect({c}), subs' = subs \ {c},
         UNCHANGED registry
  PROVE  ReaderInv'
<1>1. StateInv /\ \A d \in Clients : ClientInv(d) BY DEF ReaderInv
<1>2. /\ \A d \in Clients : /\ conn'[d] = IF d = c THEN Off ELSE conn[d]
                           /\ st'[d] = IF d = c /\ st[d] # "never" THEN "off" ELSE st[d]
      /\ \A p \in Pages : page'[p] = IF p = c THEN [page[p] EXCEPT !.acked = FALSE, !.ack = 0]
                                     ELSE page[p]
      /\ \A u \in Terminals : term'[u] = IF u = c THEN Fresh ELSE term[u]
      /\ DOMAIN conn' = Clients /\ DOMAIN st' = Clients
      /\ DOMAIN page' = Pages /\ DOMAIN term' = Terminals
  BY DEF Disconnect
<1>3. /\ ClientInv(c)' /\ conn'[c] \in Conn /\ Len(conn'[c].out) <= QueueSize
      /\ st'[c] \in Statuses
      /\ c \in Pages => page'[c] \in PageType
      /\ c \in Terminals => term'[c] \in TermType
  BY <1>1, <1>2, Disconnected DEF registry
<1>4. /\ conn' = [conn EXCEPT ![c] = conn'[c]] /\ st' = [st EXCEPT ![c] = st'[c]]
  <2>1. conn = [d \in Clients |-> conn[d]] /\ st = [d \in Clients |-> st[d]]
    BY <1>1 DEF StateInv
  <2>2. conn' = [d \in Clients |-> conn'[d]] /\ st' = [d \in Clients |-> st'[d]]
    BY DEF Disconnect
  <2> QED BY <1>2, <2>1, <2>2
<1>5. /\ page \in [Pages -> PageType] /\ term \in [Terminals -> TermType] /\ subs \subseteq Clients
  BY <1>1 DEF StateInv, PageType, TermType
<1>6. /\ page' \in [Pages -> PageType] /\ term' \in [Terminals -> TermType]
  <2>1. page' = [p \in Pages |-> page'[p]] /\ term' = [u \in Terminals |-> term'[u]]
    BY DEF Disconnect
  <2>2. /\ \A p \in Pages : page'[p] \in PageType
        /\ \A u \in Terminals : term'[u] \in TermType
    BY <1>2, <1>3, <1>5
  <2> QED BY <2>1, <2>2
<1>7. /\ \A d \in Clients \ {c} : d \in subs' <=> d \in subs
      /\ subs' \subseteq Clients
  BY <1>5
<1>8. run' \in [Pages -> CountedRuns] BY <1>1, DroppedRuns
<1>9. /\ \A p \in Pages \ {c} : page'[p] = page[p]
      /\ \A u \in Terminals \ {c} : term'[u] = term[u]
  BY <1>2
<1> QED BY <1>3, <1>4, <1>6, <1>7, <1>8, <1>9, OneClient

LEMMA LoseKeeps ==
  ASSUME ReaderInv, NEW c \in Clients, Lose(c)
  PROVE  ReaderInv'
BY LossKeeps DEF Lose

LEMMA HydrateFailsKeeps ==
  ASSUME ReaderInv, NEW u \in Terminals, HydrateFails(u)
  PROVE  ReaderInv'
BY LossKeeps DEF HydrateFails, Clients

\* The gateway starts again: nobody is connected.
LEMMA RestartKeeps ==
  ASSUME ReaderInv, Restart
  PROVE  ReaderInv'
<1>1. StateInv /\ \A c \in Clients : ClientInv(c) BY DEF ReaderInv
<1>2. /\ gen' = gen + 1 /\ gen < MaxGen /\ seq' = 0 /\ buf' = {} /\ lossy' = {}
      /\ late' = {} /\ async' = {} /\ subs' = {}
  BY DEF Restart
<1>3. /\ \A c \in Clients : /\ conn'[c] = Off
                           /\ st'[c] = IF st[c] # "never" THEN "off" ELSE st[c]
      /\ \A p \in Pages : page'[p] = [page[p] EXCEPT !.acked = FALSE, !.ack = 0]
      /\ \A u \in Terminals : term'[u] = Fresh
      /\ conn' = [c \in Clients |-> conn'[c]] /\ st' = [c \in Clients |-> st'[c]]
      /\ page' = [p \in Pages |-> page'[p]] /\ term' = [u \in Terminals |-> term'[u]]
  BY DEF Restart, Disconnect, Clients
<1>4. \A c \in Clients :
        /\ ClientInv(c)' /\ conn'[c] \in Conn /\ Len(conn'[c].out) <= QueueSize
        /\ st'[c] \in Statuses
        /\ c \in Pages => page'[c] \in PageType
        /\ c \in Terminals => term'[c] \in TermType
  BY <1>1, <1>2, <1>3, Disconnected
<1>5. /\ \A p \in Pages : page'[p] \in PageType
      /\ \A u \in Terminals : term'[u] \in TermType
  BY <1>4 DEF Clients
<1>6. /\ conn' \in [Clients -> Conn] /\ st' \in [Clients -> Statuses]
      /\ page' \in [Pages -> PageType] /\ term' \in [Terminals -> TermType]
  BY <1>3, <1>4, <1>5, Zenon
<1>7. gen' \in 1..MaxGen /\ seq' \in 0..MaxSeq /\ Cardinality(buf') <= Window
  BY <1>1, <1>2, ConstantsAssumption, FS_EmptySet DEF StateInv
<1>9. run' \in [Pages -> CountedRuns] BY <1>1, DroppedRuns DEF Restart
<1>8. StateInv' BY <1>1, <1>2, <1>4, <1>6, <1>7, <1>9 DEF StateInv
<1> QED BY <1>4, <1>8 DEF ReaderInv

----------------------------------------------------------------------------
(* The readers, as theorems *)

LEMMA ReaderInit == Init => ReaderInv
<1> SUFFICES ASSUME Init PROVE ReaderInv OBVIOUS
<1>1. /\ MaxGen \in Nat \ {0} /\ MaxSeq \in Nat /\ QueueSize \in Nat
      /\ Window \in Nat \ {0} /\ Cardinality({}) = 0
  BY ConstantsAssumption, FS_EmptySet
<1>2. /\ gen = 1 /\ seq = 0
      /\ buf = {} /\ lossy = {} /\ late = {} /\ async = {} /\ subs = {}
      /\ conn = [c \in Clients |-> Off]
      /\ run = [p \in Pages |-> NewRun]
      /\ page = [p \in Pages |-> [gen |-> 0, last |-> 0, acked |-> FALSE, ack |-> 0,
                                  base |-> 0, from |-> 0, gap |-> 0, got |-> {}]]
      /\ term = [u \in Terminals |-> Fresh]
  BY DEF Init
<1>3. st \in [Clients -> {"never", "off"}] BY DEF Init
<1>4. StateInv
  <2>1. Off \in Conn /\ Len(Off.out) <= QueueSize BY <1>1 DEF Off, Conn
  <2>2. Fresh \in TermType BY DEF Fresh, TermType
  <2>3. [gen |-> 0, last |-> 0, acked |-> FALSE, ack |-> 0,
         base |-> 0, from |-> 0, gap |-> 0, got |-> {}] \in PageType
    BY <1>1 DEF PageType
  <2>4. conn \in [Clients -> Conn] /\ \A c \in Clients : Len(conn[c].out) <= QueueSize
    BY <1>2, <2>1
  <2>5. page \in [Pages -> PageType] /\ term \in [Terminals -> TermType]
    BY <1>2, <2>2, <2>3
  <2>6. run \in [Pages -> CountedRuns] BY <1>2, RunSteps
  <2>7. st \in [Clients -> Statuses] BY <1>3 DEF Statuses
  <2> QED BY <1>1, <1>2, <2>4, <2>5, <2>6, <2>7 DEF StateInv
<1>5. ASSUME NEW c \in Clients PROVE ClientInv(c)
  <2>1. conn[c].pc = "off" /\ conn[c].out = <<>> /\ st[c] \in {"never", "off"}
    BY <1>2, <1>3 DEF Off
  <2>2. Registered(c) /\ FramesInOrder(c) BY <1>2, <2>1 DEF Registered, FramesInOrder
  <2>3. ASSUME c \in Terminals PROVE TerminalOrder(c) /\ TerminalGets(c)
    <3>1. /\ term[c].cursor = 0 /\ term[c].from = 0 /\ term[c].queue = <<>>
          /\ term[c].pending = {}
      BY <1>2, <2>3 DEF Fresh
    <3>2. Seen(c) = {} BY <3>1 DEF Seen, ToSet
    <3> QED BY <1>2, <2>1, <3>1, <3>2 DEF TerminalOrder, TerminalGets
  <2>4. ASSUME c \in Pages PROVE PageInv(c)
    <3>1. PageCursor(c) BY <1>2, <2>4 DEF PageCursor
    <3> QED BY <2>1, <3>1 DEF PageInv, PageOrder, PageGets, PageSnapshot, PageLive
  <2> QED BY <2>2, <2>3, <2>4 DEF ClientInv
<1> QED BY <1>4, <1>5 DEF ReaderInv

LEMMA ReaderNext ==
  ASSUME RegistryInv, ReplayHonest, ReaderInv, [Next]_vars
  PROVE  ReaderInv'
<1>1. CASE StreamStep BY <1>1, StreamKeeps
<1>2. ASSUME NEW p \in Pages, PageStep(p) PROVE ReaderInv'
  BY <1>2, AttemptKeeps, SubscribePageKeeps, SnapshotKeeps DEF PageStep
<1>7. ASSUME NEW p \in Pages, UserStep(p) \/ HistoryEnds(p) \/ NoSocket(p) PROVE ReaderInv'
  BY <1>7, AttemptKeeps, WaitKeeps DEF UserStep
<1>3. ASSUME NEW u \in Terminals, TerminalStep(u) PROVE ReaderInv'
  BY <1>3, BootstrapKeeps, SubscribeTerminalKeeps, HydratedKeeps, HydrateFailsKeeps
     DEF TerminalStep
<1>4. ASSUME NEW c \in Clients, Receive(c) \/ Lose(c) PROVE ReaderInv'
  BY <1>4, ReceiveKeeps, LoseKeeps
<1>5. CASE Restart BY <1>5, RestartKeeps
<1>6. CASE UNCHANGED vars
  <2>1. UNCHANGED <<registry, subs, conn, st, run, page, term>>
    BY <1>6 DEF vars, clients
  <2>2. StateInv /\ \A c \in Clients : ClientInv(c) BY DEF ReaderInv
  <2>3. \A c \in Clients : ClientInv(c)' BY <2>1, <2>2, Untouched
  <2>4. StateInv' BY <2>1, <2>2 DEF StateInv, registry
  <2> QED BY <2>3, <2>4 DEF ReaderInv
<1> QED BY <1>1, <1>2, <1>3, <1>4, <1>5, <1>6, <1>7 DEF Next

\* The inductive invariant of the readers.  Its step needs the registry's: a replay
\* that is called complete has all that is owed.
THEOREM ReaderInvariant == Spec => []ReaderInv
<1>1. RegistryInv /\ ReplayHonest /\ ReaderInv /\ [Next]_vars => ReaderInv' BY ReaderNext
<1> QED BY <1>1, ReaderInit, RegistryInvariant, ReplayHonestAlways, PTL DEF Spec

\* Numbers, cursors and statuses are what they should be, and neither the replay
\* buffer nor a writer queue outgrows its limit (record, _enqueue_frame).
THEOREM TypeCorrect == Spec => []TypeOK
<1>1. RegistryInv /\ ReaderInv => TypeOK
  <2> SUFFICES ASSUME RegistryInv, ReaderInv PROVE TypeOK OBVIOUS
  <2>1. StateInv /\ buf \subseteq 1..seq /\ seq \in Nat
    BY DEF ReaderInv, RegistryInv, StateInv
  <2>2. \A c \in Clients :
          /\ conn[c].pc \in {"off", "open", "closing"} /\ Len(conn[c].out) <= QueueSize
          /\ st[c] \in Statuses
    BY <2>1 DEF StateInv, Conn, Statuses
  <2>3. \A p \in Pages : /\ page[p].gen \in 0..MaxGen
                         /\ {page[p].last, page[p].base} \subseteq 0..MaxSeq
                         /\ run[p] \in Runs
    BY <2>1 DEF StateInv, PageType, CountedRuns
  <2>4. \A u \in Terminals : {term[u].cursor, term[u].from} \subseteq 0..seq
    <3> SUFFICES ASSUME NEW u \in Terminals PROVE {term[u].cursor, term[u].from} \subseteq 0..seq
      OBVIOUS
    <3>1. TerminalOrder(u) BY DEF ReaderInv, ClientInv, Clients
    <3>2. term[u].cursor \in Nat /\ term[u].from \in Nat BY <2>1 DEF StateInv, TermType
    <3> QED BY <2>1, <3>1, <3>2 DEF TerminalOrder
  <2> QED BY <2>1, <2>2, <2>3, <2>4 DEF TypeOK, StateInv, Statuses
<1> QED BY <1>1, ReaderInvariant, RegistryInvariant, PTL

\* A terminal that subscribes from its bootstrap cursor misses no event, or is
\* told of the gap (sessions.messages.subscribe, GatewayClient._activate).
THEOREM NothingIsMissed == Spec => []NothingMissed
<1>1. ReaderInv => NothingMissed
  <2> SUFFICES ASSUME ReaderInv, NEW u \in Terminals PROVE TerminalGets(u)
    BY DEF NothingMissed, TerminalGets, Owed, Seen
  <2> QED BY DEF ReaderInv, ClientInv, Clients
<1> QED BY <1>1, ReaderInvariant, PTL

\* A terminal takes every event once and in order; only one that was recorded
\* ahead of its delivery may come late (GatewayClient._enqueue).
THEOREM EventsComeInOrder == Spec => []InOrderOnce
<1>1. ReaderInv => InOrderOnce
  <2> SUFFICES ASSUME ReaderInv, NEW u \in Terminals PROVE TerminalOrder(u)
    BY DEF InOrderOnce, TerminalOrder
  <2> QED BY DEF ReaderInv, ClientInv, Clients
<1> QED BY <1>1, ReaderInvariant, PTL

\* What a live page skips since its snapshot was recorded ahead of its delivery, or
\* the gateway said that it is missing, or it might be lost and the page came back
\* without a snapshot (acceptStreamSeq, runSubscription, skipSnapshot).
THEOREM PagesSkipOnlyLate == Spec => []PageSkipsOnlyLate
<1>1. ReaderInv => PageSkipsOnlyLate
  <2> SUFFICES ASSUME ReaderInv, NEW p \in Pages, st[p] = "live", conn[p].pc = "open",
                      NEW n \in (page[p].base + 1)..seq, n > page[p].gap,
                      n > page[p].from \/ n \notin lossy, n \notin async
               PROVE  n \in page[p].got \cup Queued(p)
    BY DEF PageSkipsOnlyLate
  <2>1. /\ page[p] \in PageType /\ seq \in Nat
        /\ Registered(p) /\ PageGets(p) /\ PageLive(p)
    BY DEF ReaderInv, StateInv, ClientInv, PageInv, Clients
  <2>2. p \in subs /\ page[p].gen = gen BY <2>1 DEF Registered, PageLive
  <2>3. Base(p) = page[p].base /\ Got(p) = page[p].got BY <2>2 DEF Base, Got
  <2>4. n \in Got(p) \cup Queued(p) \/ Passed(p, n) BY <2>1, <2>2, <2>3 DEF PageGets
  <2>5. ~Passed(p, n)
    <3>1. page[p].gap \in Nat /\ page[p].from \in Nat /\ page[p].base \in Nat /\ n \in Nat
      BY <2>1 DEF PageType
    <3> QED BY <3>1 DEF Passed
  <2> QED BY <2>3, <2>4, <2>5
<1> QED BY <1>1, ReaderInvariant, PTL

\* A page that does not go live, and is not retried by its user, begins a bounded
\* number of attempts (runLivePhase, handleConnectionState).
THEOREM RecoveryIsBounded == Spec => []AttemptsBounded
<1>1. ReaderInv => AttemptsBounded
  BY RunSteps DEF ReaderInv, StateInv, AttemptsBounded
<1> QED BY <1>1, ReaderInvariant, PTL
=============================================================================
