--------------------------- MODULE SessionStreams ---------------------------
(***************************************************************************)
(* The event stream of one session: the replay buffer                      *)
(* (gateway/session_streams.py), the emitters (gateway/event_bridge.py),   *)
(* the subscription requests (gateway/rpc_sessions.py), the bounded writer *)
(* queue of each connection (gateway/websocket.py), and its two readers:   *)
(*                                                                         *)
(* Pages are browser tabs.  A page keeps a generation and a cursor, and    *)
(* drops what is not past the cursor.  Its socket reconnects by itself;    *)
(* its subscription is tried again a bounded number of times (module       *)
(* PageBootstrap), sometimes without a snapshot:                           *)
(*   off -> subscribe [-> snapshot] -> answered -> live                    *)
(* A page that has used up its attempts stays off, its socket open.        *)
(* Terminals (cli/gateway_client.py) read a bootstrap with a cursor, then  *)
(* subscribe from it on the same connection; they collect events until the *)
(* answer, sort them, and drop what they have seen.  They do not reconnect *)
(* by themselves; a lost one is started anew:                              *)
(*   off -> subscribe -> hydrate -> answered -> live                       *)
(* The gateway is one thread: what happens between two awaits is one step. *)
(* Connections end with their gateway, so their frames are of its          *)
(* generation.  A frame is written and received in one step.               *)
(***************************************************************************)
EXTENDS Naturals, FiniteSets, SequencesExt, PageBootstrap

CONSTANTS
  Pages, Terminals,
  Window,     \* max_events_per_session
  QueueSize,  \* ws_writer_queue_maxsize
  Faults,     \* which environment failures happen
  MaxClients, \* bound: readers that ever come
  MaxSeq,     \* bound: events and lives of the gateway together
  MaxLate,    \* bound: of them, recorded ahead of their delivery
  MaxGen      \* bound: lives of the gateway

ASSUME ConstantsAssumption ==
  /\ Pages \cap Terminals = {}
  /\ Window \in Nat \ {0} /\ QueueSize \in Nat \ {0}
  /\ Faults \subseteq {"drop", "slow", "user", "hydrate", "restart"}
  /\ MaxClients \in Nat /\ MaxSeq \in Nat /\ MaxLate \in Nat /\ MaxGen \in Nat \ {0}

Clients == Pages \cup Terminals

VARIABLES
  gen, seq,  \* stream generation and the number of its last event
  buf,       \* the replay buffer: numbers of the events in it, oldest first
  lossy,     \* events that may be trimmed first: text deltas, heartbeats
  late,      \* recorded events whose delivery task has not run yet
  async,     \* history: all events recorded that way
  subs,      \* _message_subs: connections that get the session's events
  conn,      \* [pc, out]: off, open, closing (_closing); _outbox
  st,        \* how far a client's subscription is
  run,       \* the bootstrap of a page
  page,      \* [gen, last, acked, ack, base, from, gap, got] of a page
  term       \* [cursor, pending, queue, gap, from] of a terminal

registry == <<gen, seq, buf, lossy, late, async>>
clients  == <<st, run, page, term>>
vars == <<registry, subs, conn, clients>>

Off == [pc |-> "off", out |-> <<>>]

Event(n)       == [type |-> "event", n |-> n, ok |-> TRUE]
Ack(n, ok)     == [type |-> "ack", n |-> n, ok |-> ok]
Snapshotted(n) == [type |-> "snapshot", n |-> n, ok |-> TRUE]
Queued(c) == {conn[c].out[i].n : i \in {j \in DOMAIN conn[c].out : conn[c].out[j].type = "event"}}

\* The numbers in S, sorted.
Ascending(S) ==
  CHOOSE s \in [1..Cardinality(S) -> S] : \A i, j \in DOMAIN s : i < j => s[i] < s[j]

----------------------------------------------------------------------------
(* The registry *)

\* Mutant: the trim is left out.
MutUntrimmed(B, L) == {B}
\* _trim_session_events: the first event that may be lost goes, or else the
\* first (the one element of the result).
Trimmed(B, L) ==
  LET first == IF B \cap L # {} THEN B \cap L ELSE B
  IN IF Cardinality(B) <= Window THEN {B}
     ELSE {B \ {n} : n \in {k \in first : \A m \in first : k <= m}}

\* record, of an event that may be trimmed first or not
Record(mayLose) ==
  /\ seq + gen < MaxSeq
  /\ seq' = seq + 1
  /\ lossy' = IF mayLose THEN lossy \cup {seq + 1} ELSE lossy
  /\ buf' \in Trimmed(buf \cup {seq + 1}, lossy')
  /\ UNCHANGED gen

\* replay: is all that follows the cursor there?
\* Mutant: off by one at the edge of the window.
MutCompleteEarly(since) ==
  \/ since = seq
  \/ since < seq /\ \E n \in buf : n <= since + 2
\* The first event in the buffer follows the cursor, or is not past it.
Complete(since) ==
  \/ since = seq
  \/ since < seq /\ \E n \in buf : n <= since + 1
After(since) == {n \in buf : n > since}

----------------------------------------------------------------------------
(* The writer queue *)

\* Mutant: a full queue gives up its oldest frame.
MutEvicts(c, frames) ==
  LET all == conn[c].out \o frames
      n == Len(all)
  IN IF conn[c].pc # "open" THEN conn[c]
     ELSE [conn[c] EXCEPT !.out = SubSeq(all, 1 + (IF n > QueueSize THEN n - QueueSize ELSE 0), n)]
\* send_event, send_res, _enqueue_frame: a frame that finds the queue full
\* closes the connection, whose writer then sends nothing more.
Enqueued(c, frames) ==
  IF conn[c].pc # "open" THEN conn[c]
  ELSE IF Len(conn[c].out) + Len(frames) > QueueSize
       THEN [pc |-> "closing", out |-> <<>>]
       ELSE [conn[c] EXCEPT !.out = @ \o frames]

Broadcast(n) ==
  conn' = [c \in Clients |-> IF c \in subs THEN Enqueued(c, <<Event(n)>>) ELSE conn[c]]

\* EventBridge.emit and the other emitters: recorded and queued in one step.
Emit(mayLose) ==
  /\ Record(mayLose)
  /\ Broadcast(seq + 1)
  /\ UNCHANGED <<late, async, subs, clients>>

\* _emit_runtime_compaction_event records, and leaves delivery to a task ...
EmitLate ==
  /\ Cardinality(async) < MaxLate
  /\ Record(FALSE)
  /\ late' = late \cup {seq + 1}
  /\ async' = async \cup {seq + 1}
  /\ UNCHANGED <<subs, conn, clients>>

\* ... which calls emit with replay_recorded.
DeliverLate(n) ==
  /\ n \in late
  /\ late' = late \ {n}
  /\ Broadcast(n)
  /\ UNCHANGED <<gen, seq, buf, lossy, async, subs, clients>>

----------------------------------------------------------------------------
(* Requests of a connection, handled one after the other *)

Replay(since) ==
  LET ns == Ascending(After(since)) IN [i \in DOMAIN ns |-> Event(ns[i])]

\* sessions.messages.subscribe of a page (fast_ack): registered, replayed and
\* answered in one step.  A cursor of another generation gets no replay.  The
\* page asks for a snapshot behind it, unless it is to skip it.
SubscribePage(p) ==
  /\ st[p] = "subscribe" /\ conn[p].pc = "open"
  /\ subs' = subs \cup {p}
  /\ LET since == page[p].last
         known == page[p].gen \in {0, gen}
         whole == known /\ Complete(since)
     IN /\ conn' = [conn EXCEPT ![p] =
             Enqueued(p, (IF known THEN Replay(since) ELSE <<>>) \o <<Ack(seq, whole)>>)]
        /\ page' = [page EXCEPT ![p].from = seq,
                                ![p].gap = IF ~whole THEN seq
                                           ELSE IF page[p].gen = gen THEN @ ELSE 0]
  /\ st' = [st EXCEPT ![p] = IF run[p].skip THEN "answered" ELSE "snapshot"]
  /\ UNCHANGED <<registry, run, term>>

\* sessions.messages.snapshot, pipelined behind it
Snapshot(p) ==
  /\ st[p] = "snapshot" /\ conn[p].pc = "open"
  /\ conn' = [conn EXCEPT ![p] = Enqueued(p, <<Snapshotted(seq)>>)]
  /\ st' = [st EXCEPT ![p] = "answered"]
  /\ UNCHANGED <<registry, subs, run, page, term>>

\* A terminal connects and sends sessions.bootstrap, which takes the cursor
\* and then reads history.
Bootstrap(u) ==
  /\ st[u] = "off"
  /\ conn' = [conn EXCEPT ![u] = [pc |-> "open", out |-> <<>>]]
  /\ term' = [term EXCEPT ![u].cursor = seq]
  /\ st' = [st EXCEPT ![u] = "subscribe"]
  /\ UNCHANGED <<registry, subs, run, page>>

\* sessions.messages.subscribe of a terminal: registered and replayed ...
SubscribeTerminal(u) ==
  /\ st[u] = "subscribe" /\ conn[u].pc = "open"
  /\ subs' = subs \cup {u}
  /\ conn' = [conn EXCEPT ![u] = Enqueued(u, Replay(term[u].cursor))]
  /\ term' = [term EXCEPT ![u].gap = ~Complete(term[u].cursor), ![u].from = seq]
  /\ st' = [st EXCEPT ![u] = "hydrate"]
  /\ UNCHANGED <<registry, run, page>>

\* ... and answered when the metadata has been read.
Hydrated(u) ==
  /\ st[u] = "hydrate" /\ conn[u].pc = "open"
  /\ conn' = [conn EXCEPT ![u] = Enqueued(u, <<Ack(term[u].from, ~term[u].gap)>>)]
  /\ st' = [st EXCEPT ![u] = "answered"]
  /\ UNCHANGED <<registry, subs, run, page, term>>

----------------------------------------------------------------------------
(* Readers *)

Fresh == [cursor |-> 0, pending |-> {}, queue |-> <<>>, gap |-> FALSE, from |-> 0]

\* Mutant: the cursor of another generation is kept.
MutKeepsCursor(v) == [v EXCEPT !.gen = gen]
\* observeStreamGeneration: the first generation is taken as it is, another
\* one resets the cursor.
Observed(v) ==
  IF v.gen \in {0, gen} THEN [v EXCEPT !.gen = gen]
  ELSE [v EXCEPT !.gen = gen, !.last = 0, !.base = 0, !.got = {}]

\* acceptStreamSeq
Accepted(v, n) ==
  LET o == Observed(v) IN
    IF n > o.last THEN [o EXCEPT !.last = n, !.got = @ \cup {n}] ELSE o

\* applyReplayCursor
Applied(v, n) == [v EXCEPT !.last = IF n > @ THEN n ELSE @]

\* runSubscription waits for both answers.  The subscription's is kept (its
\* generation counts even if the snapshot never comes) ...
Held(v, n) == [Observed(v) EXCEPT !.acked = TRUE, !.ack = n]
\* ... and with the snapshot, which is the new base unless the page is ahead of
\* it, the cursor is applied.
Settled(v, s) ==
  LET o == Observed(v)
      based == IF s >= o.last THEN [o EXCEPT !.last = s, !.base = s, !.got = {}] ELSE o
  IN [Applied(based, v.ack) EXCEPT !.acked = FALSE, !.ack = 0]
\* Without a snapshot to wait for, the base stays.
SettledBare(v, n) == Applied(Observed(v), n)

\* Mutant: no check of what was seen.
MutEnqueuesAll(u, ns) == term[u].queue \o Ascending(ns)
\* _activate sorts what was collected; _enqueue drops what was seen.
Unseen(u, ns) == term[u].queue \o Ascending(ns \ ToSet(term[u].queue))

\* The writer sends its first frame, and the reader handles it.
Receive(c) ==
  /\ conn[c].pc = "open" /\ conn[c].out # <<>>
  /\ conn' = [conn EXCEPT ![c].out = Tail(@)]
  /\ LET f == Head(conn[c].out) IN
       \/ /\ c \in Pages /\ f.type = "event"
          /\ page' = [page EXCEPT ![c] = Accepted(@, f.n)]
          /\ UNCHANGED <<st, run, term>>
       \/ /\ c \in Pages /\ f.type = "ack" /\ ~run[c].skip
          /\ page' = [page EXCEPT ![c] = Held(@, f.n)]
          /\ UNCHANGED <<st, run, term>>
       \/ /\ c \in Pages
          /\ \/ f.type = "ack" /\ run[c].skip /\ page' = [page EXCEPT ![c] = SettledBare(@, f.n)]
             \/ f.type = "snapshot" /\ page' = [page EXCEPT ![c] = Settled(@, f.n)]
          /\ st' = [st EXCEPT ![c] = "live"]
          /\ run' = [run EXCEPT ![c] = Ready(@)]
          /\ UNCHANGED term
       \/ /\ c \in Terminals /\ f.type = "event" /\ st[c] # "live"
          /\ term' = [term EXCEPT ![c].pending = @ \cup {f.n}]
          /\ UNCHANGED <<st, run, page>>
       \/ /\ c \in Terminals /\ f.type = "event" /\ st[c] = "live"
          /\ term' = [term EXCEPT ![c].queue = Unseen(c, {f.n})]
          /\ UNCHANGED <<st, run, page>>
       \/ /\ c \in Terminals /\ f.type = "ack"
          /\ term' = [term EXCEPT ![c].queue = Unseen(c, term[c].pending),
                                  ![c].pending = {}]
          /\ st' = [st EXCEPT ![c] = "live"]
          /\ UNCHANGED <<run, page>>
  /\ UNCHANGED <<registry, subs>>

\* The page begins an attempt: over an open socket it asks from its cursor.
Attempting(p, r, open) ==
  /\ run' = [run EXCEPT ![p] = r]
  /\ st' = [st EXCEPT ![p] = IF r.phase = "connecting" /\ open THEN "subscribe" ELSE "off"]

\* The socket is open again; the bootstrap says whether the page subscribes.
Connect(p) ==
  /\ st[p] = "off" /\ conn[p].pc = "off"
  /\ conn' = [conn EXCEPT ![p] = [pc |-> "open", out |-> <<>>]]
  /\ Attempting(p, Reopened(run[p]), TRUE)
  /\ UNCHANGED <<registry, subs, page, term>>

\* The user retries a page that is degraded.
RetryLive(p) ==
  /\ "user" \in Faults /\ st[p] = "off" /\ run[p].phase = "degraded"
  /\ Attempting(p, Retried(run[p]), conn[p].pc = "open")
  /\ UNCHANGED <<registry, subs, conn, page, term>>

\* History has been read, or has failed; it decides what the next loss finds.
HistoryEnds(p) ==
  /\ run[p].phase = "ready" /\ run[p].reading
  /\ run' = [run EXCEPT ![p].reading = FALSE]
  /\ UNCHANGED <<registry, subs, conn, st, page, term>>

\* retryHistory, by the user
RetryHistory(p) ==
  /\ "user" \in Faults /\ ~run[p].reading
  /\ run' = [run EXCEPT ![p].reading = TRUE, ![p].fresh = TRUE]
  /\ UNCHANGED <<registry, subs, conn, st, page, term>>

----------------------------------------------------------------------------
(* Ends *)

\* Those in C lose their connection, with all that is queued or on its way.
Disconnect(C) ==
  /\ conn' = [c \in Clients |-> IF c \in C THEN Off ELSE conn[c]]
  /\ st' = [c \in Clients |-> IF c \in C /\ st[c] # "never" THEN "off" ELSE st[c]]
  /\ run' = [p \in Pages |-> IF p \in C /\ conn[p].pc # "off" THEN Dropped(run[p], page[p].acked)
                             ELSE run[p]]
  /\ page' = [p \in Pages |-> IF p \in C THEN [page[p] EXCEPT !.acked = FALSE, !.ack = 0]
                              ELSE page[p]]
  /\ term' = [u \in Terminals |-> IF u \in C THEN Fresh ELSE term[u]]

\* Mutant: nobody closes a connection that overflowed.
MutLeftOpen(c) == FALSE
Overflowed(c) == conn[c].pc = "closing"

\* _force_close, or a loss nobody asked for; then remove_connection.
Lose(c) ==
  /\ Overflowed(c) \/ ("drop" \in Faults /\ conn[c].pc = "open")
  /\ Disconnect({c})
  /\ subs' = subs \ {c}
  /\ UNCHANGED registry

\* A page waits for its socket: the attempt's time ends, or the whole phase's,
\* or a handshake fails.
NoSocket(p) ==
  /\ "slow" \in Faults /\ st[p] = "off" /\ conn[p].pc = "off"
  /\ run[p].phase = "connecting"
  /\ \E r \in {Failed(run[p], FALSE), Degraded(run[p]), [run[p] EXCEPT !.awaiting = TRUE]} :
       run' = [run EXCEPT ![p] = r]
  /\ UNCHANGED <<registry, subs, conn, st, page, term>>

\* Reading the metadata raises: the registration is taken back, and the
\* terminal's start fails.
HydrateFails(u) ==
  /\ "hydrate" \in Faults /\ st[u] = "hydrate"
  /\ Disconnect({u})
  /\ subs' = subs \ {u}
  /\ UNCHANGED registry

\* reset_session_streams, in a new life of the gateway
Restart ==
  /\ "restart" \in Faults /\ gen < MaxGen
  /\ gen' = gen + 1
  /\ seq' = 0 /\ buf' = {} /\ lossy' = {} /\ late' = {} /\ async' = {} /\ subs' = {}
  /\ Disconnect(Clients)

----------------------------------------------------------------------------
(* Specification *)

Init ==
  /\ gen = 1 /\ seq = 0
  /\ buf = {} /\ lossy = {} /\ late = {} /\ async = {} /\ subs = {}
  /\ conn = [c \in Clients |-> Off]
  /\ \E S \in SUBSET Clients :
       /\ Cardinality(S) <= MaxClients
       /\ st = [c \in Clients |-> IF c \in S THEN "off" ELSE "never"]
  /\ run = [p \in Pages |-> NewRun]
  /\ page = [p \in Pages |-> [gen |-> 0, last |-> 0, acked |-> FALSE, ack |-> 0,
                              base |-> 0, from |-> 0, gap |-> 0, got |-> {}]]
  /\ term = [u \in Terminals |-> Fresh]

StreamStep == (\E mayLose \in BOOLEAN : Emit(mayLose)) \/ EmitLate \/ \E n \in late : DeliverLate(n)
PageStep(p) == Connect(p) \/ SubscribePage(p) \/ Snapshot(p)
UserStep(p) == RetryLive(p) \/ RetryHistory(p)
TerminalStep(u) == Bootstrap(u) \/ SubscribeTerminal(u) \/ Hydrated(u) \/ HydrateFails(u)

Next ==
  \/ StreamStep
  \/ \E p \in Pages : PageStep(p) \/ UserStep(p) \/ HistoryEnds(p) \/ NoSocket(p)
  \/ \E u \in Terminals : TerminalStep(u)
  \/ \E c \in Clients : Receive(c) \/ Lose(c)
  \/ Restart

Spec == Init /\ [][Next]_vars

\* Writers write, tasks run, requests are handled, overflowed connections are
\* closed, and sockets of pages reconnect.
FairSpec ==
  /\ Spec
  /\ WF_vars(\E n \in late : DeliverLate(n))
  /\ \A p \in Pages : WF_vars(PageStep(p))
  /\ \A u \in Terminals : WF_vars(SubscribeTerminal(u) \/ Hydrated(u))
  /\ \A c \in Clients : WF_vars(Receive(c)) /\ WF_vars(Overflowed(c) /\ Lose(c))

----------------------------------------------------------------------------
(* Properties *)

\* Neither the buffer nor a writer queue outgrows its limit, and no event that
\* must be kept makes room for one that may be lost (_trim_session_events).
TypeOK ==
  /\ gen \in 1..MaxGen /\ seq \in 0..MaxSeq
  /\ buf \subseteq 1..seq /\ Cardinality(buf) <= Window
  /\ lossy \subseteq 1..seq /\ late \subseteq async /\ async \subseteq 1..seq
  /\ subs \subseteq Clients
  /\ \A c \in Clients :
       /\ conn[c].pc \in {"off", "open", "closing"} /\ Len(conn[c].out) <= QueueSize
       /\ st[c] \in {"never", "off", "subscribe", "snapshot", "hydrate", "answered", "live"}
  /\ \A p \in Pages :
       /\ page[p].gen \in 0..MaxGen /\ {page[p].last, page[p].base} \subseteq 0..MaxSeq
       /\ run[p] \in Runs
  /\ \A u \in Terminals : {term[u].cursor, term[u].from} \subseteq 0..seq

\* When replay() calls itself complete, every event after the cursor that may
\* not be lost is still in the buffer, wherever the trim has made holes.
ReplayHonest ==
  \A since \in 0..seq :
    Complete(since) => ((since + 1)..seq) \ lossy \subseteq buf

\* A terminal that subscribes from its bootstrap cursor "cannot miss a live
\* event emitted while bootstrap is reading" (rpc_sessions.py), nor one emitted
\* later: each is with it, on its way, or its connection ends, or it was told
\* of the gap.
NothingMissed ==
  \A u \in Terminals :
    (st[u] \in {"hydrate", "answered", "live"} /\ conn[u].pc = "open" /\ ~term[u].gap) =>
      {n \in (term[u].cursor + 1)..seq : n > term[u].from \/ n \notin lossy}
        \subseteq ToSet(term[u].queue) \cup term[u].pending \cup Queued(u) \cup late

\* A terminal's events come once, in the order they were recorded; only one
\* that was recorded ahead of its delivery may come after a later one.
InOrderOnce ==
  \A u \in Terminals :
    \A i, j \in DOMAIN term[u].queue :
      i < j => \/ term[u].queue[i] < term[u].queue[j]
               \/ /\ term[u].queue[i] > term[u].queue[j]
                  /\ term[u].queue[j] \in async

\* What a live page does not have of the events since its last snapshot, and
\* will not get, through overflow, reconnection, retries without a snapshot, and
\* restart: an event recorded ahead of its delivery, which acceptStreamSeq drops
\* when a later one overtook it; what lies before an answer that called the
\* replay incomplete; and, if it subscribed again without a snapshot, text
\* deltas recorded before that, which the replay does not count as missing.
PageSkipsOnlyLate ==
  \A p \in Pages :
    (st[p] = "live" /\ conn[p].pc = "open") =>
      {n \in (page[p].base + 1)..seq : n > page[p].gap /\ (n > page[p].from \/ n \notin lossy)}
        \ async \subseteq page[p].got \cup Queued(p)

\* However the network fails, a page is again and again live at the end of the
\* stream, or degraded and waiting for its user ("background reconnect churn must
\* not turn the honest terminal state back into an endless connecting indicator");
\* and a terminal is again and again served, or off.  When failures end, once is
\* for good.
EveryoneCatchesUp ==
  /\ \A p \in Pages : []<>(\/ st[p] = "never" \/ run[p].phase = "degraded"
                            \/ (st[p] = "live" /\ page[p].gen = gen /\ page[p].last = seq))
  /\ \A u \in Terminals : []<>(st[u] \in {"never", "off", "live"} /\ conn[u].out = <<>>)

\* "does not grant repeated replacement sockets unbounded recovery budgets": a
\* page that neither goes live nor is retried by its user begins a bounded
\* number of attempts, however its sockets come and go.
AttemptsBounded == \A p \in Pages : run[p].tries <= Budget
=============================================================================
