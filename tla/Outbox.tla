------------------------------- MODULE Outbox -------------------------------
(***************************************************************************)
(* The relay of the outbox (events/relay.rs): rows staged by transactions  *)
(* are read in the order of created_at, published to the partition of      *)
(* their aggregate and marked, by relays that skip each other's locked     *)
(* rows.  A relay may stop, or a publication fail, at any step.            *)
(*                                                                         *)
(* created_at is now(), the start of the transaction that stages: a row    *)
(* may become visible after rows that are younger.  A consumer handles an  *)
(* event_id once (events/consumer.rs), so what it has handled is enough to *)
(* know of a partition.                                                    *)
(***************************************************************************)
EXTENDS Integers, Sequences, SequencesExt

CONSTANTS Events, AggregateOf,
          Undecodable,      \* events whose payload the relay cannot read
          Relays, BatchSize,
          MaxRelayFaults    \* the bound on stops and failures

\* Each event is of one wallet, swap or the like.
ASSUME OutboxAssumption ==
    /\ DOMAIN AggregateOf = Events
    /\ BatchSize \in Nat \ {0} /\ MaxRelayFaults \in Nat

VARIABLES begun,      \* transactions that stage an event, by their start
          visible,    \* rows committed
          published,  \* rows whose published_at is set
          hand,       \* of a relay: its locked rows, and how many are published
          handled,    \* by the consumer of an aggregate, in order
          skipped,    \* pairs: the second was taken when the first could not be
          relayFaults

outboxVars == <<begun, visible, published, hand, handled, skipped, relayFaults>>

NoBatch == [rows |-> <<>>, next |-> 1]
Aggregates == {AggregateOf[e] : e \in Events}
Handled == UNION {ToSet(handled[a]) : a \in Aggregates}
Precedes(a, b, s) == \E i, j \in DOMAIN s : i < j /\ s[i] = a /\ s[j] = b

OutboxInit ==
    /\ begun = <<>> /\ visible = {} /\ published = {} /\ skipped = {}
    /\ hand = [r \in Relays |-> NoBatch]
    /\ handled = [a \in Aggregates |-> <<>>]
    /\ relayFaults = 0

-----------------------------------------------------------------------------
\* OutboxWriter::stage, in a transaction that began earlier than it commits.
Begin(e) ==
    /\ e \notin ToSet(begun)
    /\ begun' = Append(begun, e)
    /\ UNCHANGED <<visible, published, hand, handled, skipped, relayFaults>>

CommitStaged(e) ==
    /\ e \in ToSet(begun) \ visible
    /\ visible' = visible \cup {e}
    /\ UNCHANGED <<begun, published, hand, handled, skipped, relayFaults>>

-----------------------------------------------------------------------------
LockedBy(r) == ToSet(hand[r].rows)

Unpublished == visible \ published

\* FOR UPDATE SKIP LOCKED
Free == Unpublished \ UNION {LockedBy(q) : q \in Relays}

\* Slip: the youngest rows come first.
Younger(e, f) == Precedes(f, e, begun)

Older(e, f) == Precedes(e, f, begun)

\* ORDER BY created_at LIMIT BatchSize
Oldest(rows) ==
    /\ \A i, j \in DOMAIN rows : i < j => Older(rows[i], rows[j])
    /\ \A e \in Free \ ToSet(rows) :
          Len(rows) = BatchSize /\ \A i \in DOMAIN rows : Older(rows[i], e)

\* The SELECT of relay_once.
FetchBatch(r) ==
    /\ hand[r] = NoBatch
    /\ \E n \in 1..BatchSize : \E rows \in [1..n -> Free] :
          /\ Oldest(rows)
          /\ hand' = [hand EXCEPT ![r] = [rows |-> rows, next |-> 1]]
          /\ skipped' = skipped \cup
                {p \in Events \X ToSet(rows) :
                    Precedes(p[1], p[2], begun) /\ p[1] \notin published \cup Free}
    /\ UNCHANGED <<begun, visible, published, handled, relayFaults>>

\* What the consumer makes of one more record of the partition.
Deliver(e) == handled' = [handled EXCEPT ![AggregateOf[e]] =
                             IF e \in ToSet(@) THEN @ ELSE Append(@, e)]

\* Slip: a row that fails is left for a later batch, and the batch goes on.
NextRow(r) == hand' = [hand EXCEPT ![r].next = @ + 1]

\* The ? of relay_once drops the transaction: nothing is marked.
GiveUp(r) == hand' = [hand EXCEPT ![r] = NoBatch]

Current(r) == hand[r].rows[hand[r].next]
Publishing(r) == hand[r].next <= Len(hand[r].rows)

Publish(r) ==
    /\ Publishing(r)
    /\ Current(r) \notin Undecodable
    /\ Deliver(Current(r))
    /\ hand' = [hand EXCEPT ![r].next = @ + 1]
    /\ UNCHANGED <<begun, visible, published, skipped, relayFaults>>

DecodeFails(r) ==
    /\ Publishing(r)
    /\ Current(r) \in Undecodable
    /\ GiveUp(r)
    /\ UNCHANGED <<begun, visible, published, handled, skipped, relayFaults>>

Fault == relayFaults < MaxRelayFaults /\ relayFaults' = relayFaults + 1

\* No acknowledgement within the time: the record may be in the log or not.
PublishFails(r) ==
    /\ Publishing(r) /\ Fault
    /\ Current(r) \notin Undecodable
    /\ Deliver(Current(r)) \/ UNCHANGED handled
    /\ GiveUp(r)
    /\ UNCHANGED <<begun, visible, published, skipped>>

CommitBatch(r) ==
    /\ hand[r] # NoBatch /\ ~ Publishing(r)
    /\ published' = published \cup LockedBy(r)
    /\ hand' = [hand EXCEPT ![r] = NoBatch]
    /\ UNCHANGED <<begun, visible, handled, skipped, relayFaults>>

RelayStops(r) ==
    /\ hand[r] # NoBatch /\ Fault
    /\ hand' = [hand EXCEPT ![r] = NoBatch]
    /\ UNCHANGED <<begun, visible, published, handled, skipped>>

RelayOnce(r) == FetchBatch(r) \/ Publish(r) \/ DecodeFails(r) \/ CommitBatch(r)

OutboxNext ==
    \/ \E e \in Events : Begin(e) \/ CommitStaged(e)
    \/ \E r \in Relays : RelayOnce(r) \/ PublishFails(r) \/ RelayStops(r)

\* The worker calls relay_once on every tick of an interval.
OutboxFairness == \A r \in Relays : WF_outboxVars(RelayOnce(r))

OutboxSpec == OutboxInit /\ [][OutboxNext]_outboxVars /\ OutboxFairness

-----------------------------------------------------------------------------
OutboxTypeOK ==
    /\ begun \in Seq(Events) /\ visible \subseteq ToSet(begun) /\ published \subseteq visible
    /\ \A r \in Relays : /\ hand[r].rows \in Seq(Events)
                         /\ hand[r].next \in 1..(Len(hand[r].rows) + 1)
    /\ \A a \in Aggregates : handled[a] \in Seq(Events)
    /\ skipped \subseteq Events \X Events /\ relayFaults \in 0..MaxRelayFaults

\* "marking published_at only after the broker ACKs" (relay.rs:2): whatever
\* fails or stops, a row that is marked has reached its consumer, and no two
\* relays have a row in hand.
MarkedWasSent ==
    /\ published \subseteq Handled
    /\ \A q, r \in Relays : q # r => LockedBy(q) \cap LockedBy(r) = {}

\* "events for the same wallet/swap/etc land in the same partition and stay
\* strictly ordered" (producer.rs:27-29), through failures and stops, unless
\* the younger was taken when the older was not there to take: not committed
\* yet, or in another relay's hands.
OrderedUnlessSkipped ==
    \A a \in Aggregates : \A e, f \in ToSet(handled[a]) :
        Precedes(f, e, begun) /\ Precedes(e, f, handled[a]) => <<f, e>> \in skipped

OutboxInv == OutboxTypeOK /\ MarkedWasSent /\ OrderedUnlessSkipped

\* A row committed is handled in the end, in spite of stops and failures; only
\* a row that cannot be read, and is older, may keep it back.
Reached(e) == e \in Handled \/ \E b \in visible \cap Undecodable : b = e \/ Precedes(b, e, begun)

CommittedIsHandled == \A e \in Events : e \in visible ~> Reached(e)
=============================================================================
